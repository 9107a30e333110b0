---------------------------- MODULE LimitsProofs ----------------------------
(***************************************************************************)
(* The limits that are counted over a stretch of time, for every number of *)
(* threads, sources and sessions and every limit: provider attempts in a   *)
(* minute and a day, the tokens of a month, new viewers in an hour, failed *)
(* logins in a window.                                                     *)
(* What is counted was stamped before it was written, by requests that may *)
(* be overtaken: an entry or a row is counted under a lock, and every      *)
(* stretch that holds the new one lies in what was counted; a failed login *)
(* is remembered in memory without one, so that a window may exceed its    *)
(* limit, and by how much depends on the threads.                          *)
(***************************************************************************)
EXTENDS AIBudget, Visits, FiniteSetTheorems, TLAPS

-----------------------------------------------------------------------------
(***************************************************************************)
(* Counting                                                                *)
(***************************************************************************)
\* A set that gains at most x over one that was below the limit is within it.
LEMMA AtMostOneMore ==
  ASSUME NEW S, NEW T, NEW x, NEW L \in Nat,
         IsFiniteSet(T), Cardinality(T) < L, S \subseteq T \cup {x}
  PROVE  Cardinality(S) <= L
<1>1. /\ IsFiniteSet(T \cup {x})
      /\ Cardinality(T \cup {x}) =
           IF x \in T THEN Cardinality(T) ELSE Cardinality(T) + 1
  BY FS_AddElement
<1>2. Cardinality(T) \in Nat
  BY FS_CardinalityType
<1>3. IsFiniteSet(S) /\ Cardinality(S) <= Cardinality(T \cup {x})
  BY <1>1, FS_Subset
<1>4. Cardinality(S) \in Nat
  BY <1>3, FS_CardinalityType
<1> QED
  BY <1>1, <1>2, <1>3, <1>4

\* Every set of entries is finite, so fewer entries count less.
LEMMA EntriesAreFinite ==
  ASSUME TypeOK, NEW T \in SUBSET DOMAIN ledger
  PROVE  /\ IsFiniteSet(T)
         /\ \A S \in SUBSET T : Cardinality(S) <= Cardinality(T)
<1>1. DOMAIN ledger = 1..Len(ledger) /\ Len(ledger) \in Nat
  BY DEF TypeOK
<1>2. IsFiniteSet(DOMAIN ledger)
  BY <1>1, FS_Interval
<1> QED
  BY <1>2, FS_Subset

LEMMA LimitsAreNatural ==
  /\ {GlobalPerMinute, SessionPerMinute, DailyAttempts} \subseteq Nat
  /\ \A stage \in Stages : Reservation(stage) \in Nat
BY LimitsAssumption DEF Reservation, Stages

-----------------------------------------------------------------------------
(***************************************************************************)
(* Types                                                                   *)
(***************************************************************************)
LEMMA WaitingWorker ==
  ASSUME TypeOK, NEW w \in Workers, worker[w].pc = "waiting"
  PROVE  /\ worker[w] \in Waiting
         /\ NewEntry(w) \in Entry
<1>1. worker[w] \in Waiting
  BY DEF TypeOK, Idle
<1> QED
  BY <1>1, LimitsAreNatural DEF Waiting, NewEntry, Entry

LEMMA LedgerHoldsEntries ==
  ASSUME TypeOK, NEW i \in DOMAIN ledger
  PROVE  /\ ledger[i] \in Entry
         /\ ledger[i].s \in Sessions
         /\ ledger[i].e \in Nat
         /\ ledger[i].at \in Nat
<1>1. ledger[i] \in Entry
  BY DEF TypeOK
<1> QED
  BY <1>1 DEF Entry, Times

\* Nothing a thread read from its clock, and no entry, lies in the future; a
\* chat that an entry or a thread knows of is not newer than the current one.
NotAhead ==
  /\ \A i \in DOMAIN ledger : ledger[i].e <= epoch[ledger[i].s]
  /\ \A w \in Workers : worker[w].pc = "waiting" => worker[w].now <= clock

IInv ==
  TypeOK /\ NotAhead /\ GlobalRateRespected /\ SessionRateRespected
    /\ DailyLimitRespected

\* An admission adds one entry at the end and leaves the others as they are.
LEMMA Appended ==
  ASSUME TypeOK, NEW w \in Workers, Admit(w)
  PROVE  /\ DOMAIN ledger' = DOMAIN ledger \cup {Len(ledger) + 1}
         /\ Len(ledger) + 1 \notin DOMAIN ledger
         /\ ledger'[Len(ledger) + 1] = NewEntry(w)
         /\ \A i \in DOMAIN ledger : ledger'[i] = ledger[i]
<1>1. ledger \in Seq(Entry) /\ NewEntry(w) \in Entry
  BY WaitingWorker DEF TypeOK, Admit
<1>2. ledger' = Append(ledger, NewEntry(w))
  BY DEF Admit
<1> HIDE DEF NewEntry, Entry
<1> QED
  BY <1>1, <1>2

\* Settling an entry changes neither its session, its chat nor its stamp.
LEMMA Settled ==
  ASSUME TypeOK, NEW i \in DOMAIN ledger, NEW status, NEW used,
         Settle(i, status, used)
  PROVE  /\ DOMAIN ledger' = DOMAIN ledger
         /\ \A j \in DOMAIN ledger :
              /\ ledger'[j].s = ledger[j].s
              /\ ledger'[j].e = ledger[j].e
              /\ ledger'[j].at = ledger[j].at
BY SMTT(20) DEF TypeOK, Settle, Entry

LEMMA TypeStep == IInv /\ [Next]_vars => TypeOK' /\ NotAhead'
<1> SUFFICES ASSUME IInv, [Next]_vars PROVE TypeOK' /\ NotAhead'
  OBVIOUS
<1> USE DEF IInv
<1>1. ASSUME NEW w \in Workers, NEW s \in Sessions, NEW stage \in Stages,
             ReadClock(w, s, stage)
      PROVE  TypeOK' /\ NotAhead'
  <2>1. [pc |-> "waiting", now |-> clock, s |-> s, e |-> epoch[s],
         stage |-> stage] \in Waiting
    BY DEF TypeOK, Waiting
  <2>2. TypeOK'
    BY <1>1, <2>1 DEF TypeOK, ReadClock
  <2>3. NotAhead'
    BY <1>1 DEF TypeOK, NotAhead, ReadClock, Times
  <2> QED
    BY <2>2, <2>3
<1>2. ASSUME NEW w \in Workers, Admit(w) PROVE TypeOK' /\ NotAhead'
  <2>1. worker[w] \in Waiting /\ NewEntry(w) \in Entry
    BY <1>2, WaitingWorker DEF Admit
  <2>2. /\ NewEntry(w).at = worker[w].now
        /\ NewEntry(w).s = worker[w].s /\ NewEntry(w).e = worker[w].e
    BY DEF NewEntry
  <2>3. ledger' \in Seq(Entry)
    BY <1>2, <2>1 DEF TypeOK, Admit
  <2>4. \A i \in DOMAIN ledger' : ledger'[i].at <= clock
    BY <1>2, <2>2, Appended DEF TypeOK, NotAhead, Admit
  <2>5. worker' \in [Workers -> {Idle} \cup Waiting]
    BY <1>2 DEF TypeOK, Admit
  <2>6. TypeOK'
    BY <1>2, <2>3, <2>4, <2>5 DEF TypeOK, Admit
  <2>7. \A i \in DOMAIN ledger' : ledger'[i].e <= epoch[ledger'[i].s]
    <3>1. worker[w].e = epoch[worker[w].s] /\ worker[w].e \in Nat
      BY <1>2, <2>1, BoundsAssumption DEF Admit, TurnExists, Waiting
    <3> QED
      BY <1>2, <2>2, <3>1, Appended DEF NotAhead
  <2>8. NotAhead'
    BY <1>2, <2>7 DEF NotAhead, Admit, Idle, TypeOK
  <2> QED
    BY <2>6, <2>8
<1>3. ASSUME NEW w \in Workers, Refuse(w) PROVE TypeOK' /\ NotAhead'
  BY <1>3 DEF TypeOK, NotAhead, Refuse, Idle
<1>4. ASSUME NEW i \in DOMAIN ledger, NEW status \in {"succeeded", "failed"},
             NEW used \in Usages \cup {0}, Settle(i, status, used)
      PROVE  TypeOK' /\ NotAhead'
  <2>1. used \in Nat
    BY BoundsAssumption
  <2>2. [ledger[i] EXCEPT !.status = status, !.used = used] \in Entry
    BY <2>1, LedgerHoldsEntries DEF Entry
  <2>3. ledger' \in Seq(Entry)
    BY <1>4, <2>2 DEF TypeOK, Settle
  <2>4. TypeOK'
    BY <1>4, <2>3, Settled DEF TypeOK, Settle
  <2>5. NotAhead'
    BY <1>4, Settled DEF NotAhead, Settle
  <2> QED
    BY <2>4, <2>5
<1>5. ASSUME NEW s \in Sessions, ClearChat(s) PROVE TypeOK' /\ NotAhead'
  <2>1. epoch[s] \in 0..MaxEpoch /\ epoch[s] + 1 \in 0..MaxEpoch
    BY <1>5, BoundsAssumption DEF TypeOK, ClearChat
  <2>2. TypeOK'
    BY <1>5, <2>1 DEF TypeOK, ClearChat
  <2>3. \A i \in DOMAIN ledger : ledger[i].s \in Sessions /\ ledger[i].e \in Nat
    BY LedgerHoldsEntries
  <2>4. \A r \in Sessions : epoch[r] \in Nat /\ epoch'[r] \in Nat
                              /\ epoch[r] <= epoch'[r]
    BY <1>5, <2>1, BoundsAssumption DEF TypeOK, ClearChat
  <2>5. NotAhead'
    BY <1>5, <2>3, <2>4 DEF NotAhead, ClearChat
  <2> QED
    BY <2>2, <2>5
<1>6. CASE Tick
  <2>1. clock \in Nat /\ clock + 1 \in Times
    BY <1>6, TimeAssumption DEF TypeOK, Tick, Times
  <2>2. \A i \in DOMAIN ledger : ledger[i].at \in Nat
    BY LedgerHoldsEntries
  <2>3. TypeOK'
    BY <1>6, <2>1, <2>2 DEF TypeOK, Tick
  <2>4. \A w \in Workers : worker[w].pc = "waiting" => worker[w].now \in Nat
    BY WaitingWorker DEF Waiting, Times
  <2>5. NotAhead'
    BY <1>6, <2>1, <2>4 DEF NotAhead, Tick
  <2> QED
    BY <2>3, <2>5
<1>7. CASE UNCHANGED vars
  BY <1>7 DEF vars, TypeOK, NotAhead
<1> QED
  BY <1>1, <1>2, <1>3, <1>4, <1>5, <1>6, <1>7 DEF Next

-----------------------------------------------------------------------------
(***************************************************************************)
(* The limits                                                              *)
(***************************************************************************)
\* The window of an admission covers every minute that holds its stamp.
LEMMA MinuteIsCounted ==
  ASSUME IInv, NEW w \in Workers, Admit(w), NEW start \in Times
  PROVE  \/ InMinute(start)' = InMinute(start)
         \/ /\ InMinute(start)' = InMinute(start) \cup {Len(ledger) + 1}
            /\ InMinute(start) \subseteq Since(MinuteStart(w))
<1> DEFINE n == Len(ledger) + 1
<1> DEFINE now == worker[w].now
<1>1. /\ DOMAIN ledger' = DOMAIN ledger \cup {n}
      /\ n \notin DOMAIN ledger
      /\ ledger'[n].at = now
      /\ \A i \in DOMAIN ledger : ledger'[i] = ledger[i]
  <2>1. NewEntry(w).at = now
    BY DEF NewEntry
  <2> QED
    BY <2>1, Appended DEF IInv
<1>2. now \in Int /\ start \in Int /\ Minute \in Int
  BY WaitingWorker, TimeAssumption DEF IInv, Admit, Waiting, Times
<1>3. \A i \in DOMAIN ledger : ledger[i].at \in Int
  BY LedgerHoldsEntries DEF IInv
<1>4. MinuteStart(w) = now - Minute
  BY DEF MinuteStart
<1> HIDE DEF n, now
<1>5. CASE start <= now /\ now <= start + Minute
  <2>1. InMinute(start)' = InMinute(start) \cup {n}
    BY <1>1, <1>5 DEF InMinute
  <2>2. \A i \in InMinute(start) : ledger[i].at >= now - Minute
    BY <1>2, <1>3, <1>5 DEF InMinute
  <2>3. InMinute(start) \subseteq Since(MinuteStart(w))
    BY <1>4, <2>2 DEF InMinute, Since
  <2> QED
    BY <2>1, <2>3 DEF n
<1>6. CASE ~(start <= now /\ now <= start + Minute)
  BY <1>1, <1>6 DEF InMinute
<1> QED
  BY <1>5, <1>6

LEMMA AdmitKeepsRates ==
  ASSUME IInv, NEW w \in Workers, Admit(w)
  PROVE  GlobalRateRespected' /\ SessionRateRespected'
<1> DEFINE n == Len(ledger) + 1
<1>1. WithinRates(w) /\ TurnExists(w)
  BY DEF Admit
<1>2. ASSUME NEW start \in Times
      PROVE  Cardinality(InMinute(start)') <= GlobalPerMinute
  <2>1. CASE InMinute(start)' = InMinute(start)
    BY <2>1 DEF IInv, GlobalRateRespected
  <2>2. CASE /\ InMinute(start)' = InMinute(start) \cup {n}
             /\ InMinute(start) \subseteq Since(MinuteStart(w))
    <3>1. IsFiniteSet(Since(MinuteStart(w)))
      BY EntriesAreFinite DEF IInv, Since
    <3> QED
      BY <1>1, <2>2, <3>1, AtMostOneMore, LimitsAreNatural DEF WithinRates
  <2> QED
    BY <2>1, <2>2, MinuteIsCounted
<1>3. ASSUME NEW start \in Times, NEW s \in Sessions
      PROVE  Cardinality({i \in InMinute(start) : ledger[i].s = s
                                                    /\ Surviving(i)}')
               <= SessionPerMinute
  <2> DEFINE Mine == {i \in InMinute(start) : ledger[i].s = s /\ Surviving(i)}
  <2>1. /\ DOMAIN ledger' = DOMAIN ledger \cup {n}
        /\ ledger'[n].s = worker[w].s
        /\ \A i \in DOMAIN ledger : ledger'[i] = ledger[i]
        /\ epoch' = epoch
    <3>1. NewEntry(w).s = worker[w].s
      BY DEF NewEntry
    <3>2. epoch' = epoch
      BY DEF Admit
    <3> QED
      BY <3>1, <3>2, Appended DEF IInv
  <2>2. InMinute(start) \subseteq DOMAIN ledger
    BY DEF InMinute
  <2>3. CASE InMinute(start)' = InMinute(start)
    <3>1. Mine' = Mine
      BY <2>1, <2>2, <2>3 DEF Surviving
    <3> QED
      BY <3>1 DEF IInv, SessionRateRespected
  <2>4. CASE /\ InMinute(start)' = InMinute(start) \cup {n}
             /\ InMinute(start) \subseteq Since(MinuteStart(w))
    <3>1. CASE s # worker[w].s
      <4>1. Mine' = Mine
        BY <2>1, <2>2, <2>4, <3>1 DEF Surviving
      <4> QED
        BY <4>1 DEF IInv, SessionRateRespected
    <3>2. CASE s = worker[w].s
      <4> DEFINE Counted == SessionSince(s, MinuteStart(w))
      <4>1. Mine' \subseteq Counted \cup {n}
        BY <2>1, <2>2, <2>4 DEF Surviving, SessionSince
      <4>2. IsFiniteSet(Counted)
        BY EntriesAreFinite DEF IInv, SessionSince, Since
      <4>3. Cardinality(Counted) < SessionPerMinute
        BY <1>1, <3>2 DEF WithinRates
      <4> HIDE DEF Counted, Mine
      <4> QED
        BY <4>1, <4>2, <4>3, AtMostOneMore, LimitsAreNatural DEF Mine
    <3> QED
      BY <3>1, <3>2
  <2> QED
    BY <2>3, <2>4, MinuteIsCounted
<1> QED
  BY <1>2, <1>3 DEF GlobalRateRespected, SessionRateRespected

\* Midnight before the stamp of an admission is not after any entry of its day.
LEMMA AdmitKeepsDailyLimit ==
  ASSUME IInv, NEW w \in Workers, Admit(w)
  PROVE  DailyLimitRespected'
<1> DEFINE n == Len(ledger) + 1
<1> DEFINE today == DayStart[worker[w].now]
<1>1. /\ DOMAIN ledger' = DOMAIN ledger \cup {n}
      /\ n \notin DOMAIN ledger
      /\ ledger'[n].at = worker[w].now
      /\ \A i \in DOMAIN ledger : ledger'[i] = ledger[i]
  <2>1. NewEntry(w).at = worker[w].now
    BY DEF NewEntry
  <2> QED
    BY <2>1, Appended DEF IInv
<1>2. SUFFICES ASSUME NEW day \in Times
               PROVE  Cardinality(OnDay(day)') <= DailyAttempts
  BY DEF DailyLimitRespected
<1>3. CASE day # today
  <2>1. OnDay(day)' = OnDay(day)
    BY <1>1, <1>3 DEF OnDay
  <2> QED
    BY <2>1 DEF IInv, DailyLimitRespected
<1>4. CASE day = today
  <2>1. Cardinality(Since(today)) < DailyAttempts
    BY DEF Admit, WithinDay, DayBegin
  <2>2. OnDay(day) \subseteq Since(today)
    <3>1. \A i \in DOMAIN ledger : /\ ledger[i].at \in Times
                                   /\ DayStart[ledger[i].at] <= ledger[i].at
      BY LedgerHoldsEntries, CalendarAssumption DEF IInv, Entry
    <3> QED
      BY <1>4, <3>1 DEF OnDay, Since
  <2>3. OnDay(day)' = OnDay(day) \cup {n}
    BY <1>1, <1>4 DEF OnDay
  <2>4. IsFiniteSet(Since(today))
    BY EntriesAreFinite DEF IInv, Since
  <2> HIDE DEF today, n
  <2> QED
    BY <2>1, <2>2, <2>3, <2>4, AtMostOneMore, LimitsAreNatural
<1> QED
  BY <1>3, <1>4

\* The limits depend on which entries there are, on their stamps and sessions
\* and on the chats: steps that leave these alone keep them.
LEMMA OtherStepsKeepLimits ==
  ASSUME IInv, DOMAIN ledger' = DOMAIN ledger,
         \A i \in DOMAIN ledger : /\ ledger'[i].s = ledger[i].s
                                  /\ ledger'[i].e = ledger[i].e
                                  /\ ledger'[i].at = ledger[i].at,
         epoch' = epoch
  PROVE  GlobalRateRespected' /\ SessionRateRespected' /\ DailyLimitRespected'
<1>1. \A start \in Times : InMinute(start)' = InMinute(start)
  BY DEF InMinute
<1>2. \A start \in Times, s \in Sessions :
        {i \in InMinute(start) : ledger[i].s = s /\ Surviving(i)}'
          = {i \in InMinute(start) : ledger[i].s = s /\ Surviving(i)}
  BY <1>1 DEF InMinute, Surviving
<1>3. \A day \in Times : OnDay(day)' = OnDay(day)
  BY DEF OnDay
<1> QED
  BY <1>1, <1>2, <1>3
  DEF IInv, GlobalRateRespected, SessionRateRespected, DailyLimitRespected

\* Clearing a chat only takes entries away from the session's count: an entry
\* of an older chat does not come back.
LEMMA ClearChatKeepsLimits ==
  ASSUME IInv, NEW s \in Sessions, ClearChat(s)
  PROVE  GlobalRateRespected' /\ SessionRateRespected' /\ DailyLimitRespected'
<1>1. ledger' = ledger /\ epoch' = [epoch EXCEPT ![s] = @ + 1]
  BY DEF ClearChat
<1>2. GlobalRateRespected' /\ DailyLimitRespected'
  BY <1>1 DEF IInv, GlobalRateRespected, DailyLimitRespected, InMinute, OnDay
<1>3. \A i \in DOMAIN ledger : Surviving(i)' => Surviving(i)
  <2> SUFFICES ASSUME NEW i \in DOMAIN ledger, Surviving(i)' PROVE Surviving(i)
    OBVIOUS
  <2>1. ledger[i].s \in Sessions /\ ledger[i].e \in Nat
    BY LedgerHoldsEntries DEF IInv
  <2>2. \A r \in Sessions : epoch[r] \in Nat
    BY BoundsAssumption DEF IInv, TypeOK
  <2>3. ledger[i].e <= epoch[ledger[i].s]
    BY DEF IInv, NotAhead
  <2> QED
    BY <1>1, <2>1, <2>2, <2>3 DEF Surviving, IInv, TypeOK
<1>4. ASSUME NEW start \in Times, NEW r \in Sessions
      PROVE  Cardinality({i \in InMinute(start) : ledger[i].s = r
                                                    /\ Surviving(i)}')
               <= SessionPerMinute
  <2> DEFINE Mine == {i \in InMinute(start) : ledger[i].s = r /\ Surviving(i)}
  <2>1. Mine \subseteq DOMAIN ledger /\ Mine' \subseteq Mine
    BY <1>1, <1>3 DEF InMinute
  <2>2. IsFiniteSet(Mine) /\ Cardinality(Mine') <= Cardinality(Mine)
    BY <2>1, FS_Subset, EntriesAreFinite DEF IInv
  <2>3. IsFiniteSet(Mine')
    BY <2>1, <2>2, FS_Subset
  <2>4. Cardinality(Mine) \in Nat /\ Cardinality(Mine') \in Nat
    BY <2>2, <2>3, FS_CardinalityType
  <2>5. Cardinality(Mine) <= SessionPerMinute
    BY DEF IInv, SessionRateRespected
  <2> HIDE DEF Mine
  <2>6. Cardinality(Mine') <= SessionPerMinute
    BY <2>2, <2>4, <2>5, LimitsAreNatural
  <2> QED
    BY <2>6 DEF Mine
<1> QED
  BY <1>2, <1>4 DEF SessionRateRespected

LEMMA InductiveInvariant == Spec => []IInv
<1>1. Init => IInv
  <2> SUFFICES ASSUME Init PROVE IInv
    OBVIOUS
  <2>1. ledger = <<>> /\ DOMAIN ledger = {}
    BY DEF Init
  <2>2. TypeOK /\ NotAhead
    BY <2>1, TimeAssumption, BoundsAssumption
    DEF Init, TypeOK, NotAhead, Times, Idle
  <2>3. /\ \A start \in Times : InMinute(start) = {}
        /\ \A day \in Times : OnDay(day) = {}
    BY <2>1 DEF InMinute, OnDay
  <2>4. \A start \in Times, s \in Sessions :
          {i \in InMinute(start) : ledger[i].s = s /\ Surviving(i)} = {}
    BY <2>3
  <2> QED
    BY <2>2, <2>3, <2>4, FS_EmptySet, LimitsAreNatural
    DEF IInv, GlobalRateRespected, SessionRateRespected, DailyLimitRespected
<1>2. IInv /\ [Next]_vars => IInv'
  <2> SUFFICES ASSUME IInv, [Next]_vars
               PROVE  /\ GlobalRateRespected' /\ SessionRateRespected'
                      /\ DailyLimitRespected'
    BY TypeStep DEF IInv
  <2>1. ASSUME NEW w \in Workers,
               \/ \E s \in Sessions, stage \in Stages : ReadClock(w, s, stage)
               \/ Refuse(w)
        PROVE  ledger' = ledger /\ epoch' = epoch
    BY <2>1 DEF ReadClock, Refuse
  <2>2. ASSUME NEW i \in DOMAIN ledger, NEW status, NEW used,
               Settle(i, status, used)
        PROVE  GlobalRateRespected' /\ SessionRateRespected' /\ DailyLimitRespected'
    <3>1. epoch' = epoch
      BY <2>2 DEF Settle
    <3> QED
      BY <2>2, <3>1, Settled, OtherStepsKeepLimits DEF IInv
  <2>3. CASE Tick \/ UNCHANGED vars
    BY <2>3, OtherStepsKeepLimits DEF Tick, vars
  <2> QED
    BY <2>1, <2>2, <2>3, AdmitKeepsRates, AdmitKeepsDailyLimit,
       ClearChatKeepsLimits, OtherStepsKeepLimits DEF Next
<1> QED
  BY <1>1, <1>2, PTL DEF Spec

\* Types are preserved, and no entry is stamped in the future.
THEOREM TypeCorrect == Spec => []TypeOK
<1>1. IInv => TypeOK
  BY DEF IInv
<1> QED
  BY <1>1, InductiveInvariant, PTL

\* No sliding minute exceeds the global limit, however long a thread waits for
\* the budget lock after reading its clock.
THEOREM GlobalRateSafe == Spec => []GlobalRateRespected
<1>1. IInv => GlobalRateRespected
  BY DEF IInv
<1> QED
  BY <1>1, InductiveInvariant, PTL

\* No sliding minute exceeds the session limit while the chat is not cleared.
THEOREM SessionRateSafe == Spec => []SessionRateRespected
<1>1. IInv => SessionRateRespected
  BY DEF IInv
<1> QED
  BY <1>1, InductiveInvariant, PTL

\* No calendar day exceeds the daily limit, also for entries stamped before
\* midnight and counted after it.
THEOREM DailyLimitSafe == Spec => []DailyLimitRespected
<1>1. IInv => DailyLimitRespected
  BY DEF IInv
<1> QED
  BY <1>1, InductiveInvariant, PTL

\* Together: whatever the order in which concurrent requests stamp and count their
\* attempts, none of the three limits of BudgetLedger is passed.
THEOREM AttemptsSafe == Spec => []AttemptsRespected
<1>1. IInv => AttemptsRespected
  BY DEF IInv, AttemptsRespected
<1> QED
  BY <1>1, InductiveInvariant, PTL

-----------------------------------------------------------------------------
(***************************************************************************)
(* The visits.  A row is stamped before the rows are counted, but counted  *)
(* are all that come after the hour before its stamp, later ones included: *)
(* every hour that the new row is in lies within what was counted.         *)
(***************************************************************************)
\* The tables have their types, and a request names a session there is.
VisitsTyped ==
  /\ time \in Moments
  /\ visits \in Seq(Visit)
  /\ thread \in [Threads -> {Resting} \cup Asking]

LEMMA VisitsConstants ==
  /\ EndOfTime \in Nat
  /\ Hour \in Nat /\ ViewersPerHour \in Nat /\ IdleTTL \in Nat /\ AbsoluteTTL \in Nat
  /\ Moments \subseteq Nat
  BY VisitsAssumption DEF Moments

LEMMA ThreadAsks ==
  ASSUME VisitsTyped, NEW t \in Threads, Busy(t)
  PROVE  /\ thread[t] \in Asking
         /\ thread[t].now \in Moments
         /\ thread[t].job \in {"enter", "login", "reauthenticate"} => thread[t].source \in Sources
         /\ thread[t].job \in {"login", "reauthenticate"} =>
              [thread[t] EXCEPT !.stage = "verify"] \in Asking
              /\ [thread[t] EXCEPT !.stage = "clear"] \in Asking
<1>1. thread[t] \in Asking
  BY DEF VisitsTyped, Busy
<1> QED BY <1>1 DEF Asking

LEMMA NewVisitTyped ==
  ASSUME NEW kind \in Kinds, NEW source \in Sources, NEW now \in Moments
  PROVE  NewVisit(kind, source, now) \in Visit
  BY VisitsConstants DEF NewVisit, Visit

LEMMA NextIdleTyped ==
  ASSUME NEW v \in Visit, NEW now \in Moments
  PROVE  NextIdle(v, now) \in Nat
  BY VisitsConstants DEF NextIdle, Visit

\* What a step does to the rows.
Grown(kind) ==
  \E source \in Sources, now \in Moments :
    /\ visits' = Append(visits, NewVisit(kind, source, now))
    /\ kind = "viewer" => Cardinality(Admitted(source, now - Hour)) < ViewersPerHour

Changed ==
  /\ visits' \in Seq(Visit) /\ Len(visits') = Len(visits)
  /\ \A i \in DOMAIN visits :
       /\ visits'[i].kind = visits[i].kind /\ visits'[i].source = visits[i].source
       /\ visits'[i].created = visits[i].created
       /\ \/ visits'[i] = visits[i]
          \/ visits'[i].over
          \/ \E t \in Threads : Busy(t) /\ Live(visits[i], thread[t].now)

LEMMA RowsSame ==
  ASSUME VisitsTyped, UNCHANGED visits
  PROVE  Changed
  BY DEF Changed, VisitsTyped

LEMMA OneRowChanged ==
  ASSUME VisitsTyped, NEW i, NEW new \in Visit, i \in DOMAIN visits,
         visits' = [visits EXCEPT ![i] = new],
         new.kind = visits[i].kind, new.source = visits[i].source,
         new.created = visits[i].created,
         new.over \/ \E t \in Threads : Busy(t) /\ Live(visits[i], thread[t].now)
  PROVE  Changed
  BY DEF Changed, VisitsTyped

LEMMA TouchChanges ==
  ASSUME VisitsTyped, NEW t \in Threads, Touch(t)
  PROVE  Changed
<1> DEFINE i == thread[t].visit
           now == thread[t].now
<1>1. Busy(t) /\ now \in Moments
  BY ThreadAsks DEF Touch, Does
<1>2. CASE i \in DOMAIN visits /\ Live(visits[i], now)
  <2>1. visits[i] \in Visit
    BY <1>2 DEF VisitsTyped
  <2> DEFINE new == [visits[i] EXCEPT !.idle = NextIdle(visits[i], now)]
  <2>2. NextIdle(visits[i], now) \in Nat
    BY <1>1, <2>1, NextIdleTyped
  <2>3. /\ new \in Visit /\ new.kind = visits[i].kind /\ new.source = visits[i].source
        /\ new.created = visits[i].created
    BY <2>1, <2>2 DEF Visit
  <2>4. visits' = [visits EXCEPT ![i] = new]
    BY <1>2 DEF Touch
  <2> HIDE DEF new, i, now
  <2> QED BY <1>1, <1>2, <2>3, <2>4, OneRowChanged DEF now
<1>3. CASE ~(i \in DOMAIN visits /\ Live(visits[i], now))
  <2>1. UNCHANGED visits
    BY <1>3 DEF Touch, VisitsTyped
  <2> QED BY <2>1, RowsSame
<1> QED BY <1>2, <1>3

LEMMA EndChanges ==
  ASSUME VisitsTyped, NEW t \in Threads, End(t)
  PROVE  Changed
<1> DEFINE i == thread[t].visit
<1>1. CASE i \in DOMAIN visits
  <2>1. visits[i] \in Visit
    BY <1>1 DEF VisitsTyped
  <2> DEFINE new == [visits[i] EXCEPT !.over = TRUE]
  <2>2. /\ new \in Visit /\ new.kind = visits[i].kind /\ new.source = visits[i].source
        /\ new.created = visits[i].created /\ new.over
    BY <2>1 DEF Visit
  <2>3. visits' = [visits EXCEPT ![i] = new]
    BY <1>1 DEF End
  <2> HIDE DEF new, i
  <2> QED BY <1>1, <2>2, <2>3, OneRowChanged
<1>2. CASE i \notin DOMAIN visits
  <2>1. UNCHANGED visits
    BY <1>2 DEF End, VisitsTyped
  <2> QED BY <2>1, RowsSame
<1> QED BY <1>1, <1>2

LEMMA ExpireChanges ==
  ASSUME VisitsTyped, NEW t \in Threads, ExpireAll(t)
  PROVE  Changed
<1> DEFINE new == [i \in DOMAIN visits |->
                     IF visits[i].kind = "viewer" /\ ~Live(visits[i], thread[t].now)
                     THEN [visits[i] EXCEPT !.over = TRUE]
                     ELSE visits[i]]
<1>1. DOMAIN visits = 1..Len(visits) /\ Len(visits) \in Nat
  BY DEF VisitsTyped
<1>2. ASSUME NEW i \in DOMAIN visits
      PROVE  /\ new[i] \in Visit /\ new[i].kind = visits[i].kind
             /\ new[i].source = visits[i].source /\ new[i].created = visits[i].created
             /\ new[i] = visits[i] \/ new[i].over
  <2>1. visits[i] \in Visit
    BY DEF VisitsTyped
  <2> QED BY <2>1 DEF Visit
<1>3. new \in Seq(Visit) /\ Len(new) = Len(visits)
  <2>1. new \in [1..Len(visits) -> Visit]
    BY <1>1, <1>2
  <2> QED BY <2>1, <1>1
<1>4. visits' = new
  BY DEF ExpireAll
<1> HIDE DEF new
<1> QED BY <1>2, <1>3, <1>4 DEF Changed

\* Every step adds a row, or changes some in what is not counted.
LEMMA RowsStep ==
  ASSUME VisitsTyped, [VisitsNext]_visitsVars
  PROVE  Changed \/ Grown("viewer") \/ Grown("operator")
<1>1. ASSUME NEW t \in Threads, Enter(t) PROVE Changed \/ Grown("viewer")
  <2> DEFINE source == thread[t].source
             now == thread[t].now
             counted == Cardinality(Admitted(source, now - Hour))
  <2>1. source \in Sources /\ now \in Moments
    BY <1>1, ThreadAsks DEF Enter, Does
  <2>2. CASE counted >= ViewersPerHour
    BY <1>1, <2>2, RowsSame DEF Enter
  <2>3. CASE ~(counted >= ViewersPerHour)
    <3>1. counted \in Nat
      <4>1. Admitted(source, now - Hour) \subseteq DOMAIN visits
        BY DEF Admitted
      <4>2. IsFiniteSet(DOMAIN visits)
        <5>1. DOMAIN visits = 1..Len(visits) /\ Len(visits) \in Nat
          BY DEF VisitsTyped
        <5> QED BY <5>1, FS_Interval
      <4> QED BY <4>1, <4>2, FS_Subset, FS_CardinalityType
    <3>2. visits' = Append(visits, NewVisit("viewer", source, now))
      BY <1>1, <2>3 DEF Enter
    <3>3. counted < ViewersPerHour
      BY <2>3, <3>1, VisitsConstants
    <3> HIDE DEF source, now
    <3> QED BY <2>1, <3>2, <3>3 DEF Grown
  <2> QED BY <2>2, <2>3
<1>2. ASSUME NEW t \in Threads, Verified(t) PROVE Changed \/ Grown("operator")
  <2>1. thread[t].source \in Sources /\ thread[t].now \in Moments
    BY <1>2, ThreadAsks DEF Verified, Does
  <2>2. CASE thread[t].job = "login"
    BY <1>2, <2>1, <2>2 DEF Verified, Grown
  <2>3. CASE thread[t].job # "login"
    BY <1>2, <2>3, RowsSame DEF Verified
  <2> QED BY <2>2, <2>3
<1>3. ASSUME NEW t \in Threads, Arrive(t) \/ CheckAttempts(t) \/ Fail(t) \/ Clear(t)
      PROVE  Changed
  BY <1>3, RowsSame DEF Arrive, CheckAttempts, Fail, Clear
<1>4. CASE Restart \/ Advance \/ UNCHANGED visitsVars
  BY <1>4, RowsSame DEF Restart, Advance, visitsVars
<1> QED BY <1>1, <1>2, <1>3, <1>4, TouchChanges, EndChanges, ExpireChanges DEF VisitsNext

\* A new row is typed and is the last one; the others stay as they are.
LEMMA GrownRows ==
  ASSUME VisitsTyped, NEW kind \in Kinds, NEW source \in Sources, NEW now \in Moments,
         visits' = Append(visits, NewVisit(kind, source, now))
  PROVE  /\ visits' \in Seq(Visit) /\ Len(visits') = Len(visits) + 1
         /\ Len(visits) \in Nat /\ DOMAIN visits = 1..Len(visits)
         /\ DOMAIN visits' = 1..(Len(visits) + 1)
         /\ \A i \in DOMAIN visits : visits'[i] = visits[i]
         /\ visits'[Len(visits) + 1].kind = kind
         /\ visits'[Len(visits) + 1].source = source
         /\ visits'[Len(visits) + 1].created = now
<1>1. NewVisit(kind, source, now) \in Visit
  BY NewVisitTyped
<1>2. /\ NewVisit(kind, source, now).kind = kind /\ NewVisit(kind, source, now).source = source
      /\ NewVisit(kind, source, now).created = now
  BY DEF NewVisit
<1>3. visits \in Seq(Visit)
  BY DEF VisitsTyped
<1> QED BY <1>1, <1>2, <1>3

LEMMA VisitsTypedStep == VisitsTyped /\ [VisitsNext]_visitsVars => VisitsTyped'
<1> SUFFICES ASSUME VisitsTyped, [VisitsNext]_visitsVars PROVE VisitsTyped'
  OBVIOUS
<1>1. visits' \in Seq(Visit)
  BY RowsStep, GrownRows DEF Changed, Grown, Kinds
<1>2. time' \in Moments
  <2>1. CASE Advance
    BY <2>1, VisitsConstants DEF Advance, VisitsTyped, Moments
  <2>2. CASE ~Advance
    BY <2>2 DEF VisitsNext, visitsVars, VisitsTyped, Arrive, Enter, CheckAttempts, Fail,
       Verified, Clear, Touch, End, ExpireAll, Restart
  <2> QED BY <2>1, <2>2
<1>3. thread' \in [Threads -> {Resting} \cup Asking]
  <2>0. thread \in [Threads -> {Resting} \cup Asking]
    BY DEF VisitsTyped
  <2>1. ASSUME NEW t \in Threads, Rest(t) PROVE thread' \in [Threads -> {Resting} \cup Asking]
    BY <2>0, <2>1 DEF Rest
  <2>2. ASSUME NEW t \in Threads, Arrive(t)
        PROVE  thread' \in [Threads -> {Resting} \cup Asking]
    BY <2>0, <2>2 DEF Arrive
  <2>3. ASSUME NEW t \in Threads, CheckAttempts(t) \/ Verified(t)
        PROVE  thread' \in [Threads -> {Resting} \cup Asking]
    <3>1. Busy(t) /\ thread[t].job \in {"login", "reauthenticate"}
      BY <2>3 DEF CheckAttempts, Verified, Does
    <3>2. /\ [thread[t] EXCEPT !.stage = "verify"] \in Asking
          /\ [thread[t] EXCEPT !.stage = "clear"] \in Asking
      BY <3>1, ThreadAsks
    <3>3. \/ Rest(t)
          \/ thread' = [thread EXCEPT ![t] = [thread[t] EXCEPT !.stage = "verify"]]
          \/ thread' = [thread EXCEPT ![t] = [thread[t] EXCEPT !.stage = "clear"]]
      BY <2>3, <2>0 DEF CheckAttempts, Verified
    <3> QED BY <2>0, <2>1, <3>2, <3>3
  <2>4. ASSUME NEW t \in Threads,
               Enter(t) \/ Fail(t) \/ Clear(t) \/ Touch(t) \/ End(t) \/ ExpireAll(t)
        PROVE  thread' \in [Threads -> {Resting} \cup Asking]
    BY <2>1, <2>4 DEF Enter, Fail, Clear, Touch, End, ExpireAll
  <2>5. CASE Restart \/ Advance \/ UNCHANGED visitsVars
    BY <2>0, <2>5 DEF Restart, Advance, visitsVars
  <2> QED BY <2>2, <2>3, <2>4, <2>5 DEF VisitsNext
<1> QED BY <1>1, <1>2, <1>3 DEF VisitsTyped

LEMMA VisitsTypedInit == VisitsInit => VisitsTyped
  BY VisitsConstants DEF VisitsInit, VisitsTyped, Moments

-----------------------------------------------------------------------------
\* Every hour that the new row is in lies within what was counted.
LEMMA ViewersStep ==
  ASSUME VisitsTyped, ViewersLimited, [VisitsNext]_visitsVars
  PROVE  ViewersLimited'
<1> SUFFICES ASSUME NEW s \in Sources, NEW start \in Moments
             PROVE  Cardinality(ViewersIn(s, start)') <= ViewersPerHour
  BY DEF ViewersLimited
<1>0. /\ Cardinality(ViewersIn(s, start)) <= ViewersPerHour
      /\ start \in Nat /\ start + Hour \in Nat
      /\ \A i \in DOMAIN visits : visits[i].created \in Moments
  <2>1. \A i \in DOMAIN visits : visits[i] \in Visit
    BY DEF VisitsTyped
  <2> QED BY <2>1, VisitsConstants DEF ViewersLimited, Visit
<1>1. CASE Changed
  <2>1. DOMAIN visits' = DOMAIN visits
    BY <1>1 DEF Changed, VisitsTyped
  <2>2. ViewersIn(s, start)' = ViewersIn(s, start)
    BY <1>1, <2>1 DEF ViewersIn, Changed
  <2> QED BY <1>0, <2>2
<1>2. CASE Grown("operator")
  <2>1. PICK source \in Sources, now \in Moments :
          visits' = Append(visits, NewVisit("operator", source, now))
    BY <1>2 DEF Grown
  <2>2. ViewersIn(s, start)' = ViewersIn(s, start)
    <3>1. "operator" \in Kinds /\ "operator" # "viewer"
      BY DEF Kinds
    <3>2. \A i \in DOMAIN visits' : i \in DOMAIN visits \/ i = Len(visits) + 1
      BY <2>1, <3>1, GrownRows
    <3>3. \A i \in DOMAIN visits : i \in DOMAIN visits'
      BY <2>1, <3>1, GrownRows
    <3>4. \A i \in DOMAIN visits : visits'[i] = visits[i]
      BY <2>1, <3>1, GrownRows
    <3>5. visits'[Len(visits) + 1].kind = "operator"
      BY <2>1, <3>1, GrownRows
    <3> QED BY <3>2, <3>3, <3>4, <3>5 DEF ViewersIn
  <2> QED BY <1>0, <2>2
<1>3. CASE Grown("viewer")
  <2>1. PICK source \in Sources, now \in Moments :
          /\ visits' = Append(visits, NewVisit("viewer", source, now))
          /\ Cardinality(Admitted(source, now - Hour)) < ViewersPerHour
    BY <1>3 DEF Grown
  <2>2. "viewer" \in Kinds
    BY DEF Kinds
  <2> DEFINE n == Len(visits) + 1
  <2>3. /\ \A i \in DOMAIN visits' : i \in DOMAIN visits \/ i = n
        /\ \A i \in DOMAIN visits : visits'[i] = visits[i]
        /\ visits'[n].source = source /\ visits'[n].created = now
    BY <2>1, <2>2, GrownRows
  <2>4. now \in Nat /\ Hour \in Nat
    BY VisitsConstants
  <2>5. CASE s = source /\ now \in start..(start + Hour)
    <3>1. ViewersIn(s, start)' \subseteq Admitted(source, now - Hour) \cup {n}
      <4> SUFFICES ASSUME NEW i \in DOMAIN visits', i # n,
                          visits'[i].kind = "viewer", visits'[i].source = s,
                          visits'[i].created \in start..(start + Hour)
                   PROVE  i \in Admitted(source, now - Hour)
        BY DEF ViewersIn
      <4>1. i \in DOMAIN visits /\ visits'[i] = visits[i]
        BY <2>3
      <4>2. visits[i].created >= now - Hour
        BY <1>0, <2>4, <2>5, <4>1, VisitsConstants
      <4> QED BY <2>5, <4>1, <4>2 DEF Admitted
    <3>2. IsFiniteSet(Admitted(source, now - Hour))
      <4>1. DOMAIN visits = 1..Len(visits) /\ Len(visits) \in Nat
        BY DEF VisitsTyped
      <4>2. IsFiniteSet(DOMAIN visits)
        BY <4>1, FS_Interval
      <4>3. Admitted(source, now - Hour) \subseteq DOMAIN visits
        BY DEF Admitted
      <4> QED BY <4>2, <4>3, FS_Subset
    <3> HIDE DEF n
    <3> QED BY <2>1, <3>1, <3>2, VisitsConstants, AtMostOneMore
  <2>6. CASE ~(s = source /\ now \in start..(start + Hour))
    <3>1. ViewersIn(s, start)' \subseteq ViewersIn(s, start)
      BY <2>3, <2>6 DEF ViewersIn
    <3>2. IsFiniteSet(ViewersIn(s, start))
      <4>1. DOMAIN visits = 1..Len(visits) /\ Len(visits) \in Nat
        BY DEF VisitsTyped
      <4>2. IsFiniteSet(DOMAIN visits)
        BY <4>1, FS_Interval
      <4>3. ViewersIn(s, start) \subseteq DOMAIN visits
        BY DEF ViewersIn
      <4> QED BY <4>2, <4>3, FS_Subset
    <3>3. IsFiniteSet(ViewersIn(s, start)')
          /\ Cardinality(ViewersIn(s, start)') <= Cardinality(ViewersIn(s, start))
      BY <3>1, <3>2, FS_Subset
    <3>4. Cardinality(ViewersIn(s, start)') \in Nat /\ Cardinality(ViewersIn(s, start)) \in Nat
      BY <3>2, <3>3, FS_CardinalityType
    <3> QED BY <1>0, <3>3, <3>4, VisitsConstants
  <2> QED BY <2>5, <2>6
<1> QED BY <1>1, <1>2, <1>3, RowsStep

LEMMA ViewersInit == VisitsInit => ViewersLimited
<1> SUFFICES ASSUME VisitsInit, NEW s \in Sources, NEW start \in Moments
             PROVE  Cardinality(ViewersIn(s, start)) <= ViewersPerHour
  BY DEF ViewersLimited
<1>1. ViewersIn(s, start) = {}
  BY DEF VisitsInit, ViewersIn
<1> QED BY <1>1, FS_EmptySet, VisitsConstants

\* DemoSessionService.create (demo_session_service.py:90-141): for any number of
\* threads, restarts and ended sessions, no hour holds more new viewers of a source
\* than source_session_limit_per_hour, although the clock is read before the count.
THEOREM ViewersAreLimited == VisitsSpec => []ViewersLimited
<1>1. VisitsInit => VisitsTyped /\ ViewersLimited
  BY VisitsTypedInit, ViewersInit
<1>2. VisitsTyped /\ ViewersLimited /\ [VisitsNext]_visitsVars
        => (VisitsTyped /\ ViewersLimited)'
  BY VisitsTypedStep, ViewersStep
<1> QED BY <1>1, <1>2, PTL DEF VisitsSpec

\* Resolving, ending and expiring sessions: a session that has run out is not taken
\* up again by any request that came after, whatever time that request goes on with.
THEOREM RunOutStaysOut == VisitsSpec => RunOutIsFinal
<1>1. VisitsTyped /\ [VisitsNext]_visitsVars =>
        \A i \in DOMAIN visits :
          /\ ~Live(visits[i], time)
          /\ \A t \in Threads : Busy(t) => ~Live(visits[i], thread[t].now)
          => ~Live(visits'[i], time)
  <2> SUFFICES ASSUME VisitsTyped, [VisitsNext]_visitsVars, NEW i \in DOMAIN visits,
                      ~Live(visits[i], time),
                      \A t \in Threads : Busy(t) => ~Live(visits[i], thread[t].now)
               PROVE  ~Live(visits'[i], time)
    OBVIOUS
  <2>1. CASE Changed
    BY <2>1 DEF Changed, Live
  <2>2. CASE \E kind \in Kinds : Grown(kind)
    BY <2>2, GrownRows DEF Grown
  <2> QED BY <2>1, <2>2, RowsStep DEF Kinds
<1>2. VisitsSpec => []VisitsTyped
  BY VisitsTypedInit, VisitsTypedStep, PTL DEF VisitsSpec
<1> QED BY <1>1, <1>2, PTL DEF VisitsSpec, RunOutIsFinal

-----------------------------------------------------------------------------
(***************************************************************************)
(* Failed logins in a window.  As long as all of them are remembered, a    *)
(* thread passes the check when there are fewer than the limit, and only   *)
(* the threads at their passwords may still add one each.  Once a request  *)
(* from after the window has forgotten some of them, nobody else arrives   *)
(* in it: those who are there add one each.                                *)
(***************************************************************************)
FailuresTyped ==
  /\ failures \in [Sources -> Seq(Moments)]
  /\ failed \in [Sources -> SUBSET Nat]
  /\ \A s \in Sources : failed[s] \subseteq DOMAIN failures[s]
  /\ \A t \in Threads : Busy(t) => thread[t].now <= time

InWindow(at, start) == start <= at /\ at < start + Window

\* A request whose failure would be one of the source in the window.
Guesses(r, s, start) ==
  /\ r # Resting
  /\ r.job \in {"login", "reauthenticate"} /\ r.stage \in {"check", "verify"}
  /\ r.source = s /\ InWindow(r.now, start)

Guessing(s, start) == {t \in Threads : Guesses(thread[t], s, start)}
AtPassword(s, start) == {t \in Guessing(s, start) : thread[t].stage = "verify"}

Bounded(s, start) ==
  \/ /\ FailuresIn(s, start) \subseteq failed[s]
     /\ Cardinality(FailuresIn(s, start)) + Cardinality(AtPassword(s, start))
          <= MaxFailed + Cardinality(Threads) - 1
  \/ /\ time >= start + Window
     /\ Cardinality(FailuresIn(s, start)) + Cardinality(Guessing(s, start))
          <= MaxFailed + 2 * (Cardinality(Threads) - 1)

FailuresInv ==
  VisitsTyped /\ FailuresTyped /\ \A s \in Sources, start \in Moments : Bounded(s, start)

LEMMA WindowConstants ==
  /\ MaxFailed \in Nat /\ MaxFailed >= 1 /\ Window \in Nat /\ Window >= 1
  /\ Cardinality(Threads) \in Nat /\ Cardinality(Threads) >= 1
<1>1. Cardinality(Threads) \in Nat /\ Cardinality(Threads) # 0
  BY ThreadsAreFinite, FS_CardinalityType, FS_EmptySet
<1> QED BY <1>1, VisitsAssumption

\* Threads are counted.
LEMMA ThreadsCount ==
  ASSUME NEW V, V \subseteq Threads
  PROVE  /\ IsFiniteSet(V) /\ Cardinality(V) \in Nat /\ Cardinality(V) <= Cardinality(Threads)
         /\ \A S : S \subseteq V =>
              Cardinality(S) \in Nat /\ Cardinality(S) <= Cardinality(V)
         /\ \A t \in Threads : t \notin V => Cardinality(V) <= Cardinality(Threads) - 1
<1>1. IsFiniteSet(V) /\ Cardinality(V) \in Nat /\ Cardinality(V) <= Cardinality(Threads)
  BY ThreadsAreFinite, FS_Subset, FS_CardinalityType
<1>2. ASSUME NEW S, S \subseteq V
      PROVE  Cardinality(S) \in Nat /\ Cardinality(S) <= Cardinality(V)
  BY <1>1, <1>2, FS_Subset, FS_CardinalityType
<1>3. ASSUME NEW t \in Threads, t \notin V
      PROVE  Cardinality(V) <= Cardinality(Threads) - 1
  <2>1. IsFiniteSet(Threads \ {t}) /\ Cardinality(Threads \ {t}) = Cardinality(Threads) - 1
    BY <1>3, ThreadsAreFinite, FS_RemoveElement
  <2>2. V \subseteq Threads \ {t}
    BY <1>3
  <2> QED BY <2>1, <2>2, FS_Subset
<1> QED BY <1>1, <1>2, <1>3

LEMMA FailuresCount ==
  ASSUME FailuresTyped, NEW s \in Sources, NEW start
  PROVE  /\ failures[s] \in Seq(Moments) /\ DOMAIN failures[s] = 1..Len(failures[s])
         /\ Len(failures[s]) \in Nat
         /\ IsFiniteSet(FailuresIn(s, start)) /\ Cardinality(FailuresIn(s, start)) \in Nat
         /\ IsFiniteSet(failed[s])
<1>1. failures[s] \in Seq(Moments) /\ DOMAIN failures[s] = 1..Len(failures[s])
      /\ Len(failures[s]) \in Nat
  BY DEF FailuresTyped
<1>2. IsFiniteSet(DOMAIN failures[s])
  BY <1>1, FS_Interval
<1>3. FailuresIn(s, start) \subseteq DOMAIN failures[s] /\ failed[s] \subseteq DOMAIN failures[s]
  BY DEF FailuresIn, FailuresTyped
<1> QED BY <1>1, <1>2, <1>3, FS_Subset, FS_CardinalityType

LEMMA BoundedSuffices ==
  ASSUME FailuresTyped, NEW s \in Sources, NEW start \in Moments, Bounded(s, start)
  PROVE  Cardinality(FailuresIn(s, start)) <= MaxFailed + 2 * (Cardinality(Threads) - 1)
<1>1. AtPassword(s, start) \subseteq Threads /\ Guessing(s, start) \subseteq Threads
  BY DEF AtPassword, Guessing
<1>2. Cardinality(AtPassword(s, start)) \in Nat /\ Cardinality(Guessing(s, start)) \in Nat
  BY <1>1, ThreadsCount
<1>3. Cardinality(FailuresIn(s, start)) \in Nat
  BY FailuresCount
<1> QED BY <1>2, <1>3, WindowConstants DEF Bounded

\* A step after which there is no failure of the source.
LEMMA NoneIsBounded ==
  ASSUME NEW s, NEW start, failures'[s] = <<>>
  PROVE  Bounded(s, start)'
<1>1. FailuresIn(s, start)' = {}
  BY DEF FailuresIn
<1>2. Cardinality({}) = 0
  BY FS_EmptySet
<1>3. AtPassword(s, start)' \subseteq Threads
  BY DEF AtPassword, Guessing
<1>4. Cardinality(AtPassword(s, start)') \in Nat
      /\ Cardinality(AtPassword(s, start)') <= Cardinality(Threads)
  BY <1>3, ThreadsCount
<1> QED BY <1>1, <1>2, <1>4, WindowConstants DEF Bounded

\* A step that leaves the failures of the source alone.
LEMMA StaysBounded ==
  ASSUME VisitsTyped, FailuresTyped, NEW s \in Sources, NEW start \in Moments, Bounded(s, start),
         failures'[s] = failures[s], failed'[s] = failed[s], time' \in Nat, time' >= time,
         AtPassword(s, start)' \subseteq AtPassword(s, start),
         time >= start + Window => Guessing(s, start)' \subseteq Guessing(s, start)
  PROVE  Bounded(s, start)'
<1>1. FailuresIn(s, start)' = FailuresIn(s, start)
  BY DEF FailuresIn
<1>2. AtPassword(s, start) \subseteq Threads /\ Guessing(s, start) \subseteq Threads
  BY DEF AtPassword, Guessing
<1>3. /\ Cardinality(AtPassword(s, start)) \in Nat
      /\ Cardinality(AtPassword(s, start)') \in Nat
      /\ Cardinality(AtPassword(s, start)') <= Cardinality(AtPassword(s, start))
  BY <1>2, ThreadsCount
<1>4. /\ Cardinality(Guessing(s, start)) \in Nat
      /\ time >= start + Window =>
           /\ Cardinality(Guessing(s, start)') \in Nat
           /\ Cardinality(Guessing(s, start)') <= Cardinality(Guessing(s, start))
  BY <1>2, ThreadsCount
<1>5. Cardinality(FailuresIn(s, start)) \in Nat
  BY FailuresCount
<1>6. time \in Nat /\ start \in Nat
  BY VisitsConstants DEF VisitsTyped
<1>7. CASE /\ FailuresIn(s, start) \subseteq failed[s]
           /\ Cardinality(FailuresIn(s, start)) + Cardinality(AtPassword(s, start))
                <= MaxFailed + Cardinality(Threads) - 1
  BY <1>1, <1>3, <1>5, <1>7, WindowConstants DEF Bounded
<1>8. CASE /\ time >= start + Window
           /\ Cardinality(FailuresIn(s, start)) + Cardinality(Guessing(s, start))
                <= MaxFailed + 2 * (Cardinality(Threads) - 1)
  BY <1>1, <1>4, <1>5, <1>6, <1>8, WindowConstants DEF Bounded
<1> QED BY <1>7, <1>8 DEF Bounded

\* Who guesses after one thread has moved.
LEMMA GuessesMove ==
  ASSUME VisitsTyped, NEW t \in Threads, NEW r, thread' = [thread EXCEPT ![t] = r],
         NEW s, NEW start
  PROVE  /\ ~Guesses(r, s, start) => /\ Guessing(s, start)' \subseteq Guessing(s, start) \ {t}
                                     /\ AtPassword(s, start)' \subseteq AtPassword(s, start) \ {t}
         /\ Guessing(s, start)' \subseteq Guessing(s, start) \cup {t}
         /\ r.stage # "verify" => AtPassword(s, start)' \subseteq AtPassword(s, start) \ {t}
<1>1. \A u \in Threads : thread'[u] = IF u = t THEN r ELSE thread[u]
  BY DEF VisitsTyped
<1> QED BY <1>1 DEF Guessing, AtPassword

LEMMA MovesOn ==
  ASSUME VisitsTyped, FailuresTyped, NEW t \in Threads, NEW s \in Sources, NEW start \in Moments,
         Bounded(s, start), NEW r, thread' = [thread EXCEPT ![t] = r],
         ~Guesses(r, s, start), failures'[s] = failures[s], failed'[s] = failed[s],
         UNCHANGED time
  PROVE  Bounded(s, start)'
<1>1. time' \in Nat /\ time' >= time
  BY VisitsConstants DEF VisitsTyped
<1>2. /\ AtPassword(s, start)' \subseteq AtPassword(s, start)
      /\ Guessing(s, start)' \subseteq Guessing(s, start)
  BY GuessesMove
<1> QED BY <1>1, <1>2, StaysBounded

LEMMA RestingGuessesNot == \A s, start : ~Guesses(Resting, s, start)
  BY DEF Guesses

\* A request that arrives after the window is not in it; before, it has no password.
LEMMA ArriveBounded ==
  ASSUME VisitsTyped, FailuresTyped, NEW t \in Threads, NEW s \in Sources, NEW start \in Moments,
         Bounded(s, start), Arrive(t)
  PROVE  Bounded(s, start)'
<1>1. PICK request \in Asking :
        /\ request.now = time
        /\ request.job \in {"login", "reauthenticate"} => request.stage = "check"
        /\ thread' = [thread EXCEPT ![t] = request]
        /\ UNCHANGED <<time, failed, failures>>
  BY DEF Arrive
<1>2. time \in Nat /\ start \in Nat /\ Window \in Nat
  BY VisitsConstants, WindowConstants DEF VisitsTyped
<1>3. CASE time >= start + Window
  <2>1. ~Guesses(request, s, start)
    BY <1>1, <1>2, <1>3 DEF Guesses, InWindow
  <2> QED BY <1>1, <2>1, MovesOn
<1>4. CASE ~(time >= start + Window)
  <2>1. CASE request.job \in {"login", "reauthenticate"}
    <3>1. AtPassword(s, start)' \subseteq AtPassword(s, start)
      BY <1>1, <2>1, GuessesMove
    <3> QED BY <1>1, <1>2, <1>4, <3>1, StaysBounded
  <2>2. CASE request.job \notin {"login", "reauthenticate"}
    <3>1. ~Guesses(request, s, start)
      BY <2>2 DEF Guesses
    <3> QED BY <1>1, <3>1, MovesOn
  <2> QED BY <2>1, <2>2
<1> QED BY <1>3, <1>4

\* The check: it passes below the limit, or forgets what is out of its own window.
LEMMA CheckBounded ==
  ASSUME VisitsTyped, FailuresTyped, NEW t \in Threads, NEW s \in Sources, NEW start \in Moments,
         Bounded(s, start), CheckAttempts(t)
  PROVE  Bounded(s, start)'
<1> DEFINE now == thread[t].now
           source == thread[t].source
           attempts == {n \in failed[source] : failures[source][n] > now - Window}
           on == [thread[t] EXCEPT !.stage = "verify"]
<1>1. /\ Busy(t) /\ thread[t].job \in {"login", "reauthenticate"} /\ thread[t].stage = "check"
      /\ failed' = [failed EXCEPT ![source] = attempts]
      /\ UNCHANGED <<time, failures>>
      /\ IF Cardinality(attempts) >= MaxFailed THEN Rest(t)
         ELSE thread' = [thread EXCEPT ![t] = on]
  BY DEF CheckAttempts, Does
<1>2. source \in Sources /\ now \in Nat /\ now <= time /\ time \in Nat /\ start \in Nat
      /\ Window \in Nat /\ time' \in Nat /\ time' >= time
  <2>1. source \in Sources /\ now \in Moments
    BY <1>1, ThreadAsks
  <2>2. now <= time
    BY <1>1 DEF FailuresTyped
  <2>3. time \in Nat /\ time' = time /\ start \in Nat /\ now \in Nat
    BY <1>1, <2>1, VisitsConstants DEF VisitsTyped
  <2> HIDE DEF now, source
  <2> QED BY <2>1, <2>2, <2>3, WindowConstants
<1>3. on.source = source /\ on.now = now /\ on.stage = "verify"
  BY <1>1, ThreadAsks DEF Asking
<1>4. DOMAIN failed = Sources /\ failures'[s] = failures[s]
  BY <1>1 DEF FailuresTyped
<1>5. CASE s # source
  <2>1. failed'[s] = failed[s]
    BY <1>1, <1>2, <1>4, <1>5
  <2>2. CASE Rest(t)
    BY <1>1, <1>4, <2>1, <2>2, MovesOn, RestingGuessesNot DEF Rest
  <2>3. CASE thread' = [thread EXCEPT ![t] = on]
    <3>1. ~Guesses(on, s, start)
      BY <1>3, <1>5 DEF Guesses
    <3> HIDE DEF on
    <3> QED BY <1>1, <1>4, <2>1, <2>3, <3>1, MovesOn
  <2> QED BY <1>1, <2>2, <2>3
<1>6. CASE s = source
  <2>0. PICK r : r \in {Resting, on} /\ thread' = [thread EXCEPT ![t] = r]
    BY <1>1 DEF Rest
  <2>1. failed'[s] = attempts
    BY <1>1, <1>2, <1>4, <1>6
  <2>2. FailuresIn(s, start)' = FailuresIn(s, start)
    BY <1>4 DEF FailuresIn
  <2>3. /\ AtPassword(s, start) \subseteq Threads /\ Guessing(s, start) \subseteq Threads
        /\ AtPassword(s, start)' \subseteq Threads /\ Guessing(s, start)' \subseteq Threads
    BY DEF AtPassword, Guessing
  <2>4. /\ Cardinality(AtPassword(s, start)) \in Nat /\ Cardinality(Guessing(s, start)) \in Nat
        /\ Cardinality(AtPassword(s, start)') \in Nat
        /\ Cardinality(AtPassword(s, start)') <= Cardinality(Threads)
        /\ Cardinality(Guessing(s, start)') \in Nat
    BY <2>3, ThreadsCount
  <2>5. Cardinality(FailuresIn(s, start)) \in Nat
    BY FailuresCount
  <2>6. CASE now < start + Window /\ FailuresIn(s, start) \subseteq failed[s]
             /\ Cardinality(FailuresIn(s, start)) + Cardinality(AtPassword(s, start))
                  <= MaxFailed + Cardinality(Threads) - 1
    <3>1. FailuresIn(s, start) \subseteq attempts
      <4> SUFFICES ASSUME NEW n \in FailuresIn(s, start)
                   PROVE  failures[s][n] > now - Window
        BY <1>6, <2>6
      <4>1. start <= failures[s][n] /\ failures[s][n] \in Nat
        <5>1. n \in DOMAIN failures[s] /\ start <= failures[s][n]
          BY DEF FailuresIn
        <5>2. failures[s] \in Seq(Moments)
          BY FailuresCount
        <5>3. failures[s][n] \in Moments
          BY <5>1, <5>2
        <5> QED BY <5>1, <5>3, VisitsConstants
      <4> QED BY <1>2, <2>6, <4>1
    <3>2. IsFiniteSet(attempts)
      BY <1>2, FailuresCount, FS_Subset
    <3>3. Cardinality(FailuresIn(s, start)) <= Cardinality(attempts)
          /\ Cardinality(attempts) \in Nat
      BY <3>1, <3>2, FS_Subset, FS_CardinalityType
    <3>4. CASE Cardinality(attempts) >= MaxFailed
      <4>1. AtPassword(s, start)' \subseteq AtPassword(s, start)
        BY <1>1, <3>4, GuessesMove, RestingGuessesNot DEF Rest
      <4>2. Cardinality(AtPassword(s, start)') <= Cardinality(AtPassword(s, start))
        BY <2>3, <4>1, ThreadsCount
      <4> HIDE DEF attempts
      <4> QED BY <2>1, <2>2, <2>4, <2>5, <2>6, <3>1, <4>2, WindowConstants DEF Bounded
    <3>5. CASE ~(Cardinality(attempts) >= MaxFailed)
      <4> HIDE DEF attempts
      <4> QED BY <2>1, <2>2, <2>4, <2>5, <3>1, <3>3, <3>5, WindowConstants DEF Bounded
    <3> QED BY <3>4, <3>5
  <2>7. CASE ~(now < start + Window) /\ FailuresIn(s, start) \subseteq failed[s]
             /\ Cardinality(FailuresIn(s, start)) + Cardinality(AtPassword(s, start))
                  <= MaxFailed + Cardinality(Threads) - 1
    <3>1. ~Guesses(Resting, s, start) /\ ~Guesses(on, s, start)
      BY <1>2, <1>3, <2>7, RestingGuessesNot DEF Guesses, InWindow
    <3>2. Guessing(s, start)' \subseteq Guessing(s, start) \ {t}
      <4>1. ~Guesses(r, s, start)
        BY <2>0, <3>1
      <4> QED BY <2>0, <4>1, GuessesMove
    <3>3. Cardinality(Guessing(s, start)') <= Cardinality(Threads) - 1
      BY <2>3, <3>2, ThreadsCount
    <3>4. time' >= start + Window
      BY <1>1, <1>2, <2>7
    <3> QED BY <2>2, <2>4, <2>5, <2>7, <3>3, <3>4, WindowConstants DEF Bounded
  <2>8. CASE time >= start + Window
             /\ Cardinality(FailuresIn(s, start)) + Cardinality(Guessing(s, start))
                  <= MaxFailed + 2 * (Cardinality(Threads) - 1)
    <3>1. Guessing(s, start)' \subseteq Guessing(s, start)
      <4>1. CASE InWindow(now, start)
        <5>1. t \in Guessing(s, start)
          BY <1>1, <1>6, <4>1 DEF Guessing, Guesses, Busy
        <5> QED BY <2>0, <5>1, GuessesMove
      <4>2. CASE ~InWindow(now, start)
        <5>1. ~Guesses(Resting, s, start) /\ ~Guesses(on, s, start)
          BY <1>3, <4>2, RestingGuessesNot DEF Guesses
        <5>2. ~Guesses(r, s, start)
          BY <2>0, <5>1
        <5> QED BY <2>0, <5>2, GuessesMove
      <4> QED BY <4>1, <4>2
    <3>2. Cardinality(Guessing(s, start)') <= Cardinality(Guessing(s, start))
      BY <2>3, <3>1, ThreadsCount
    <3>3. time' >= start + Window
      BY <1>1, <2>8
    <3> QED BY <2>2, <2>4, <2>5, <2>8, <3>2, <3>3, WindowConstants DEF Bounded
  <2> QED BY <2>6, <2>7, <2>8 DEF Bounded
<1> QED BY <1>5, <1>6

\* A failure is one more, and one thread fewer that may fail.
LEMMA FailBounded ==
  ASSUME VisitsTyped, FailuresTyped, NEW t \in Threads, NEW s \in Sources, NEW start \in Moments,
         Bounded(s, start), Fail(t)
  PROVE  Bounded(s, start)'
<1>0. PICK now, source : now = thread[t].now /\ source = thread[t].source
  OBVIOUS
<1>1. /\ Busy(t) /\ thread[t].job \in {"login", "reauthenticate"} /\ thread[t].stage = "verify"
      /\ failed' = [failed EXCEPT ![source] = failed[source] \cup {Len(failures[source]) + 1}]
      /\ failures' = [failures EXCEPT ![source] = Append(failures[source], now)]
      /\ thread' = [thread EXCEPT ![t] = Resting]
      /\ UNCHANGED time
  BY <1>0 DEF Fail, Does, Rest
<1>2. source \in Sources /\ now \in Moments /\ now \in Nat
  BY <1>0, <1>1, ThreadAsks, VisitsConstants
<1>3. DOMAIN failed = Sources /\ DOMAIN failures = Sources
  BY DEF FailuresTyped
<1>4. /\ Guessing(s, start)' \subseteq Guessing(s, start) \ {t}
      /\ AtPassword(s, start)' \subseteq AtPassword(s, start) \ {t}
  BY <1>1, GuessesMove, RestingGuessesNot
<1>5. CASE s # source
  <2>1. failures'[s] = failures[s] /\ failed'[s] = failed[s]
    BY <1>1, <1>3, <1>5
  <2> QED BY <1>1, <2>1, MovesOn, RestingGuessesNot
<1>6. CASE s = source
  <2> DEFINE n == Len(failures[s]) + 1
  <2>1. failures'[s] = Append(failures[s], now) /\ failed'[s] = failed[s] \cup {n}
    BY <1>1, <1>3, <1>6
  <2>2. /\ DOMAIN failures'[s] = DOMAIN failures[s] \cup {n} /\ n \notin DOMAIN failures[s]
        /\ \A i \in DOMAIN failures[s] : failures'[s][i] = failures[s][i]
        /\ failures'[s][n] = now
    BY <1>2, <2>1, FailuresCount
  <2>3. FailuresIn(s, start)' = IF InWindow(now, start)
                                THEN FailuresIn(s, start) \cup {n} ELSE FailuresIn(s, start)
    BY <2>2 DEF FailuresIn, InWindow
  <2>4. n \notin FailuresIn(s, start)
    BY <2>2 DEF FailuresIn
  <2> HIDE DEF n
  <2>5. /\ IsFiniteSet(FailuresIn(s, start)) /\ Cardinality(FailuresIn(s, start)) \in Nat
    BY FailuresCount
  <2>6. Cardinality(FailuresIn(s, start)') =
          Cardinality(FailuresIn(s, start)) + (IF InWindow(now, start) THEN 1 ELSE 0)
    <3>1. CASE InWindow(now, start)
      BY <2>3, <2>4, <2>5, <3>1, FS_AddElement
    <3>2. CASE ~InWindow(now, start)
      BY <2>3, <2>5, <3>2
    <3> QED BY <3>1, <3>2
  <2>7. /\ AtPassword(s, start) \subseteq Threads /\ Guessing(s, start) \subseteq Threads
    BY DEF AtPassword, Guessing
  <2>8. InWindow(now, start) => t \in Guessing(s, start) /\ t \in AtPassword(s, start)
    BY <1>0, <1>1, <1>6 DEF Guessing, AtPassword, Guesses, Busy
  <2>9. ASSUME NEW V, V \subseteq Threads, NEW W, W \subseteq V \ {t}, InWindow(now, start) => t \in V
        PROVE  /\ Cardinality(V) \in Nat /\ Cardinality(W) \in Nat
               /\ Cardinality(W) + (IF InWindow(now, start) THEN 1 ELSE 0) <= Cardinality(V)
    <3>1. IsFiniteSet(V) /\ Cardinality(V) \in Nat /\ Cardinality(W) \in Nat
          /\ Cardinality(W) <= Cardinality(V)
      <4>1. W \subseteq V
        BY <2>9
      <4> QED BY <2>9, <4>1, ThreadsCount
    <3>2. ASSUME t \in V PROVE Cardinality(W) + 1 <= Cardinality(V)
      <4>1. IsFiniteSet(V \ {t}) /\ Cardinality(V \ {t}) = Cardinality(V) - 1
        BY <3>1, <3>2, FS_RemoveElement
      <4>2. Cardinality(W) <= Cardinality(V \ {t})
        BY <2>9, <4>1, FS_Subset
      <4> QED BY <3>1, <4>1, <4>2
    <3> QED BY <2>9, <3>1, <3>2
  <2>10. /\ Cardinality(AtPassword(s, start)) \in Nat /\ Cardinality(AtPassword(s, start)') \in Nat
         /\ Cardinality(AtPassword(s, start)') + (IF InWindow(now, start) THEN 1 ELSE 0)
              <= Cardinality(AtPassword(s, start))
    BY <1>4, <2>7, <2>8, <2>9
  <2>11. /\ Cardinality(Guessing(s, start)) \in Nat /\ Cardinality(Guessing(s, start)') \in Nat
         /\ Cardinality(Guessing(s, start)') + (IF InWindow(now, start) THEN 1 ELSE 0)
              <= Cardinality(Guessing(s, start))
    BY <1>4, <2>7, <2>8, <2>9
  <2>12. CASE /\ FailuresIn(s, start) \subseteq failed[s]
              /\ Cardinality(FailuresIn(s, start)) + Cardinality(AtPassword(s, start))
                   <= MaxFailed + Cardinality(Threads) - 1
    <3>1. FailuresIn(s, start)' \subseteq failed'[s]
      BY <2>1, <2>3, <2>12
    <3> QED BY <2>5, <2>6, <2>10, <2>12, <3>1, WindowConstants DEF Bounded
  <2>13. CASE /\ time >= start + Window
              /\ Cardinality(FailuresIn(s, start)) + Cardinality(Guessing(s, start))
                   <= MaxFailed + 2 * (Cardinality(Threads) - 1)
    BY <1>1, <2>5, <2>6, <2>11, <2>13, WindowConstants DEF Bounded
  <2> QED BY <2>12, <2>13 DEF Bounded
<1> QED BY <1>5, <1>6

\* Right passwords, other requests, the clock and a restart.
LEMMA OthersBounded ==
  ASSUME VisitsTyped, FailuresTyped, NEW s \in Sources, NEW start \in Moments, Bounded(s, start),
         NEW t \in Threads,
         Enter(t) \/ Touch(t) \/ End(t) \/ ExpireAll(t) \/ Verified(t) \/ Clear(t)
  PROVE  Bounded(s, start)'
<1>1. CASE Enter(t) \/ Touch(t) \/ End(t) \/ ExpireAll(t)
  <2>1. UNCHANGED <<time, failed, failures>> /\ thread' = [thread EXCEPT ![t] = Resting]
    BY <1>1 DEF Enter, Touch, End, ExpireAll, Rest
  <2> QED BY <2>1, MovesOn, RestingGuessesNot
<1>2. CASE Verified(t)
  <2> DEFINE on == [thread[t] EXCEPT !.stage = "clear"]
  <2>1. UNCHANGED <<time, failed, failures>> /\ thread' = [thread EXCEPT ![t] = on]
    BY <1>2 DEF Verified
  <2>2. Busy(t) /\ thread[t].job \in {"login", "reauthenticate"} /\ thread[t].stage = "verify"
    BY <1>2 DEF Verified, Does
  <2>3. on.stage = "clear"
    BY <2>2, ThreadAsks DEF Asking
  <2>4. ~Guesses(on, s, start)
    BY <2>3 DEF Guesses
  <2> HIDE DEF on
  <2> QED BY <2>1, <2>4, MovesOn
<1>3. CASE Clear(t)
  <2>1. /\ failures' = [failures EXCEPT ![thread[t].source] = <<>>]
        /\ failed' = [failed EXCEPT ![thread[t].source] = {}]
        /\ UNCHANGED time /\ thread' = [thread EXCEPT ![t] = Resting]
    BY <1>3 DEF Clear, Rest
  <2>2. DOMAIN failures = Sources /\ DOMAIN failed = Sources
    BY DEF FailuresTyped
  <2>3. CASE s = thread[t].source
    BY <2>1, <2>2, <2>3, NoneIsBounded
  <2>4. CASE s # thread[t].source
    <3>1. failures'[s] = failures[s] /\ failed'[s] = failed[s]
      BY <2>1, <2>2, <2>4
    <3> QED BY <2>1, <3>1, MovesOn, RestingGuessesNot
  <2> QED BY <2>3, <2>4
<1> QED BY <1>1, <1>2, <1>3

LEMMA BoundedStep ==
  ASSUME VisitsTyped, FailuresTyped, NEW s \in Sources, NEW start \in Moments, Bounded(s, start),
         [VisitsNext]_visitsVars
  PROVE  Bounded(s, start)'
<1>1. CASE Restart
  BY <1>1, NoneIsBounded DEF Restart
<1>2. CASE Advance \/ UNCHANGED visitsVars
  <2>1. UNCHANGED <<failed, failures, thread>>
    BY <1>2 DEF Advance, visitsVars
  <2>2. time' \in Nat /\ time' >= time
    BY <1>2, VisitsConstants DEF Advance, visitsVars, VisitsTyped
  <2>3. Guessing(s, start)' = Guessing(s, start) /\ AtPassword(s, start)' = AtPassword(s, start)
    BY <2>1 DEF Guessing, AtPassword
  <2> QED BY <2>1, <2>2, <2>3, StaysBounded
<1> QED BY <1>1, <1>2, ArriveBounded, CheckBounded, FailBounded, OthersBounded DEF VisitsNext

\* What is remembered is among the failures, and no request is from the future.
LEMMA FailuresTypedStep ==
  ASSUME VisitsTyped, FailuresTyped, [VisitsNext]_visitsVars
  PROVE  FailuresTyped'
<1> USE DEF FailuresTyped
<1>1. ASSUME NEW t \in Threads, Arrive(t) PROVE FailuresTyped'
  <2>1. UNCHANGED <<time, failed, failures>>
    BY <1>1 DEF Arrive
  <2>2. PICK request \in Asking : request.now = time /\ thread' = [thread EXCEPT ![t] = request]
    BY <1>1 DEF Arrive
  <2>3. \A u \in Threads : thread'[u] = IF u = t THEN request ELSE thread[u]
    BY <2>2 DEF VisitsTyped
  <2>4. time \in Nat
    BY VisitsConstants DEF VisitsTyped
  <2> QED BY <2>1, <2>2, <2>3, <2>4 DEF Busy
<1>2. ASSUME NEW t \in Threads,
             Rest(t) \/ \E stage : thread' = [thread EXCEPT ![t].stage = stage] /\ Busy(t),
             UNCHANGED time
      PROVE  \A u \in Threads : Busy(u)' => thread'[u].now <= time'
  <2>1. ASSUME NEW u \in Threads, u # t PROVE thread'[u] = thread[u]
    BY <1>2, <2>1 DEF Rest, VisitsTyped
  <2>2. CASE Rest(t)
    BY <1>2, <2>1, <2>2 DEF Rest, Busy, VisitsTyped
  <2>3. CASE \E stage : thread' = [thread EXCEPT ![t].stage = stage] /\ Busy(t)
    <3>1. PICK stage : thread' = [thread EXCEPT ![t].stage = stage]
      BY <2>3
    <3>2. thread'[t] = [thread[t] EXCEPT !.stage = stage]
      BY <3>1 DEF VisitsTyped
    <3>3. thread[t] \in Asking
      BY <2>3, ThreadAsks
    <3>4. thread'[t].now = thread[t].now
      BY <3>2, <3>3 DEF Asking
    <3> QED BY <1>2, <2>1, <2>3, <3>4 DEF Busy
  <2> QED BY <1>2, <2>2, <2>3
<1>3. ASSUME NEW t \in Threads, CheckAttempts(t) PROVE FailuresTyped'
  <2>1. Busy(t) /\ thread[t].source \in Sources
    BY <1>3, ThreadAsks DEF CheckAttempts, Does
  <2>2. PICK attempts : /\ attempts \subseteq failed[thread[t].source]
                        /\ failed' = [failed EXCEPT ![thread[t].source] = attempts]
    BY <1>3 DEF CheckAttempts
  <2>3. UNCHANGED <<time, failures>>
    BY <1>3 DEF CheckAttempts
  <2>4. failed' \in [Sources -> SUBSET Nat] /\ \A s \in Sources : failed'[s] \subseteq failed[s]
    BY <2>1, <2>2
  <2>5. Rest(t) \/ \E stage : thread' = [thread EXCEPT ![t].stage = stage] /\ Busy(t)
    BY <1>3, <2>1 DEF CheckAttempts
  <2> QED BY <1>2, <2>3, <2>4, <2>5
<1>4. ASSUME NEW t \in Threads, Fail(t) PROVE FailuresTyped'
  <2>1. PICK source, now : source = thread[t].source /\ now = thread[t].now
    OBVIOUS
  <2>2. Busy(t) /\ thread[t].job \in {"login", "reauthenticate"}
    BY <1>4 DEF Fail, Does
  <2>3. source \in Sources /\ now \in Moments
    BY <2>1, <2>2, ThreadAsks
  <2>4. /\ failed' = [failed EXCEPT ![source] = failed[source] \cup {Len(failures[source]) + 1}]
        /\ failures' = [failures EXCEPT ![source] = Append(failures[source], now)]
        /\ Rest(t) /\ UNCHANGED time
    BY <1>4, <2>1 DEF Fail
  <2>5. failures[source] \in Seq(Moments) /\ Len(failures[source]) \in Nat
    BY <2>3
  <2>6. /\ Append(failures[source], now) \in Seq(Moments)
        /\ DOMAIN Append(failures[source], now)
             = DOMAIN failures[source] \cup {Len(failures[source]) + 1}
    BY <2>3, <2>5
  <2>7. failures' \in [Sources -> Seq(Moments)] /\ failed' \in [Sources -> SUBSET Nat]
    BY <2>3, <2>4, <2>5, <2>6
  <2>8. ASSUME NEW s \in Sources PROVE failed'[s] \subseteq DOMAIN failures'[s]
    <3>1. CASE s = source
      <4>1. failures'[s] = Append(failures[source], now)
            /\ failed'[s] = failed[source] \cup {Len(failures[source]) + 1}
        BY <2>3, <2>4, <3>1
      <4> QED BY <2>3, <2>6, <4>1
    <3>2. CASE s # source
      <4>1. failures'[s] = failures[s] /\ failed'[s] = failed[s]
        BY <2>4, <3>2
      <4> QED BY <4>1
    <3> QED BY <3>1, <3>2
  <2> QED BY <1>2, <2>4, <2>7, <2>8
<1>5. ASSUME NEW t \in Threads, Clear(t) PROVE FailuresTyped'
  <2>1. PICK source : source = thread[t].source
    OBVIOUS
  <2>2. /\ failures' = [failures EXCEPT ![source] = <<>>]
        /\ failed' = [failed EXCEPT ![source] = {}]
        /\ Rest(t) /\ UNCHANGED time
    BY <1>5, <2>1 DEF Clear
  <2>3. failures' \in [Sources -> Seq(Moments)] /\ failed' \in [Sources -> SUBSET Nat]
    <3>1. << >> \in Seq(Moments) /\ {} \in SUBSET Nat
      OBVIOUS
    <3>2. failures \in [Sources -> Seq(Moments)] /\ failed \in [Sources -> SUBSET Nat]
      OBVIOUS
    <3>3. failures' \in [Sources -> Seq(Moments)]
      BY <2>2, <3>1, <3>2
    <3>4. failed' \in [Sources -> SUBSET Nat]
      BY <2>2, <3>1, <3>2
    <3> QED BY <3>3, <3>4
  <2>4. \A s \in Sources : failed'[s] \subseteq DOMAIN failures'[s]
    BY <2>2
  <2> QED BY <1>2, <2>2, <2>3, <2>4
<1>6. ASSUME NEW t \in Threads,
             Enter(t) \/ Touch(t) \/ End(t) \/ ExpireAll(t) \/ Verified(t)
      PROVE  FailuresTyped'
  <2>1. UNCHANGED <<time, failed, failures>>
    BY <1>6 DEF Enter, Touch, End, ExpireAll, Verified
  <2>2. Rest(t) \/ \E stage : thread' = [thread EXCEPT ![t].stage = stage] /\ Busy(t)
    BY <1>6 DEF Enter, Touch, End, ExpireAll, Verified, Does
  <2> QED BY <1>2, <2>1, <2>2
<1>7. CASE Restart
  BY <1>7 DEF Restart, Busy
<1>8. CASE Advance \/ UNCHANGED visitsVars
  <2>1. UNCHANGED <<failed, failures, thread>>
    BY <1>8 DEF Advance, visitsVars
  <2>2. time' = time \/ time' = time + 1
    BY <1>8 DEF Advance, visitsVars
  <2>3. ASSUME NEW u \in Threads, Busy(u)' PROVE thread'[u].now <= time'
    <3>1. Busy(u) /\ thread'[u] = thread[u]
      BY <2>1, <2>3 DEF Busy
    <3>2. thread[u].now \in Nat /\ time \in Nat
      BY <3>1, ThreadAsks, VisitsConstants DEF VisitsTyped
    <3>3. thread[u].now <= time
      BY <3>1
    <3> QED BY <2>2, <3>1, <3>2, <3>3
  <2> QED BY <2>1, <2>3
<1> QED BY <1>1, <1>3, <1>4, <1>5, <1>6, <1>7, <1>8 DEF VisitsNext

LEMMA FailuresInit == VisitsInit => FailuresInv
<1> SUFFICES ASSUME VisitsInit PROVE FailuresInv
  OBVIOUS
<1>1. VisitsTyped
  BY VisitsTypedInit
<1>2. FailuresTyped
  BY DEF VisitsInit, FailuresTyped, Busy
<1>3. ASSUME NEW s \in Sources, NEW start \in Moments PROVE Bounded(s, start)
  <2>1. FailuresIn(s, start) = {}
    BY DEF VisitsInit, FailuresIn
  <2>2. AtPassword(s, start) = {}
    BY DEF VisitsInit, AtPassword, Guessing, Guesses
  <2> QED BY <2>1, <2>2, FS_EmptySet, WindowConstants DEF Bounded
<1> QED BY <1>1, <1>2, <1>3 DEF FailuresInv

\* _ensure_attempt_allowed, _record_failed_attempt and _clear_failed_attempts
\* (operator_auth_service.py:222-239): although the list is read before a password is
\* verified and written after, and forgotten at the time of whoever reads it, the
\* failures of a source in any window exceed MAX_FAILED_ATTEMPTS by at most two for
\* each other thread, for every number of threads and every window.
THEOREM FailuresAreLimited == VisitsSpec => []FailuresLimited
<1>1. FailuresInv /\ [VisitsNext]_visitsVars => FailuresInv'
  <2> SUFFICES ASSUME FailuresInv, [VisitsNext]_visitsVars PROVE FailuresInv'
    OBVIOUS
  <2>1. VisitsTyped /\ FailuresTyped
    BY DEF FailuresInv
  <2>2. ASSUME NEW s \in Sources, NEW start \in Moments PROVE Bounded(s, start)'
    BY <2>1, BoundedStep DEF FailuresInv
  <2>3. VisitsTyped' /\ FailuresTyped'
    BY <2>1, VisitsTypedStep, FailuresTypedStep
  <2> QED BY <2>2, <2>3 DEF FailuresInv
<1>2. FailuresInv => FailuresLimited
  BY BoundedSuffices DEF FailuresInv, FailuresLimited
<1> QED BY <1>1, <1>2, FailuresInit, PTL DEF VisitsSpec

\* Both limits of a source: new viewers of an hour, failed logins of a window.
THEOREM SourcesAreLimited == VisitsSpec => []SourcesLimited
  BY ViewersAreLimited, FailuresAreLimited, PTL DEF SourcesLimited

-----------------------------------------------------------------------------
(***************************************************************************)
(* The tokens of a month.  What the rows since the start of a month are    *)
(* charged bounds what the month is charged, rows of later months          *)
(* included; a row is charged its reservation until its usage, which is    *)
(* not larger, is known.                                                   *)
(***************************************************************************)
LEMMA ChargesAreNatural ==
  ASSUME TypeOK, NEW i \in DOMAIN ledger
  PROVE  Charge(i) \in Nat
<1>1. ledger[i] \in Entry
  BY DEF TypeOK
<1> QED BY <1>1 DEF Charge, Entry

\* The tokens of one row, alone or added to others.
LEMMA OneRowTokens ==
  ASSUME NEW n, NEW reserved \in Nat
  PROVE  /\ IsFiniteSet({n} \X (1..reserved))
         /\ Cardinality({n} \X (1..reserved)) = reserved
<1>1. IsFiniteSet(1..reserved) /\ Cardinality(1..reserved) = reserved
  BY FS_Interval
<1>2. IsFiniteSet({n}) /\ Cardinality({n}) = 1
  BY FS_Singleton
<1> QED BY <1>1, <1>2, FS_Product

LEMMA OneRowMore ==
  ASSUME NEW S, IsFiniteSet(S), NEW n, NEW reserved \in Nat
  PROVE  /\ IsFiniteSet(S \cup ({n} \X (1..reserved)))
         /\ Cardinality(S \cup ({n} \X (1..reserved))) <= Cardinality(S) + reserved
<1> DEFINE T == {n} \X (1..reserved)
<1>1. IsFiniteSet(T) /\ Cardinality(T) = reserved
  BY OneRowTokens
<1> HIDE DEF T
<1>2. /\ IsFiniteSet(S \cup T)
      /\ Cardinality(S \cup T) = Cardinality(S) + Cardinality(T) - Cardinality(S \cap T)
  BY <1>1, FS_Union
<1>3. Cardinality(S \cap T) \in Nat /\ Cardinality(S) \in Nat
  BY FS_Intersection, FS_CardinalityType
<1> QED BY <1>1, <1>2, <1>3 DEF T

LEMMA TokensAreFinite ==
  ASSUME TypeOK, NEW rows \in SUBSET DOMAIN ledger
  PROVE  /\ IsFiniteSet(TokensOf(rows)) /\ Charged(rows) \in Nat
         /\ \A S \in SUBSET TokensOf(rows) :
              IsFiniteSet(S) /\ Cardinality(S) \in Nat /\ Cardinality(S) <= Charged(rows)
<1>1. IsFiniteSet(rows)
  BY EntriesAreFinite
<1>2. ASSUME NEW i \in rows PROVE IsFiniteSet({i} \X (1..Charge(i)))
  BY ChargesAreNatural, OneRowTokens
<1> DEFINE Parts == {{i} \X (1..Charge(i)) : i \in rows}
<1>3. IsFiniteSet(Parts)
  <2>1. PICK part : part = [i \in rows |-> {i} \X (1..Charge(i))]
    OBVIOUS
  <2>2. part \in Surjection(rows, Parts)
    BY <2>1 DEF Surjection
  <2> HIDE DEF Parts
  <2> QED BY <1>1, <2>2, FS_Surjection
<1>4. \A T \in Parts : IsFiniteSet(T)
  BY <1>2
<1>5. IsFiniteSet(UNION Parts)
  <2> HIDE DEF Parts
  <2> QED BY <1>3, <1>4, FS_UNION
<1>6. IsFiniteSet(TokensOf(rows))
  BY <1>5 DEF TokensOf
<1> HIDE DEF Parts
<1> QED BY <1>6, FS_Subset, FS_CardinalityType DEF Charged

\* A step after which no row is charged more, and no month has more rows.
LEMMA MonthsStay ==
  ASSUME TypeOK, MonthlyTokensRespected, DOMAIN ledger' = DOMAIN ledger,
         \A i \in DOMAIN ledger :
           ledger'[i].at = ledger[i].at /\ Charge(i)' \in Nat /\ Charge(i)' <= Charge(i)
  PROVE  MonthlyTokensRespected'
<1> SUFFICES ASSUME NEW month \in Times
             PROVE  Charged(InMonth(month))' <= MonthlyTokens
  BY DEF MonthlyTokensRespected
<1>1. InMonth(month)' = InMonth(month)
  BY DEF InMonth
<1>2. InMonth(month) \in SUBSET DOMAIN ledger
  BY DEF InMonth
<1>3. \A i \in InMonth(month) : 1..(Charge(i)') \subseteq 1..Charge(i)
  BY <1>2, ChargesAreNatural
<1>4. TokensOf(InMonth(month))' \subseteq TokensOf(InMonth(month))
  BY <1>1, <1>3 DEF TokensOf
<1>5. /\ Charged(InMonth(month)) \in Nat
      /\ Cardinality(TokensOf(InMonth(month))') \in Nat
      /\ Cardinality(TokensOf(InMonth(month))') <= Charged(InMonth(month))
  BY <1>2, <1>4, TokensAreFinite
<1>6. Charged(InMonth(month)) <= MonthlyTokens
  BY DEF MonthlyTokensRespected
<1> QED BY <1>5, <1>6, LimitsAssumption DEF Charged

\* The month of a new row lies in what its thread has counted.
LEMMA AdmitKeepsMonths ==
  ASSUME IInv, MonthlyTokensRespected, NEW w \in Workers, Admit(w)
  PROVE  MonthlyTokensRespected'
<1> SUFFICES ASSUME NEW month \in Times
             PROVE  Charged(InMonth(month))' <= MonthlyTokens
  BY DEF MonthlyTokensRespected
<1>0. PICK n, begin, reserved :
        /\ n = Len(ledger) + 1 /\ begin = MonthStart[worker[w].now]
        /\ reserved = Reservation(worker[w].stage)
  OBVIOUS
<1>1. /\ DOMAIN ledger' = DOMAIN ledger \cup {n} /\ n \notin DOMAIN ledger
      /\ ledger'[n] = NewEntry(w)
      /\ \A i \in DOMAIN ledger : ledger'[i] = ledger[i]
  BY <1>0, Appended DEF IInv
<1>2. worker[w].now \in Times /\ worker[w].stage \in Stages
  BY WaitingWorker DEF Admit, IInv, Waiting
<1>3. reserved \in Nat
  BY <1>0, <1>2, LimitsAreNatural
<1>4. Charge(n)' = reserved /\ ledger'[n].at = worker[w].now
  BY <1>0, <1>1 DEF Charge, NewEntry
<1>5. \A i \in DOMAIN ledger : Charge(i)' = Charge(i)
  BY <1>1 DEF Charge
<1>6. InMonth(month)' = InMonth(month) \cup (IF begin = month THEN {n} ELSE {})
  BY <1>0, <1>1, <1>4 DEF InMonth
<1>7. InMonth(month) \in SUBSET DOMAIN ledger
  BY DEF InMonth
<1>8. MonthlyTokens \in Nat
  BY LimitsAssumption
<1>9. CASE begin = month
  <2>1. InMonth(month) \subseteq Since(begin)
    <3> SUFFICES ASSUME NEW i \in InMonth(month) PROVE ledger[i].at >= begin
      BY <1>7 DEF Since
    <3>1. ledger[i].at \in Times /\ MonthStart[ledger[i].at] = begin
      BY <1>7, <1>9, LedgerHoldsEntries DEF InMonth, IInv, Entry
    <3> QED BY <1>0, <1>2, <3>1, CalendarAssumption, TimeAssumption DEF Times
  <2>2. Since(begin) \in SUBSET DOMAIN ledger
    BY DEF Since
  <2>3. TokensOf(InMonth(month)) \subseteq TokensOf(Since(begin))
    BY <2>1 DEF TokensOf
  <2>4. TokensOf(InMonth(month))' = TokensOf(InMonth(month)) \cup ({n} \X (1..reserved))
    <3>1. \A i \in InMonth(month) : {i} \X (1..(Charge(i)')) = {i} \X (1..Charge(i))
      BY <1>5, <1>7
    <3> QED BY <1>4, <1>6, <1>9, <3>1 DEF TokensOf
  <2>5. /\ IsFiniteSet(TokensOf(InMonth(month))) /\ Charged(InMonth(month)) \in Nat
        /\ Charged(Since(begin)) \in Nat
        /\ Charged(InMonth(month)) <= Charged(Since(begin))
    BY <1>7, <2>2, <2>3, TokensAreFinite DEF IInv, Charged
  <2>6. Charged(InMonth(month))' <= Charged(InMonth(month)) + reserved
    BY <1>3, <2>4, <2>5, OneRowMore DEF Charged
  <2>7. Charged(Since(begin)) + reserved <= MonthlyTokens
    BY <1>0 DEF Admit, WithinMonth
  <2>8. Charged(InMonth(month))' \in Nat
    BY <1>3, <2>4, <2>5, OneRowMore, FS_CardinalityType DEF Charged
  <2> QED BY <1>3, <1>8, <2>5, <2>6, <2>7, <2>8
<1>10. CASE begin # month
  <2>1. InMonth(month)' = InMonth(month)
    BY <1>6, <1>10
  <2>2. \A i \in InMonth(month) : {i} \X (1..(Charge(i)')) = {i} \X (1..Charge(i))
    BY <1>5, <1>7
  <2>3. TokensOf(InMonth(month))' = TokensOf(InMonth(month))
    BY <2>1, <2>2 DEF TokensOf
  <2> QED BY <2>3 DEF Charged, MonthlyTokensRespected
<1> QED BY <1>9, <1>10

\* A usage is not larger than what was reserved, and a failure keeps the reservation.
LEMMA SettleCharges ==
  ASSUME TypeOK, NEW i \in DOMAIN ledger, NEW status \in {"succeeded", "failed"},
         NEW used \in Usages \cup {0}, Settle(i, status, used)
  PROVE  \A j \in DOMAIN ledger : Charge(j)' \in Nat /\ Charge(j)' <= Charge(j)
<1> SUFFICES ASSUME NEW j \in DOMAIN ledger
             PROVE  Charge(j)' \in Nat /\ Charge(j)' <= Charge(j)
  OBVIOUS
<1>1. ledger[i] \in Entry /\ used \in Nat
  <2>1. ledger \in Seq(Entry)
    BY DEF TypeOK
  <2> HIDE DEF Entry
  <2> QED BY <2>1, BoundsAssumption
<1>2. CASE j # i
  <2>1. ledger'[j] = ledger[j]
    BY <1>2 DEF Settle
  <2>2. Charge(j) \in Nat
    BY ChargesAreNatural
  <2> QED BY <2>1, <2>2 DEF Charge
<1>3. CASE j = i
  <2>1. ledger'[i] = [ledger[i] EXCEPT !.status = status, !.used = used]
    BY DEF Settle
  <2>2. /\ ledger'[i].status = status /\ ledger'[i].used = used
        /\ ledger'[i].reserved = ledger[i].reserved
        /\ ledger[i].reserved \in Nat
    BY <1>1, <2>1 DEF Entry
  <2>3. Charge(i) = ledger[i].reserved
    BY DEF Settle, Charge
  <2>4. Charge(i)' = IF status = "succeeded" THEN used ELSE ledger[i].reserved
    BY <2>2 DEF Charge
  <2>5. status = "succeeded" => used <= ledger[i].reserved
    BY DEF Settle, UsageFits
  <2> QED BY <1>1, <1>3, <2>2, <2>3, <2>4, <2>5
<1> QED BY <1>2, <1>3

LEMMA MonthsStep == IInv /\ MonthlyTokensRespected /\ [Next]_vars => MonthlyTokensRespected'
<1> SUFFICES ASSUME IInv, MonthlyTokensRespected, [Next]_vars PROVE MonthlyTokensRespected'
  OBVIOUS
<1>1. CASE UNCHANGED ledger
  <2>1. \A i \in DOMAIN ledger : Charge(i)' = Charge(i)
    BY <1>1 DEF Charge
  <2> QED BY <1>1, <2>1, ChargesAreNatural, MonthsStay DEF IInv
<1>2. ASSUME NEW i \in DOMAIN ledger, NEW status \in {"succeeded", "failed"},
             NEW used \in Usages \cup {0}, Settle(i, status, used)
      PROVE  MonthlyTokensRespected'
  BY <1>2, Settled, SettleCharges, MonthsStay DEF IInv
<1> QED BY <1>1, <1>2, AdmitKeepsMonths DEF Next, vars, ReadClock, Refuse, ClearChat, Tick

\* BudgetLedger (the monthly limit of _begin_attempt): a calendar month is never charged
\* more tokens than monthly_token_limit, whatever stamps the requests waiting for the
\* lock bring along and however late the usage of an attempt becomes known.
THEOREM MonthlyLimitSafe == Spec => []MonthlyTokensRespected
<1>1. Init => MonthlyTokensRespected
  <2> SUFFICES ASSUME Init, NEW month \in Times PROVE Charged(InMonth(month)) <= MonthlyTokens
    BY DEF MonthlyTokensRespected
  <2>1. InMonth(month) = {}
    BY DEF Init, InMonth
  <2>2. TokensOf(InMonth(month)) = {}
    BY <2>1 DEF TokensOf
  <2> QED BY <2>2, FS_EmptySet, LimitsAssumption DEF Charged
<1> QED BY <1>1, MonthsStep, InductiveInvariant, PTL DEF Spec
=============================================================================
