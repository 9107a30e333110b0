-------------------------- MODULE AIChatTurnProofs --------------------------
(***************************************************************************)
(* What the tables say of a turn is true, for every number of sessions,    *)
(* keys, questions, threads and faults.                                    *)
(*                                                                         *)
(* The argument is about who drives a turn.  As long as the chat of a turn *)
(* goes on (Current), its row is owned by at most one request thread, all  *)
(* other threads with the same turn id only look it up, and recovery does  *)
(* nothing but close it.  What a thread knows of its row in each of its    *)
(* steps (DriverFacts) then survives the steps of all others.  Once the    *)
(* chat was cleared or has ended, a late thread still runs, but a viewer's *)
(* row cannot come back and a kept answer is out of its reach.             *)
(***************************************************************************)
EXTENDS AIChatProofs

\* The steps in which a thread acts for a row it reserved.
Driving == WorkerPCs \ {"idle", "recover", "select", "reserve", "lookup"}

\* The chat of t goes on: its session has not ended and was not cleared since.
Current(t) ==
  /\ session[t.s].state # "ended"
  /\ t.s \in DemoSessions => session[t.s].epoch = t.e

Unclear(t) == \E i \in AttemptsOf(t) : ledger[i].status = "outcome_unknown"
Succeeded(t, stage) ==
  \E i \in AttemptFor(t, stage) : ledger[i].status = "succeeded"

\* An attempt nobody recorded a result of; recovery gives it up with its turn.
Pending(i) ==
  ledger[i].status = IF Active(ledger[i].t) THEN "started" ELSE "outcome_unknown"

-----------------------------------------------------------------------------
(***************************************************************************)
(* What the tables say                                                     *)
(***************************************************************************)
\* Only answers of the operator are kept.
KeptRows ==
  \A t \in TurnIds : turn[t].kept =>
    t.s \in OperatorSessions /\ turn[t].status = "answered"

\* The foreign key of the attempts, and their unique index.
AttemptsHaveTurns == \A i \in attempts : Exists(ledger[i].t)
OneAttemptPerStage ==
  \A i, j \in attempts :
    ledger[i].t = ledger[j].t /\ ledger[i].stage = ledger[j].stage => i = j

PresetsSkipPlanning ==
  \A i \in DOMAIN ledger :
    ledger[i].stage = "planning" => ledger[i].t.p \notin Presets

\* What the status of a row says of its tool run, evidence and attempts.
RowFacts(t) ==
  /\ turn[t].status \in {"querying", "answering", "answered"} /\ t.p \notin Presets
       => Succeeded(t, "planning")
  /\ turn[t].status \in {"answering", "answered"} => turn[t].tool = "succeeded"
  /\ turn[t].status = "answered" =>
       /\ turn[t].evidence /\ Succeeded(t, "answering")
       /\ \A i \in AttemptsOf(t) : ledger[i].status = "succeeded"
  /\ turn[t].status \in TerminalStatuses =>
       (turn[t].status = "outcome_unknown" <=> Unclear(t))

RowsBacked == \A t \in TurnIds : Current(t) \/ turn[t].kept => RowFacts(t)

TableFacts ==
  /\ KeptRows /\ DemoRowsAreCurrent
  /\ AttemptsHaveTurns /\ OneAttemptPerStage /\ PresetsSkipPlanning
  /\ PaidCallHappensOnce /\ RowsBacked

-----------------------------------------------------------------------------
(***************************************************************************)
(* What a thread knows                                                     *)
(***************************************************************************)
NothingAsked(x) ==
  x.pc \in {"lookup", "planning"} \/ (x.pc = "begin" /\ x.stage = "planning")

BeforeAnswering(x) ==
  \/ x.pc \in {"lookup", "planning", "to_querying", "rb_querying", "execute",
               "store", "rb_store"}
  \/ x.pc \in InStage /\ x.stage = "planning"

\* The attempt of a thread that waits for the provider, or for its record.
AttemptFacts(x, t) ==
  /\ x.pc = "begin" => AttemptFor(t, x.stage) = {}
  /\ x.pc = "rb_begin" =>
       \A i \in AttemptFor(t, x.stage) : ledger[i].calls = 0 /\ Pending(i)
  /\ x.pc \in {"call", "finish"} =>
       x.att \in AttemptFor(t, x.stage) /\ Pending(x.att)
  /\ x.pc = "rb_finish" =>
       /\ x.att \in AttemptFor(t, x.stage)
       /\ \/ Pending(x.att)
          \/ x.out # "over" /\ ledger[x.att].status = AttemptResult(x.out)

\* Whether the outcome of an attempt is unknown, as long as t is in flight.
OutcomeFacts(x, t) ==
  /\ Active(t) /\ Unclear(t) =>
       \/ x.pc = "rb_finish" /\ x.out = "unknown"
       \/ x.pc = "terminal" /\ x.to = "outcome_unknown"
  /\ Active(t) /\ x.pc = "terminal" /\ x.to = "outcome_unknown" => Unclear(t)

\* What a thread in local state x knows of the row t it owns.
DriverFacts(x, t) ==
  /\ NothingAsked(x) => AttemptsOf(t) = {}
  /\ BeforeAnswering(x) => AttemptFor(t, "answering") = {}
  /\ Active(t) /\ x.pc = "to_querying" /\ t.p \notin Presets => Succeeded(t, "planning")
  /\ Active(t) /\ x.pc = "complete" => Succeeded(t, "answering")
  /\ AttemptFacts(x, t)
  /\ OutcomeFacts(x, t)

Holds(w) == worker[w].pc \in WithAttempt

\* A thread that may own rows: it drives one, or reads back its reservation.
MayOwn(x) == x.pc \in Driving \/ (x.pc = "lookup" /\ x.back = "reserve")

EpochIsPast(w) ==
  worker[w].pc # "idle" /\ worker[w].s \in DemoSessions =>
    worker[w].e <= session[worker[w].s].epoch

OwnsItsTurn(w) ==
  \A t \in TurnIds :
    turn[t].owner = w => Exists(t) /\ Tid(w) = t /\ MayOwn(worker[w])

DrivesItsTurn(w) ==
  worker[w].pc \in Driving /\ Current(Tid(w)) =>
    /\ Exists(Tid(w)) /\ turn[Tid(w)].owner = w
    /\ turn[Tid(w)].binding = worker[w].b

HoldsItsAttempt(w) ==
  /\ Holds(w) => /\ ledger[worker[w].att].t = Tid(w)
                 /\ ledger[worker[w].att].stage = worker[w].stage
  /\ worker[w].pc = "call" /\ Lasting(worker[w].s) =>
       ledger[worker[w].att].calls = 0

RemembersItsChoice(x) ==
  /\ x.pc \in InStage /\ x.stage = "planning" => x.p \notin Presets
  /\ x.pc \in {"finish", "rb_finish"} => x.out \in ProviderOutcomes
  /\ x.pc = "terminal" => x.to # "answered"

KnowsItsTurn(w) ==
  \A t \in TurnIds :
    turn[t].owner = w /\ Current(t) => DriverFacts(worker[w], t)

ThreadFacts(w) ==
  /\ EpochIsPast(w) /\ OwnsItsTurn(w) /\ DrivesItsTurn(w)
  /\ HoldsItsAttempt(w) /\ RemembersItsChoice(worker[w]) /\ KnowsItsTurn(w)

HeldOnce ==
  \A w, v \in Workers :
    /\ Holds(w) /\ Holds(v) /\ Lasting(worker[w].s)
    /\ worker[w].att = worker[v].att
    => w = v

\* The inductive invariant, on top of IInv.
TInv == TableFacts /\ HeldOnce /\ \A w \in Workers : ThreadFacts(w)

-----------------------------------------------------------------------------
(***************************************************************************)
(* Rows a step leaves alone, and rows it recovers                          *)
(***************************************************************************)
\* The entries of t's attempts are those of before.
SameEntries(t) ==
  /\ AttemptsOf(t)' = AttemptsOf(t)
  /\ \A i \in AttemptsOf(t) : /\ ledger'[i].t = ledger[i].t
                              /\ ledger'[i].stage = ledger[i].stage
                              /\ ledger'[i].calls = ledger[i].calls

Quiet(t) ==
  /\ turn'[t].status = turn[t].status /\ turn'[t].tool = turn[t].tool
  /\ turn'[t].evidence = turn[t].evidence
  /\ SameEntries(t)
  /\ \A i \in AttemptsOf(t) : ledger'[i].status = ledger[i].status

Recovered(t) ==
  /\ Active(t) /\ turn'[t].status = RecoveredStatus(t)
  /\ SameEntries(t)
  /\ \A i \in AttemptsOf(t) :
       ledger'[i].status = IF ledger[i].status = "started" THEN "outcome_unknown"
                                                           ELSE ledger[i].status

LEMMA QuietView ==
  ASSUME NEW t \in TurnIds, Quiet(t)
  PROVE  /\ Active(t)' <=> Active(t)
         /\ Unclear(t)' <=> Unclear(t)
         /\ \A g : /\ AttemptFor(t, g)' = AttemptFor(t, g)
                   /\ Succeeded(t, g)' <=> Succeeded(t, g)
         /\ \A i \in AttemptsOf(t) : Pending(i)' <=> Pending(i)
<1>1. Active(t)' <=> Active(t)
  BY DEF Quiet, Active
<1>2. Unclear(t)' <=> Unclear(t)
  BY DEF Quiet, SameEntries, Unclear
<1>3. ASSUME NEW g
      PROVE  /\ AttemptFor(t, g)' = AttemptFor(t, g)
             /\ Succeeded(t, g)' <=> Succeeded(t, g)
  <2>1. AttemptFor(t, g)' = AttemptFor(t, g)
    BY DEF Quiet, SameEntries, AttemptFor
  <2>2. AttemptFor(t, g) \subseteq AttemptsOf(t)
    BY DEF AttemptFor
  <2> QED
    BY <2>1, <2>2 DEF Quiet, Succeeded
<1>4. ASSUME NEW i \in AttemptsOf(t)
      PROVE  Pending(i)' <=> Pending(i)
  <2>1. ledger[i].t = t /\ ledger'[i].t = t /\ ledger'[i].status = ledger[i].status
    BY DEF Quiet, SameEntries, AttemptsOf
  <2> QED
    BY <1>1, <2>1 DEF Pending
<1> QED
  BY <1>1, <1>2, <1>3, <1>4

LEMMA QuietKeepsRowFacts ==
  ASSUME NEW t \in TurnIds, Quiet(t), RowFacts(t)
  PROVE  RowFacts(t)'
BY QuietView DEF Quiet, SameEntries, RowFacts

LEMMA QuietKeepsDriverFacts ==
  ASSUME NEW t \in TurnIds, Quiet(t), NEW x, DriverFacts(x, t)
  PROVE  DriverFacts(x, t)'
<1>1. AttemptsOf(t)' = AttemptsOf(t)
  BY DEF Quiet, SameEntries
<1>2. AttemptFacts(x, t)'
  <2>1. \A g : \A i \in AttemptFor(t, g) :
          /\ i \in AttemptsOf(t)
          /\ ledger'[i].calls = ledger[i].calls
          /\ ledger'[i].status = ledger[i].status
    BY DEF AttemptFor, Quiet, SameEntries
  <2> QED
    BY <2>1, QuietView DEF DriverFacts, AttemptFacts
<1>3. OutcomeFacts(x, t)'
  BY QuietView DEF DriverFacts, OutcomeFacts
<1> QED
  BY <1>1, <1>2, <1>3, QuietView DEF DriverFacts

\* Recovery closes the row, and gives up what was started.
LEMMA RecoveredView ==
  ASSUME NEW t \in TurnIds, Recovered(t)
  PROVE  /\ ~Active(t)' /\ turn'[t].status \in {"failed", "outcome_unknown"}
         /\ Unclear(t)' <=> turn'[t].status = "outcome_unknown"
         /\ \A g : AttemptFor(t, g)' = AttemptFor(t, g)
         /\ \A i \in AttemptsOf(t) : Pending(i) => Pending(i)'
<1>1. turn'[t].status \in {"failed", "outcome_unknown"}
  BY DEF Recovered, RecoveredStatus
<1>2. ~Active(t)'
  BY <1>1 DEF Active, ActiveStatuses
<1>3. Unclear(t)' <=> turn'[t].status = "outcome_unknown"
  BY DEF Recovered, SameEntries, RecoveredStatus, Unclear
<1>4. \A g : AttemptFor(t, g)' = AttemptFor(t, g)
  BY DEF Recovered, SameEntries, AttemptFor
<1>5. ASSUME NEW i \in AttemptsOf(t), Pending(i)
      PROVE  Pending(i)'
  <2>1. ledger[i].t = t /\ ledger'[i].t = t
    BY DEF Recovered, SameEntries, AttemptsOf
  <2>2. ledger[i].status = "started" /\ ledger'[i].status = "outcome_unknown"
    BY <1>5, <2>1 DEF Recovered, Pending
  <2> QED
    BY <1>2, <2>1, <2>2 DEF Pending
<1> QED
  BY <1>1, <1>2, <1>3, <1>4, <1>5

LEMMA RecoveryKeepsRowFacts ==
  ASSUME NEW t \in TurnIds, Recovered(t)
  PROVE  RowFacts(t)'
BY RecoveredView DEF RowFacts

LEMMA RecoveryKeepsDriverFacts ==
  ASSUME NEW t \in TurnIds, Recovered(t), NEW x, DriverFacts(x, t)
  PROVE  DriverFacts(x, t)'
<1>1. AttemptsOf(t)' = AttemptsOf(t)
  BY DEF Recovered, SameEntries
<1>2. AttemptFacts(x, t)'
  <2>1. \A g : \A i \in AttemptFor(t, g) :
          i \in AttemptsOf(t) /\ ledger'[i].calls = ledger[i].calls
    BY DEF AttemptFor, Recovered, SameEntries
  <2>2. ASSUME NEW i \in AttemptsOf(t), ledger[i].status = AttemptResult(x.out)
        PROVE  ledger'[i].status = AttemptResult(x.out)
    BY <2>2 DEF Recovered, AttemptResult
  <2> QED
    BY <2>1, <2>2, RecoveredView DEF DriverFacts, AttemptFacts
<1>3. OutcomeFacts(x, t)'
  BY RecoveredView DEF OutcomeFacts
<1> QED
  BY <1>1, <1>2, <1>3, RecoveredView DEF DriverFacts

-----------------------------------------------------------------------------
(***************************************************************************)
(* What the others keep                                                    *)
(***************************************************************************)
\* Sessions end once, and a chat is cleared once per epoch.
SessionsMoveOn ==
  \A s \in Sessions :
    /\ session[s].state = "ended" => session'[s].state = "ended"
    /\ session'[s].epoch \in Nat /\ session'[s].epoch >= session[s].epoch

LEMMA SessionsStay ==
  ASSUME IInv, UNCHANGED session
  PROVE  SessionsMoveOn
<1>1. \A s \in Sessions : session[s].epoch \in Nat
  BY BoundsAreNatural DEF IInv, TablesTyped
<1> QED
  BY <1>1 DEF SessionsMoveOn

LedgerKept ==
  \A i \in DOMAIN ledger : /\ i \in (DOMAIN ledger)'
                           /\ ledger'[i].t = ledger[i].t
                           /\ ledger'[i].stage = ledger[i].stage

\* A chat that goes on after a step went on before, for turns of the past.
LEMMA CurrentBefore ==
  ASSUME IInv, SessionsMoveOn, NEW t \in TurnIds,
         t.s \in DemoSessions => t.e <= session[t.s].epoch, Current(t)'
  PROVE  Current(t)
<1>1. t.s \in Sessions /\ t.e \in Nat
  BY BoundsAreNatural DEF TurnIds
<1>2. session[t.s].epoch \in Nat /\ session'[t.s].epoch >= session[t.s].epoch
  BY <1>1, BoundsAreNatural DEF IInv, TablesTyped, SessionsMoveOn
<1>3. session[t.s].state # "ended"
  BY <1>1 DEF Current, SessionsMoveOn
<1>4. ASSUME t.s \in DemoSessions PROVE session[t.s].epoch = t.e
  <2>1. session'[t.s].epoch = t.e /\ t.e <= session[t.s].epoch
    BY <1>4 DEF Current
  <2> QED
    BY <1>1, <1>2, <2>1
<1> QED
  BY <1>3, <1>4 DEF Current

\* The turn of a request, and what EpochIsPast says of it.
LEMMA RequestIsPast ==
  ASSUME IInv, NEW v \in Workers, worker[v].pc # "idle", EpochIsPast(v)
  PROVE  /\ Tid(v) \in TurnIds /\ Tid(v).s = worker[v].s
         /\ Tid(v).s \in DemoSessions => Tid(v).e <= session[Tid(v).s].epoch
<1>1. Tid(v) \in TurnIds
  BY RequestHasTurnId
<1> QED
  BY <1>1 DEF Tid, EpochIsPast

\* A thread keeps what it knows when the others leave its row, and the entry it
\* holds, alone: they may recover the row.
LEMMA ThreadKeepsFacts ==
  ASSUME IInv, TInv, NEW v \in Workers, worker'[v] = worker[v],
         SessionsMoveOn, LedgerKept,
         worker[v].pc = "call" /\ Lasting(worker[v].s) =>
           ledger'[worker[v].att].calls = ledger[worker[v].att].calls,
         \A t \in TurnIds : turn'[t].owner = v =>
           turn[t].owner = v /\ (Exists(t) => Exists(t)'),
         \A t \in TurnIds : turn[t].owner = v /\ Current(t)' =>
           /\ turn'[t].owner = v /\ turn'[t].binding = turn[t].binding
           /\ Exists(t) => Exists(t)'
           /\ Quiet(t) \/ Recovered(t)
  PROVE  ThreadFacts(v)'
<1>1. ThreadFacts(v) /\ Informed(worker[v])
  BY DEF TInv, IInv, WorkersTyped
<1>2. Tid(v)' = Tid(v)
  BY DEF Tid
<1>3. ASSUME worker[v].pc # "idle"
      PROVE  /\ worker[v].s \in Sessions /\ worker[v].e \in Nat
             /\ Tid(v) \in TurnIds /\ Tid(v).s = worker[v].s
             /\ Current(Tid(v))' => Current(Tid(v))
  <2>1. worker[v].s \in Sessions /\ worker[v].e \in Nat
    BY <1>1, <1>3, BoundsAreNatural DEF Informed, WorkerState
  <2> QED
    BY <1>1, <1>2, <1>3, <2>1, RequestIsPast, CurrentBefore DEF ThreadFacts
<1>4. EpochIsPast(v)'
  <2>1. ASSUME worker[v].pc # "idle", worker[v].s \in DemoSessions
        PROVE  worker[v].e <= session'[worker[v].s].epoch
    <3>1. worker[v].e <= session[worker[v].s].epoch
      BY <1>1, <2>1 DEF ThreadFacts, EpochIsPast
    <3>2. /\ session'[worker[v].s].epoch \in Nat
          /\ session'[worker[v].s].epoch >= session[worker[v].s].epoch
      BY <1>3, <2>1 DEF SessionsMoveOn
    <3>3. session[worker[v].s].epoch \in Nat
      BY <1>3, <2>1, BoundsAreNatural DEF IInv, TablesTyped
    <3> QED
      BY <1>3, <2>1, <3>1, <3>2, <3>3
  <2> QED
    BY <2>1 DEF EpochIsPast
<1>5. OwnsItsTurn(v)'
  BY <1>1, <1>2 DEF ThreadFacts, OwnsItsTurn
<1>6. DrivesItsTurn(v)'
  BY <1>1, <1>2, <1>3 DEF ThreadFacts, DrivesItsTurn, Driving
<1>7. HoldsItsAttempt(v)'
  <2>1. Holds(v)' <=> Holds(v)
    BY DEF Holds
  <2>2. Holds(v) => worker[v].att \in DOMAIN ledger
    BY <1>1 DEF Holds, Informed
  <2>3. worker[v].pc = "call" /\ Lasting(worker[v].s)' => Lasting(worker[v].s)
    BY <1>3 DEF Lasting, SessionsMoveOn
  <2> QED
    BY <1>1, <1>2, <2>1, <2>2, <2>3
    DEF ThreadFacts, HoldsItsAttempt, LedgerKept, Holds, WithAttempt
<1>8. RemembersItsChoice(worker[v])'
  BY <1>1 DEF ThreadFacts, RemembersItsChoice
<1>9. KnowsItsTurn(v)'
  <2>1. ASSUME NEW t \in TurnIds, turn'[t].owner = v, Current(t)'
        PROVE  DriverFacts(worker[v], t)'
    <3>1. turn[t].owner = v /\ (Quiet(t) \/ Recovered(t))
      BY <2>1
    <3>2. t = Tid(v) /\ worker[v].pc # "idle"
      BY <1>1, <3>1 DEF ThreadFacts, OwnsItsTurn, MayOwn, Driving
    <3>3. DriverFacts(worker[v], t)
      BY <1>1, <1>2, <1>3, <2>1, <3>1, <3>2 DEF ThreadFacts, KnowsItsTurn
    <3> QED
      BY <3>1, <3>3, QuietKeepsDriverFacts, RecoveryKeepsDriverFacts
  <2> QED
    BY <2>1 DEF KnowsItsTurn
<1> QED
  BY <1>4, <1>5, <1>6, <1>7, <1>8, <1>9 DEF ThreadFacts

-----------------------------------------------------------------------------
(***************************************************************************)
(* Frames: what is left to show for a step                                 *)
(***************************************************************************)
LEMMA EntriesTyped ==
  ASSUME IInv, NEW i \in DOMAIN ledger
  PROVE  ledger[i] \in LedgerRow
<1>1. ledger \in Seq(LedgerRow)
  BY DEF IInv, TablesTyped
<1> QED
  BY <1>1

\* Rows stay where they are, and so do the entries of the ledger.
LEMMA RowsInPlace ==
  ASSUME IInv, TInv, UNCHANGED <<session, attempts>>,
         LedgerKept, (DOMAIN ledger)' = DOMAIN ledger,
         \A i \in DOMAIN ledger : ledger'[i].calls = ledger[i].calls,
         \A t \in TurnIds :
           /\ Exists(t)' <=> Exists(t)
           /\ turn'[t].kept = turn[t].kept
           /\ turn[t].status = "answered" => turn'[t].status = "answered",
         \A t \in TurnIds : (Current(t) \/ turn[t].kept) /\ RowFacts(t)
                              => RowFacts(t)'
  PROVE  TableFacts'
<1>1. TableFacts
  BY DEF TInv
<1>2. attempts \subseteq DOMAIN ledger /\ \A i \in attempts : ledger[i].t \in TurnIds
  BY EntriesTyped DEF IInv, TablesTyped, LedgerRow
<1>3. KeptRows' /\ DemoRowsAreCurrent'
  BY <1>1 DEF TableFacts, KeptRows, DemoRowsAreCurrent
<1>4. AttemptsHaveTurns' /\ OneAttemptPerStage'
  BY <1>1, <1>2
  DEF TableFacts, AttemptsHaveTurns, OneAttemptPerStage, LedgerKept
<1>5. PresetsSkipPlanning' /\ PaidCallHappensOnce'
  BY <1>1
  DEF TableFacts, PresetsSkipPlanning, PaidCallHappensOnce, LedgerKept, Lasting
<1>6. RowsBacked'
  BY <1>1 DEF TableFacts, RowsBacked, Current
<1> QED
  BY <1>3, <1>4, <1>5, <1>6 DEF TableFacts

\* No row changes more than its lease and its owner.
SameRow(t) ==
  /\ turn'[t].status = turn[t].status /\ turn'[t].tool = turn[t].tool
  /\ turn'[t].evidence = turn[t].evidence /\ turn'[t].kept = turn[t].kept
  /\ turn'[t].binding = turn[t].binding

LEMMA SameRowIsQuiet ==
  ASSUME NEW t \in TurnIds, SameRow(t), UNCHANGED <<attempts, ledger>>
  PROVE  Quiet(t)
BY DEF SameRow, Quiet, SameEntries, AttemptsOf

LEMMA TablesStay ==
  ASSUME IInv, TInv, UNCHANGED <<session, attempts, ledger>>,
         \A t \in TurnIds : SameRow(t)
  PROVE  TableFacts'
<1>1. LedgerKept
  BY DEF LedgerKept
<1>2. \A t \in TurnIds : RowFacts(t) => RowFacts(t)'
  BY SameRowIsQuiet, QuietKeepsRowFacts
<1> QED
  BY <1>1, <1>2, RowsInPlace DEF SameRow, Exists

\* A step of thread w, which may close rows of others only by recovery.
OthersRowsKept(w) ==
  \A t \in TurnIds :
    /\ \A v \in Workers \ {w} : turn'[t].owner = v <=> turn[t].owner = v
    /\ Exists(t) => Exists(t)'
    /\ turn[t].owner \in Workers \ {w} /\ Current(t) =>
         /\ turn'[t].binding = turn[t].binding
         /\ Quiet(t) \/ Recovered(t)

LEMMA ThreadStep ==
  ASSUME IInv, TInv, NEW w \in Workers,
         worker' = [worker EXCEPT ![w] = worker'[w]],
         UNCHANGED session, LedgerKept, OthersRowsKept(w),
         \A i \in DOMAIN ledger :
           \/ ledger'[i].calls = ledger[i].calls
           \/ worker[w].pc = "call" /\ i = worker[w].att,
         Holds(w)' =>
           \/ /\ Holds(w) /\ worker'[w].att = worker[w].att
              /\ worker'[w].s = worker[w].s
           \/ \A v \in Workers \ {w} :
                Holds(v) /\ (Lasting(worker[v].s) \/ Lasting(worker'[w].s))
                  => worker[v].att # worker'[w].att,
         TableFacts', ThreadFacts(w)'
  PROVE  TInv'
<1>1. \A v \in Workers \ {w} : worker'[v] = worker[v]
  BY DEF IInv, WorkersTyped
<1>2. \A g : Lasting(g)' <=> Lasting(g)
  BY DEF Lasting
<1>3. HeldOnce'
  BY <1>1, <1>2 DEF TInv, HeldOnce, Holds
<1>4. ASSUME NEW v \in Workers \ {w}
      PROVE  ThreadFacts(v)'
  <2>1. worker[v].pc = "call" /\ Lasting(worker[v].s) =>
          ledger'[worker[v].att].calls = ledger[worker[v].att].calls
    <3>1. ASSUME worker[v].pc = "call", Lasting(worker[v].s),
                 worker[w].pc = "call", worker[v].att = worker[w].att
          PROVE  FALSE
      BY <3>1 DEF TInv, HeldOnce, Holds, WithAttempt
    <3>2. worker[v].pc = "call" => worker[v].att \in DOMAIN ledger
      BY DEF IInv, WorkersTyped, Informed, WithAttempt
    <3> QED
      BY <3>1, <3>2
  <2>2. \A t \in TurnIds : Current(t)' <=> Current(t)
    BY DEF Current
  <2>3. SessionsMoveOn
    BY SessionsStay
  <2>4. \A t \in TurnIds : /\ turn'[t].owner = v <=> turn[t].owner = v
                           /\ Exists(t) => Exists(t)'
    BY DEF OthersRowsKept
  <2>5. ASSUME NEW t \in TurnIds, turn[t].owner = v, Current(t)'
        PROVE  /\ turn'[t].owner = v /\ turn'[t].binding = turn[t].binding
               /\ Exists(t) => Exists(t)'
               /\ Quiet(t) \/ Recovered(t)
    BY <2>2, <2>4, <2>5 DEF OthersRowsKept
  <2>6. worker'[v] = worker[v]
    BY <1>1
  <2> QED
    BY <2>1, <2>3, <2>4, <2>5, <2>6, ThreadKeepsFacts
<1> QED
  BY <1>3, <1>4 DEF TInv

\* Steps of a thread that change no table, or only the owner of its rows.
OwnersOfOthersStay(w) ==
  \A t \in TurnIds : \A v \in Workers \ {w} :
    turn'[t].owner = v <=> turn[t].owner = v

LEMMA QuietThreadStep ==
  ASSUME IInv, TInv, NEW w \in Workers,
         worker' = [worker EXCEPT ![w] = worker'[w]],
         UNCHANGED <<session, attempts, ledger>>,
         \A t \in TurnIds : SameRow(t), OwnersOfOthersStay(w),
         Holds(w)' =>
           \/ /\ Holds(w) /\ worker'[w].att = worker[w].att
              /\ worker'[w].s = worker[w].s
           \/ \A v \in Workers \ {w} :
                Holds(v) /\ (Lasting(worker[v].s) \/ Lasting(worker'[w].s))
                  => worker[v].att # worker'[w].att,
         ThreadFacts(w)'
  PROVE  TInv'
<1>1. TableFacts'
  BY TablesStay
<1>2. \A t \in TurnIds : Quiet(t)
  BY SameRowIsQuiet
<1>3. OthersRowsKept(w)
  BY <1>2 DEF OthersRowsKept, OwnersOfOthersStay, SameRow, Exists
<1>4. LedgerKept
  BY DEF LedgerKept
<1> QED
  BY <1>1, <1>3, <1>4, ThreadStep

\* A thread outside the steps of a driver knows only its epoch.
LEMMA BystanderFacts ==
  ASSUME NEW w \in Workers, worker'[w].pc \notin Driving,
         worker'[w].pc \in WorkerPCs,
         \A t \in TurnIds : turn'[t].owner # w, EpochIsPast(w)'
  PROVE  ThreadFacts(w)'
BY DEF ThreadFacts, OwnsItsTurn, DrivesItsTurn, HoldsItsAttempt, KnowsItsTurn,
       RemembersItsChoice, Holds, Driving, InStage, WithAttempt, WorkerPCs

LEMMA BystandersOwnNothing ==
  ASSUME TInv, NEW w \in Workers, ~MayOwn(worker[w])
  PROVE  \A t \in TurnIds : turn[t].owner # w
BY DEF TInv, ThreadFacts, OwnsItsTurn

\* Leaving gives up the rows of the thread and nothing else.
LEMMA ReleasedRows ==
  ASSUME NEW w \in Workers, NEW rows \in [TurnIds -> TurnRow], NEW t \in TurnIds
  PROVE  /\ Released(w, rows)[t].owner # w
         /\ \A v \in Workers \ {w} :
              Released(w, rows)[t].owner = v <=> rows[t].owner = v
         /\ Released(w, rows)[t].status = rows[t].status
         /\ Released(w, rows)[t].tool = rows[t].tool
         /\ Released(w, rows)[t].evidence = rows[t].evidence
         /\ Released(w, rows)[t].kept = rows[t].kept
         /\ Released(w, rows)[t].binding = rows[t].binding
BY NoWorkerIsNone DEF Released, TurnRow

LEMMA IdleFacts ==
  ASSUME IInv, NEW w \in Workers, Finish(w), \A t \in TurnIds : turn'[t].owner # w
  PROVE  /\ worker'[w] = IdleWorker
         /\ worker' = [worker EXCEPT ![w] = worker'[w]]
         /\ ~Holds(w)' /\ ThreadFacts(w)'
<1>1. worker'[w] = IdleWorker /\ worker' = [worker EXCEPT ![w] = worker'[w]]
  BY DEF Finish, IInv, WorkersTyped
<1>2. worker'[w].pc = "idle"
  BY <1>1 DEF IdleWorker
<1>3. ThreadFacts(w)'
  BY <1>2, BystanderFacts DEF Driving, WorkerPCs, EpochIsPast
<1> QED
  BY <1>1, <1>2, <1>3 DEF Holds, WithAttempt

LEMMA LeavingKeeps ==
  ASSUME IInv, TInv, NEW w \in Workers, Leave(w, turn),
         UNCHANGED <<session, attempts, ledger>>
  PROVE  TInv'
<1>1. turn \in [TurnIds -> TurnRow] /\ turn' = Released(w, turn)
  BY DEF IInv, TablesTyped, Leave
<1>2. \A t \in TurnIds : SameRow(t) /\ turn'[t].owner # w
  BY <1>1, ReleasedRows DEF SameRow
<1>3. OwnersOfOthersStay(w)
  BY <1>1, ReleasedRows DEF OwnersOfOthersStay
<1> QED
  BY <1>2, <1>3, IdleFacts, QuietThreadStep DEF Leave

\* A thread that owns nothing moves between the steps of a bystander.
LEMMA BystanderMoves ==
  ASSUME IInv, TInv, NEW w \in Workers,
         worker' = [worker EXCEPT ![w] = worker'[w]],
         UNCHANGED <<session, turn, attempts, ledger>>,
         ~MayOwn(worker[w]), worker'[w].pc \in WorkerPCs \ Driving,
         EpochIsPast(w)'
  PROVE  TInv'
<1>1. \A t \in TurnIds : turn'[t].owner # w
  BY BystandersOwnNothing
<1>2. ThreadFacts(w)'
  BY <1>1, BystanderFacts
<1>3. \A t \in TurnIds : SameRow(t)
  BY DEF SameRow
<1>4. OwnersOfOthersStay(w)
  BY DEF OwnersOfOthersStay
<1>5. ~Holds(w)'
  BY DEF Holds, WithAttempt, Driving, WorkerPCs
<1> QED
  BY <1>2, <1>3, <1>4, <1>5, QuietThreadStep

\* The request a thread works for.
SameRequest(x, y) ==
  y.s = x.s /\ y.k = x.k /\ y.p = x.p /\ y.e = x.e /\ y.b = x.b

\* A driver that changes its local state from x to y and no table.
LEMMA DriverMoves ==
  ASSUME IInv, TInv, NEW w \in Workers, NEW x, NEW y, x = worker[w],
         worker' = [worker EXCEPT ![w] = y],
         UNCHANGED <<session, turn, attempts, ledger>>,
         SameRequest(x, y), MayOwn(x), y.pc \in Driving,
         x.pc \in Driving \/
           (Exists(Tid(w)) /\ turn[Tid(w)].owner = w /\ turn[Tid(w)].binding = x.b),
         y.pc # "call",
         y.pc \in WithAttempt =>
           x.pc \in WithAttempt /\ y.att = x.att /\ y.stage = x.stage,
         RemembersItsChoice(y),
         \A t \in TurnIds : turn[t].owner = w /\ t = Tid(w) /\ DriverFacts(x, t)
                              => DriverFacts(y, t)
  PROVE  TInv'
<1>1. worker'[w] = y /\ worker' = [worker EXCEPT ![w] = worker'[w]]
  BY DEF IInv, WorkersTyped
<1>2. ThreadFacts(w)
  BY DEF TInv
<1>3. Tid(w)' = Tid(w)
  BY <1>1 DEF Tid, SameRequest
<1>4. x.pc # "idle" /\ y.pc # "idle"
  BY DEF MayOwn, Driving
<1>5. EpochIsPast(w)'
  BY <1>1, <1>2, <1>4 DEF ThreadFacts, EpochIsPast, SameRequest
<1>6. OwnsItsTurn(w)'
  BY <1>1, <1>2, <1>3 DEF ThreadFacts, OwnsItsTurn, MayOwn, Exists
<1>7. DrivesItsTurn(w)'
  BY <1>1, <1>2, <1>3
  DEF ThreadFacts, DrivesItsTurn, SameRequest, Current, Exists
<1>8. HoldsItsAttempt(w)' /\ (Holds(w)' => Holds(w))
  BY <1>1, <1>2, <1>3 DEF ThreadFacts, HoldsItsAttempt, Holds
<1>9. KnowsItsTurn(w)'
  <2>1. \A t \in TurnIds : DriverFacts(y, t)' <=> DriverFacts(y, t)
    BY SMTT(30) DEF DriverFacts, AttemptFacts, OutcomeFacts, Succeeded, Unclear, Active,
           AttemptFor, AttemptsOf, Pending, NothingAsked, BeforeAnswering
  <2>2. \A t \in TurnIds : turn[t].owner = w /\ Current(t) => DriverFacts(y, t)
    BY <1>2 DEF ThreadFacts, KnowsItsTurn, OwnsItsTurn
  <2>3. \A t \in TurnIds : Current(t)' <=> Current(t)
    BY DEF Current
  <2> QED
    BY <1>1, <2>1, <2>2, <2>3 DEF KnowsItsTurn
<1>10. ThreadFacts(w)'
  BY <1>1, <1>5, <1>6, <1>7, <1>8, <1>9 DEF ThreadFacts
<1>11. \A t \in TurnIds : SameRow(t)
  BY DEF SameRow
<1>12. OwnersOfOthersStay(w)
  BY DEF OwnersOfOthersStay
<1>13. Holds(w)' => /\ Holds(w) /\ worker'[w].att = worker[w].att
                    /\ worker'[w].s = worker[w].s
  BY <1>1 DEF Holds, SameRequest
<1> QED
  BY <1>1, <1>10, <1>11, <1>12, <1>13, QuietThreadStep

\* Fields of a local state after Go, Close and BeginStage.
LEMMA GoFields ==
  ASSUME NEW x \in WorkerState, NEW pc, NEW y, y = [x EXCEPT !.pc = pc]
  PROVE  /\ y.pc = pc /\ SameRequest(x, y)
         /\ y.stage = x.stage /\ y.att = x.att /\ y.out = x.out
         /\ y.from = x.from /\ y.to = x.to
BY DEF WorkerState, SameRequest

LEMMA CloseFields ==
  ASSUME IInv, NEW w \in Workers, NEW from, NEW to, Close(w, from, to)
  PROVE  \E x, y : /\ x = worker[w] /\ worker' = [worker EXCEPT ![w] = y]
                   /\ worker'[w] = y /\ SameRequest(x, y)
                   /\ y.pc = "terminal" /\ y.to = to
<1>1. PICK x, y : /\ x = worker[w]
                  /\ y = [x EXCEPT !.pc = "terminal", !.from = from, !.to = to]
  OBVIOUS
<1>2. x \in WorkerState
  BY <1>1 DEF IInv, WorkersTyped, Informed
<1>3. worker' = [worker EXCEPT ![w] = y] /\ worker'[w] = y
  BY <1>1 DEF Close, IInv, WorkersTyped
<1>4. SameRequest(x, y) /\ y.pc = "terminal" /\ y.to = to
  BY <1>1, <1>2 DEF WorkerState, SameRequest
<1> QED
  BY <1>1, <1>3, <1>4

LEMMA BeginFields ==
  ASSUME NEW x \in WorkerState, NEW stage, NEW y,
         y = [x EXCEPT !.pc = "begin", !.stage = stage]
  PROVE  y.pc = "begin" /\ y.stage = stage /\ SameRequest(x, y)
BY DEF WorkerState, SameRequest

\* A driver goes on to close its row, and says what the attempts say.
LEMMA CloseKeeps ==
  ASSUME IInv, TInv, NEW w \in Workers, NEW from, NEW to, Close(w, from, to),
         UNCHANGED <<session, turn, attempts, ledger>>,
         worker[w].pc \in Driving, to # "answered",
         \A t \in TurnIds :
           turn[t].owner = w /\ t = Tid(w) /\ DriverFacts(worker[w], t) /\ Active(t)
             => (to = "outcome_unknown" <=> Unclear(t))
  PROVE  TInv'
<1> DEFINE x == worker[w]
           y == [x EXCEPT !.pc = "terminal", !.from = from, !.to = to]
<1>1. x \in WorkerState
  BY DEF IInv, WorkersTyped, Informed
<1>2. y.pc = "terminal" /\ y.to = to /\ SameRequest(x, y)
  <2> HIDE DEF x
  <2> QED
    BY <1>1 DEF WorkerState, SameRequest
<1>3. worker' = [worker EXCEPT ![w] = y]
  BY DEF Close, IInv, WorkersTyped
<1>4. \A t \in TurnIds : turn[t].owner = w /\ t = Tid(w) /\ DriverFacts(x, t)
                           => DriverFacts(y, t)
  <2> HIDE DEF y
  <2> QED
    BY <1>2 DEF DriverFacts, AttemptFacts, OutcomeFacts, NothingAsked,
                BeforeAnswering, InStage
<1>5. RemembersItsChoice(y)
  <2> HIDE DEF y
  <2> QED
    BY <1>2 DEF RemembersItsChoice, InStage
<1>6. y.pc \in Driving \ WithAttempt /\ y.pc # "call" /\ MayOwn(x)
  BY <1>2 DEF Driving, WorkerPCs, WithAttempt, MayOwn
<1> HIDE DEF y
<1>7. x = worker[w] /\ x.pc \in Driving
  OBVIOUS
<1> HIDE DEF x
<1> QED
  BY <1>2, <1>3, <1>4, <1>5, <1>6, <1>7, DriverMoves

\* A driver goes on without an attempt.
LEMMA GoKeeps ==
  ASSUME IInv, TInv, NEW w \in Workers, NEW pc \in Driving \ (InStage \cup {"terminal"}),
         Go(w, pc), UNCHANGED <<session, turn, attempts, ledger>>,
         worker[w].pc \in Driving,
         NEW y, y = [worker[w] EXCEPT !.pc = pc],
         \A t \in TurnIds :
           turn[t].owner = w /\ t = Tid(w) /\ DriverFacts(worker[w], t)
             => DriverFacts(y, t)
  PROVE  TInv'
<1> DEFINE x == worker[w]
<1>1. x \in WorkerState
  BY DEF IInv, WorkersTyped, Informed
<1>2. y.pc = pc /\ SameRequest(x, y)
  BY <1>1, GoFields
<1>3. worker' = [worker EXCEPT ![w] = y]
  BY DEF Go, IInv, WorkersTyped
<1>4. RemembersItsChoice(y)
  BY <1>2 DEF RemembersItsChoice, InStage
<1>5. y.pc \in Driving \ WithAttempt /\ y.pc # "call" /\ MayOwn(x)
  BY <1>2 DEF WithAttempt, InStage, MayOwn
<1>6. x = worker[w] /\ x.pc \in Driving
  OBVIOUS
<1>7. \A t \in TurnIds : turn[t].owner = w /\ t = Tid(w) /\ DriverFacts(x, t)
                           => DriverFacts(y, t)
  OBVIOUS
<1> HIDE DEF x
<1> QED
  BY <1>2, <1>3, <1>4, <1>5, <1>6, <1>7, DriverMoves

\* A driver goes on to a stage nothing was asked for.
LEMMA BeginKeeps ==
  ASSUME IInv, TInv, NEW w \in Workers, NEW stage \in Stages, BeginStage(w, stage),
         UNCHANGED <<session, turn, attempts, ledger>>,
         worker[w].pc \in Driving,
         stage = "planning" => worker[w].p \notin Presets,
         \A t \in TurnIds :
           turn[t].owner = w /\ t = Tid(w) /\ DriverFacts(worker[w], t) =>
             /\ AttemptFor(t, stage) = {} /\ ~(Active(t) /\ Unclear(t))
             /\ stage = "planning" => AttemptsOf(t) = {}
  PROVE  TInv'
<1> DEFINE x == worker[w]
           y == [x EXCEPT !.pc = "begin", !.stage = stage]
<1>1. x \in WorkerState
  BY DEF IInv, WorkersTyped, Informed
<1>2. y.pc = "begin" /\ y.stage = stage /\ SameRequest(x, y)
  BY <1>1, BeginFields
<1>3. worker' = [worker EXCEPT ![w] = y]
  BY DEF BeginStage, IInv, WorkersTyped
<1>4. RemembersItsChoice(y)
  <2> HIDE DEF y
  <2> QED
    BY <1>2 DEF RemembersItsChoice, SameRequest
<1>5. y.pc \in Driving \ WithAttempt /\ y.pc # "call" /\ MayOwn(x)
  BY <1>2 DEF Driving, WorkerPCs, WithAttempt, MayOwn
<1>6. \A t \in TurnIds : turn[t].owner = w /\ t = Tid(w) /\ DriverFacts(x, t)
                           => DriverFacts(y, t)
  <2> HIDE DEF y
  <2>1. \A t : AttemptsOf(t) = {} => AttemptFor(t, "answering") = {}
    BY DEF AttemptFor
  <2> QED
    BY <1>2, <2>1 DEF DriverFacts, AttemptFacts, OutcomeFacts, NothingAsked,
                BeforeAnswering, InStage
<1>7. x = worker[w] /\ x.pc \in Driving
  OBVIOUS
<1> HIDE DEF x, y
<1> QED
  BY <1>2, <1>3, <1>4, <1>5, <1>6, <1>7, DriverMoves

-----------------------------------------------------------------------------
(***************************************************************************)
(* Steps that change no table                                              *)
(***************************************************************************)
LEMMA SubmitKeeps ==
  ASSUME IInv, TInv, NEW w \in Workers, NEW s \in Sessions, NEW k \in Keys,
         NEW p \in Payloads, Submit(w, s, k, p)
  PROVE  TInv'
<1>1. worker'[w] = [pc |-> "recover", s |-> s, e |-> session[s].epoch,
                     k |-> k, p |-> p, retried |-> FALSE, back |-> "-",
                     b |-> 0, stage |-> "-", att |-> 0, out |-> "-",
                     from |-> "-", to |-> "-"]
  BY ZenonT(30) DEF Submit, IInv, WorkersTyped, IdleWorker
<1>2. worker' = [worker EXCEPT ![w] = worker'[w]]
  BY <1>1 DEF Submit, IInv, WorkersTyped
<1>3. session[s].epoch \in Nat
  BY BoundsAreNatural DEF IInv, TablesTyped
<1>4. EpochIsPast(w)'
  BY <1>1, <1>3 DEF EpochIsPast, Submit
<1>5. worker'[w].pc = "recover"
  BY <1>1
<1>6. worker'[w].pc \in WorkerPCs \ Driving /\ ~MayOwn(worker[w])
  BY <1>5 DEF WorkerPCs, Driving, MayOwn, Submit
<1> QED
  BY <1>2, <1>4, <1>6, BystanderMoves DEF Submit

\* A bystander that keeps its session and epoch.
LEMMA EpochStaysPast ==
  ASSUME TInv, NEW w \in Workers, UNCHANGED session, worker[w].pc # "idle",
         worker'[w].s = worker[w].s, worker'[w].e = worker[w].e
  PROVE  EpochIsPast(w)'
BY DEF TInv, ThreadFacts, EpochIsPast

LEMMA LookupFields ==
  ASSUME IInv, NEW w \in Workers, NEW back, Lookup(w, back)
  PROVE  /\ worker' = [worker EXCEPT ![w] = worker'[w]]
         /\ worker'[w].pc = "lookup" /\ worker'[w].back = back
         /\ SameRequest(worker[w], worker'[w])
<1>1. worker[w] \in WorkerState
  BY DEF IInv, WorkersTyped, Informed
<1>2. worker'[w] = [worker[w] EXCEPT !.pc = "lookup", !.back = back]
  BY DEF Lookup, IInv, WorkersTyped
<1>3. worker' = [worker EXCEPT ![w] = worker'[w]]
  BY <1>2 DEF Lookup, IInv, WorkersTyped
<1> QED
  BY <1>1, <1>2, <1>3 DEF WorkerState, SameRequest

LEMMA GoRecord ==
  ASSUME IInv, NEW w \in Workers, NEW pc, Go(w, pc)
  PROVE  /\ worker' = [worker EXCEPT ![w] = worker'[w]]
         /\ worker'[w] = [worker[w] EXCEPT !.pc = pc]
         /\ worker'[w].pc = pc /\ SameRequest(worker[w], worker'[w])
         /\ worker'[w].stage = worker[w].stage /\ worker'[w].att = worker[w].att
         /\ worker'[w].out = worker[w].out
<1>1. worker[w] \in WorkerState
  BY DEF IInv, WorkersTyped, Informed
<1>2. worker'[w] = [worker[w] EXCEPT !.pc = pc]
  BY DEF Go, IInv, WorkersTyped
<1>3. worker' = [worker EXCEPT ![w] = worker'[w]]
  BY <1>2 DEF Go, IInv, WorkersTyped
<1> QED
  BY <1>1, <1>2, <1>3, GoFields

LEMMA GoMoves ==
  ASSUME IInv, NEW w \in Workers, NEW pc, Go(w, pc)
  PROVE  \E x, y : /\ x = worker[w] /\ worker' = [worker EXCEPT ![w] = y]
                   /\ worker'[w] = y /\ SameRequest(x, y) /\ y.pc = pc
                   /\ y.stage = x.stage /\ y.att = x.att /\ y.out = x.out
<1>1. PICK x, y : x = worker[w] /\ y = worker'[w]
  OBVIOUS
<1>2. /\ worker' = [worker EXCEPT ![w] = y] /\ SameRequest(x, y) /\ y.pc = pc
      /\ y.stage = x.stage /\ y.att = x.att /\ y.out = x.out
  BY <1>1, GoRecord
<1> QED
  BY <1>1, <1>2

\* A bystander that turns to a lookup, or to another step of a bystander.
LEMMA BystanderGoes ==
  ASSUME IInv, TInv, NEW w \in Workers, worker[w].pc # "idle",
         ~MayOwn(worker[w]), UNCHANGED <<session, turn, attempts, ledger>>,
         \/ \E back \in {"recover", "select", "reserve"} : Lookup(w, back)
         \/ \E pc \in WorkerPCs \ Driving : Go(w, pc)
  PROVE  TInv'
<1>1. /\ worker' = [worker EXCEPT ![w] = worker'[w]]
      /\ SameRequest(worker[w], worker'[w])
      /\ worker'[w].pc \in WorkerPCs \ Driving
  BY LookupFields, GoRecord DEF WorkerPCs, Driving
<1>2. EpochIsPast(w)'
  BY <1>1, EpochStaysPast DEF SameRequest
<1> QED
  BY <1>1, <1>2, BystanderMoves

LEMMA SelectKeeps ==
  ASSUME IInv, TInv, NEW w \in Workers, Select(w)
  PROVE  TInv'
<1>1. worker[w].pc = "select" /\ ~MayOwn(worker[w])
      /\ UNCHANGED <<session, turn, attempts, ledger>>
  BY DEF Select, MayOwn, Driving
<1>2. CASE Lookup(w, "select")
  BY <1>1, <1>2, BystanderGoes
<1>3. CASE worker' = [worker EXCEPT ![w].pc = "reserve", ![w].b = revision]
  <2>1. worker[w] \in WorkerState
    BY DEF IInv, WorkersTyped, Informed
  <2>2. worker'[w] = [worker[w] EXCEPT !.pc = "reserve", !.b = revision]
    BY <1>3 DEF IInv, WorkersTyped
  <2>3. worker' = [worker EXCEPT ![w] = worker'[w]]
    BY <1>3, <2>2 DEF IInv, WorkersTyped
  <2>4. /\ worker'[w].pc = "reserve"
        /\ worker'[w].s = worker[w].s /\ worker'[w].e = worker[w].e
    BY <2>1, <2>2 DEF WorkerState
  <2>5. EpochIsPast(w)'
    BY <1>1, <2>4, EpochStaysPast
  <2>6. worker'[w].pc \in WorkerPCs \ Driving
    BY <2>4 DEF WorkerPCs, Driving
  <2> QED
    BY <1>1, <2>3, <2>5, <2>6, BystanderMoves
<1> QED
  BY <1>2, <1>3 DEF Select

LEMMA StartPlanningKeeps ==
  ASSUME IInv, TInv, NEW w \in Workers, StartPlanning(w)
  PROVE  TInv'
<1>1. /\ worker[w].pc = "planning" /\ worker[w].pc \in Driving
      /\ UNCHANGED <<session, turn, attempts, ledger>>
  BY DEF StartPlanning, Driving, WorkerPCs
<1>2. ASSUME NEW t \in TurnIds, DriverFacts(worker[w], t)
      PROVE  /\ AttemptsOf(t) = {} /\ ~Unclear(t)
             /\ \A g : AttemptFor(t, g) = {}
  BY <1>1, <1>2 DEF DriverFacts, NothingAsked, Unclear, AttemptFor
<1>3. ASSUME NEW to \in {"unsupported", "clarification_required"},
             Close(w, "planning", to)
      PROVE  TInv'
  BY <1>1, <1>2, <1>3, CloseKeeps
<1>4. ASSUME Go(w, "to_querying"), worker[w].p \in Presets
      PROVE  TInv'
  <2> DEFINE y == [worker[w] EXCEPT !.pc = "to_querying"]
  <2>1. y.pc = "to_querying"
    BY <1>4, GoRecord
  <2>2. ASSUME NEW t \in TurnIds, t = Tid(w), DriverFacts(worker[w], t)
        PROVE  DriverFacts(y, t)
    <3> HIDE DEF y
    <3>1. t.p \in Presets
      BY <1>4, <2>2 DEF Tid
    <3> QED
      BY <1>2, <2>1, <2>2, <3>1
      DEF DriverFacts, AttemptFacts, OutcomeFacts, NothingAsked, InStage
  <2>3. "to_querying" \in Driving \ (InStage \cup {"terminal"})
    BY DEF Driving, WorkerPCs, InStage
  <2>4. y = [worker[w] EXCEPT !.pc = "to_querying"]
    OBVIOUS
  <2> HIDE DEF y
  <2> QED
    BY <1>1, <1>4, <2>2, <2>3, <2>4, GoKeeps
<1>5. ASSUME BeginStage(w, "planning"), worker[w].p \notin Presets
      PROVE  TInv'
  <2>1. "planning" \in Stages
    BY DEF Stages
  <2> QED
    BY <1>1, <1>2, <1>5, <2>1, BeginKeeps
<1> QED
  BY <1>3, <1>4, <1>5 DEF StartPlanning

LEMMA ContextMismatchKeeps ==
  ASSUME IInv, TInv, NEW w \in Workers, ContextMismatch(w)
  PROVE  TInv'
<1>1. /\ worker[w].pc = "to_querying" /\ worker[w].pc \in Driving
      /\ UNCHANGED <<session, turn, attempts, ledger>>
      /\ Close(w, "planning", "unsupported")
  BY DEF ContextMismatch, Driving, WorkerPCs
<1>2. ASSUME NEW t \in TurnIds, DriverFacts(worker[w], t), Active(t)
      PROVE  ~Unclear(t)
  BY <1>1, <1>2 DEF DriverFacts, OutcomeFacts
<1> QED
  BY <1>1, <1>2, CloseKeeps

LEMMA RefuseAttemptKeeps ==
  ASSUME IInv, TInv, NEW w \in Workers, RefuseAttempt(w)
  PROVE  TInv'
<1>1. /\ worker[w].pc = "begin" /\ worker[w].pc \in Driving
      /\ UNCHANGED <<session, turn, attempts, ledger>>
      /\ Close(w, worker[w].stage, "failed")
  BY DEF RefuseAttempt, Driving, WorkerPCs
<1>2. ASSUME NEW t \in TurnIds, DriverFacts(worker[w], t), Active(t)
      PROVE  ~Unclear(t)
  BY <1>1, <1>2 DEF DriverFacts, OutcomeFacts
<1> QED
  BY <1>1, <1>2, CloseKeeps

\* The steps between the plan and the answer ask nothing, and no outcome of
\* theirs is unknown.
MidSteps == {"to_querying", "rb_querying", "execute", "store", "rb_store"}

LEMMA MidStepFacts ==
  ASSUME NEW x, NEW t, x.pc \in MidSteps, DriverFacts(x, t)
  PROVE  AttemptFor(t, "answering") = {} /\ ~(Active(t) /\ Unclear(t))
BY DEF MidSteps, DriverFacts, BeforeAnswering, OutcomeFacts

LEMMA MidStepKnows ==
  ASSUME NEW y, NEW t, y.pc \in MidSteps \ {"to_querying"},
         AttemptFor(t, "answering") = {}, ~(Active(t) /\ Unclear(t))
  PROVE  DriverFacts(y, t)
BY DEF MidSteps, DriverFacts, AttemptFacts, OutcomeFacts, NothingAsked, InStage

LEMMA MidStepsDrive ==
  /\ MidSteps \subseteq Driving \ (InStage \cup {"terminal"})
  /\ WithAttempt \subseteq InStage
BY DEF MidSteps, Driving, WorkerPCs, InStage, WithAttempt

\* From one of them to another, or to the closing of the row.
LEMMA MidStepGoes ==
  ASSUME IInv, TInv, NEW w \in Workers, worker[w].pc \in MidSteps,
         NEW pc \in MidSteps \ {"to_querying"}, Go(w, pc),
         UNCHANGED <<session, turn, attempts, ledger>>
  PROVE  TInv'
<1> DEFINE y == [worker[w] EXCEPT !.pc = pc]
<1>1. y.pc = pc
  BY GoRecord
<1>2. y = [worker[w] EXCEPT !.pc = pc]
  OBVIOUS
<1> HIDE DEF y
<1>3. \A t \in TurnIds : DriverFacts(worker[w], t) => DriverFacts(y, t)
  BY <1>1, MidStepFacts, MidStepKnows
<1> QED
  BY <1>2, <1>3, MidStepsDrive, GoKeeps

LEMMA MidStepCloses ==
  ASSUME IInv, TInv, NEW w \in Workers, worker[w].pc \in MidSteps,
         NEW from, NEW to \in TerminalStatuses \ {"answered", "outcome_unknown"},
         Close(w, from, to), UNCHANGED <<session, turn, attempts, ledger>>
  PROVE  TInv'
<1>1. \A t \in TurnIds : DriverFacts(worker[w], t) /\ Active(t) => ~Unclear(t)
  BY MidStepFacts
<1> QED
  BY <1>1, MidStepsDrive, CloseKeeps

LEMMA ConfirmQueryingKeeps ==
  ASSUME IInv, TInv, NEW w \in Workers, ConfirmQuerying(w)
  PROVE  TInv'
<1>1. /\ worker[w].pc \in MidSteps /\ "execute" \in MidSteps \ {"to_querying"}
      /\ "failed" \in TerminalStatuses \ {"answered", "outcome_unknown"}
  BY DEF ConfirmQuerying, MidSteps, TerminalStatuses
<1> QED
  BY <1>1, MidStepGoes, MidStepCloses DEF ConfirmQuerying

LEMMA ExecuteKeeps ==
  ASSUME IInv, TInv, NEW w \in Workers, NEW out \in QueryOutcomes, Execute(w, out)
  PROVE  TInv'
<1>1. /\ worker[w].pc \in MidSteps
      /\ "failed" \in TerminalStatuses \ {"answered", "outcome_unknown"}
      /\ UNCHANGED <<session, turn, attempts, ledger>>
  BY DEF Execute, MidSteps, TerminalStatuses
<1>2. CASE out = "error"
  BY <1>1, <1>2, MidStepCloses DEF Execute
<1>3. CASE out # "error"
  <2> DEFINE y == [worker[w] EXCEPT !.pc = "store", !.out = out]
  <2>1. worker' = [worker EXCEPT ![w] = y]
    BY <1>3 DEF Execute, IInv, WorkersTyped
  <2>2. y.pc = "store" /\ SameRequest(worker[w], y)
    <3>1. worker[w] \in WorkerState
      BY DEF IInv, WorkersTyped, Informed
    <3> QED
      BY <3>1 DEF WorkerState, SameRequest
  <2> HIDE DEF y
  <2>3. \A t \in TurnIds : DriverFacts(worker[w], t) => DriverFacts(y, t)
    <3>1. y.pc \in MidSteps \ {"to_querying"}
      BY <2>2 DEF MidSteps
    <3> QED
      BY <1>1, <3>1, MidStepFacts, MidStepKnows
  <2>4. RemembersItsChoice(y) /\ MayOwn(worker[w]) /\ y.pc \in Driving \ WithAttempt
    BY <1>1, <2>2, MidStepsDrive
    DEF RemembersItsChoice, InStage, MayOwn, Driving, WorkerPCs, WithAttempt
  <2> DEFINE x == worker[w]
  <2>5. x = worker[w] /\ x.pc \in Driving
    BY <1>1, MidStepsDrive
  <2> HIDE DEF x
  <2> QED
    BY <1>1, <2>1, <2>2, <2>3, <2>4, <2>5, DriverMoves
<1> QED
  BY <1>2, <1>3

LEMMA ConfirmStoreKeeps ==
  ASSUME IInv, TInv, NEW w \in Workers, ConfirmStore(w)
  PROVE  TInv'
<1>1. /\ worker[w].pc \in MidSteps
      /\ "failed" \in TerminalStatuses \ {"answered", "outcome_unknown"}
      /\ UNCHANGED <<session, attempts, ledger>>
  BY DEF ConfirmStore, MidSteps, TerminalStatuses
<1>2. CASE Close(w, "querying", "failed") /\ UNCHANGED turn
  BY <1>1, <1>2, MidStepCloses
<1>3. CASE AfterStore(w) /\ turn' = RowsAfterStore(w, turn)
  <2>1. CASE worker[w].out = "facts"
    <3>1. BeginStage(w, "answering") /\ UNCHANGED turn /\ "answering" \in Stages
      BY <1>3, <2>1 DEF AfterStore, RowsAfterStore, Stages
    <3>2. worker[w].pc \in Driving
      BY <1>1, MidStepsDrive
    <3> QED
      BY <1>1, <3>1, <3>2, MidStepFacts, BeginKeeps
  <2>2. CASE worker[w].out # "facts"
    BY <1>1, <1>3, <2>2, LeavingKeeps DEF AfterStore, RowsAfterStore, Leave
  <2> QED
    BY <2>1, <2>2
<1> QED
  BY <1>2, <1>3 DEF ConfirmStore

LEMMA CrashKeeps ==
  ASSUME IInv, TInv, NEW w \in Workers, Crash(w)
  PROVE  TInv'
BY LeavingKeeps DEF Crash

LEMMA LookupReplayKeeps ==
  ASSUME IInv, TInv, NEW w \in Workers, LookupReplay(w)
  PROVE  TInv'
<1>1. worker[w].pc = "lookup" /\ UNCHANGED <<session, attempts, ledger>>
  BY DEF LookupReplay
<1>2. CASE Leave(w, turn)
  BY <1>1, <1>2, LeavingKeeps
<1>3. CASE /\ worker[w].back = "reserve"
           /\ Tid(w) \in FoundByKey(worker[w].s, worker[w].k)
           /\ OwnsReservation(w, Tid(w))
           /\ Go(w, "planning") /\ UNCHANGED turn
  <2> DEFINE x == worker[w]
             y == [x EXCEPT !.pc = "planning"]
  <2>1. y.pc = "planning" /\ SameRequest(x, y)
    BY <1>3, GoRecord
  <2>2. worker' = [worker EXCEPT ![w] = y]
    BY <1>3, GoRecord
  <2>3. /\ Exists(Tid(w)) /\ turn[Tid(w)].owner = w
        /\ turn[Tid(w)].binding = x.b
    BY <1>3 DEF FoundByKey, OwnsReservation
  <2>4. MayOwn(x) /\ x = worker[w] /\ x.pc = "lookup"
    BY <1>1, <1>3 DEF MayOwn
  <2> HIDE DEF x, y
  <2>5. \A t \in TurnIds : DriverFacts(x, t) => DriverFacts(y, t)
    BY <2>1, <2>4
    DEF DriverFacts, AttemptFacts, OutcomeFacts, NothingAsked, BeforeAnswering, InStage
  <2>6. RemembersItsChoice(y) /\ y.pc \in Driving \ WithAttempt /\ y.pc # "call"
    BY <2>1 DEF RemembersItsChoice, InStage, Driving, WorkerPCs, WithAttempt
  <2> QED
    BY <1>1, <1>3, <2>1, <2>2, <2>3, <2>4, <2>5, <2>6, DriverMoves
<1>4. CASE /\ worker[w].back = "recover"
           /\ worker' = [worker EXCEPT ![w].pc = "recover", ![w].retried = TRUE]
           /\ UNCHANGED turn
  <2>1. worker[w] \in WorkerState /\ ~MayOwn(worker[w])
    BY <1>1, <1>4 DEF IInv, WorkersTyped, Informed, MayOwn, Driving
  <2>2. worker'[w] = [worker[w] EXCEPT !.pc = "recover", !.retried = TRUE]
    BY <1>4 DEF IInv, WorkersTyped
  <2>3. worker' = [worker EXCEPT ![w] = worker'[w]]
    BY <1>4, <2>2 DEF IInv, WorkersTyped
  <2>4. /\ worker'[w].pc = "recover"
        /\ worker'[w].s = worker[w].s /\ worker'[w].e = worker[w].e
    BY <2>1, <2>2 DEF WorkerState
  <2>5. EpochIsPast(w)' /\ worker'[w].pc \in WorkerPCs \ Driving
    BY <1>1, <2>4, EpochStaysPast DEF WorkerPCs, Driving
  <2> QED
    BY <1>1, <1>4, <2>1, <2>3, <2>5, BystanderMoves
<1> QED
  BY <1>2, <1>3, <1>4 DEF LookupReplay

-----------------------------------------------------------------------------
(***************************************************************************)
(* Recovery and reservation                                                *)
(***************************************************************************)
LEMMA RecoveryKeepsEntries ==
  ASSUME IInv, ledger' = RecoveredLedger
  PROVE  /\ LedgerKept /\ (DOMAIN ledger)' = DOMAIN ledger
         /\ \A i \in DOMAIN ledger :
              /\ ledger'[i].calls = ledger[i].calls
              /\ ledger'[i].status =
                   IF i \in attempts /\ Stale(ledger[i].t) /\ ledger[i].status = "started"
                   THEN "outcome_unknown" ELSE ledger[i].status
<1>1. \A i \in DOMAIN ledger : ledger[i] \in LedgerRow
  BY EntriesTyped
<1>2. DOMAIN RecoveredLedger = DOMAIN ledger
  BY DEF RecoveredLedger
<1> QED
  BY <1>1, <1>2 DEF RecoveredLedger, LedgerKept, LedgerRow

LEMMA RecoveryOfRow ==
  ASSUME IInv, NEW t \in TurnIds, turn'[t] = RecoveredTurns[t],
         ledger' = RecoveredLedger, UNCHANGED attempts
  PROVE  /\ Quiet(t) \/ Recovered(t)
         /\ turn'[t].owner = turn[t].owner /\ turn'[t].binding = turn[t].binding
         /\ turn'[t].kept = turn[t].kept /\ (Exists(t)' <=> Exists(t))
         /\ turn[t].status = "answered" => turn'[t].status = "answered"
<1>1. turn[t] \in TurnRow
  BY DEF IInv, TablesTyped
<1>2. attempts \subseteq DOMAIN ledger
  BY DEF IInv, TablesTyped
<1>3. SameEntries(t)
  BY <1>2, RecoveryKeepsEntries DEF SameEntries, AttemptsOf, LedgerKept
<1>4. CASE Stale(t)
  <2>1. turn'[t] = [turn[t] EXCEPT !.status = RecoveredStatus(t), !.lapsed = FALSE]
    BY <1>4 DEF RecoveredTurns
  <2>2. Recovered(t)
    BY <1>1, <1>2, <1>3, <1>4, <2>1, RecoveryKeepsEntries
    DEF Recovered, Stale, AttemptsOf, TurnRow
  <2> QED
    BY <1>1, <1>4, <2>1, <2>2
    DEF TurnRow, Exists, Stale, Active, ActiveStatuses, RecoveredStatus
<1>5. CASE ~Stale(t)
  <2>1. turn'[t] = turn[t]
    BY <1>5 DEF RecoveredTurns
  <2>2. Quiet(t)
    BY <1>2, <1>3, <1>5, <2>1, RecoveryKeepsEntries DEF Quiet, AttemptsOf
  <2> QED
    BY <2>1, <2>2 DEF Exists
<1> QED
  BY <1>4, <1>5

\* Recovering all stale turns, by a thread that owns none.
LEMMA RecoveryKeeps ==
  ASSUME IInv, TInv, NEW w \in Workers,
         worker' = [worker EXCEPT ![w] = worker'[w]],
         turn' = RecoveredTurns, ledger' = RecoveredLedger,
         UNCHANGED <<session, attempts>>,
         ~MayOwn(worker[w]), worker'[w].pc \in WorkerPCs \ Driving,
         EpochIsPast(w)'
  PROVE  TInv'
<1>1. \A t \in TurnIds :
        /\ Quiet(t) \/ Recovered(t)
        /\ turn'[t].owner = turn[t].owner /\ turn'[t].binding = turn[t].binding
        /\ turn'[t].kept = turn[t].kept /\ (Exists(t)' <=> Exists(t))
        /\ turn[t].status = "answered" => turn'[t].status = "answered"
  BY RecoveryOfRow
<1>2. \A t \in TurnIds : RowFacts(t) => RowFacts(t)'
  BY <1>1, QuietKeepsRowFacts, RecoveryKeepsRowFacts
<1>3. TableFacts'
  BY <1>1, <1>2, RecoveryKeepsEntries, RowsInPlace
<1>4. OthersRowsKept(w)
  BY <1>1 DEF OthersRowsKept
<1>5. ThreadFacts(w)' /\ ~Holds(w)'
  BY <1>1, BystandersOwnNothing, BystanderFacts DEF Holds, Driving, WithAttempt, WorkerPCs
<1> QED
  BY <1>3, <1>4, <1>5, RecoveryKeepsEntries, ThreadStep

LEMMA RecoverKeeps ==
  ASSUME IInv, TInv, NEW w \in Workers, NEW o \in Outcomes, Recover(w, o)
  PROVE  TInv'
<1>1. /\ worker[w].pc = "recover" /\ ~MayOwn(worker[w])
      /\ UNCHANGED <<session, attempts>>
      /\ Lookup(w, "recover") \/ Go(w, "select") \/ Finish(w)
      /\ \/ UNCHANGED <<turn, ledger>>
         \/ turn' = RecoveredTurns /\ ledger' = RecoveredLedger
  BY DEF Recover, MayOwn, Driving
<1>2. /\ worker' = [worker EXCEPT ![w] = worker'[w]]
      /\ worker'[w].pc \in WorkerPCs \ Driving
      /\ EpochIsPast(w)'
  <2>1. CASE Finish(w)
    <3>1. worker'[w] = IdleWorker /\ worker' = [worker EXCEPT ![w] = worker'[w]]
      BY <2>1 DEF Finish, IInv, WorkersTyped
    <3> QED
      BY <3>1 DEF IdleWorker, EpochIsPast, WorkerPCs, Driving
  <2>2. CASE Lookup(w, "recover") \/ Go(w, "select")
    <3>1. /\ worker' = [worker EXCEPT ![w] = worker'[w]]
          /\ SameRequest(worker[w], worker'[w])
          /\ worker'[w].pc \in {"lookup", "select"}
      BY <2>2, LookupFields, GoRecord
    <3> QED
      BY <1>1, <3>1, EpochStaysPast DEF SameRequest, WorkerPCs, Driving
  <2> QED
    BY <1>1, <2>1, <2>2
<1> QED
  BY <1>1, <1>2, RecoveryKeeps, BystanderMoves

\* What a reservation does to the tables and to its thread.
Inserts(w) ==
  /\ FoundByKey(worker[w].s, worker[w].k) = {} /\ EpochHolds(w)
  /\ turn' = [RecoveredTurns EXCEPT ![Tid(w)] = PlanningRow(w)]
  /\ ledger' = RecoveredLedger
  /\ Go(w, "planning") \/ Lookup(w, "reserve")

LEMMA ReserveCases ==
  ASSUME NEW w \in Workers, NEW o \in Outcomes, Reserve(w, o)
  PROVE  /\ worker[w].pc = "reserve" /\ UNCHANGED <<session, attempts>>
         /\ \/ Inserts(w)
            \/ /\ turn' = RecoveredTurns /\ ledger' = RecoveredLedger
               /\ Finish(w) \/ Lookup(w, "reserve")
            \/ UNCHANGED <<turn, ledger>> /\ Lookup(w, "reserve")
BY DEF Reserve, Inserts, PlanningRow

\* The inserted row is the first of its id.
LEMMA InsertedRow ==
  ASSUME IInv, TInv, NEW w \in Workers, worker[w].pc # "idle", Inserts(w),
         UNCHANGED attempts, NEW n \in TurnIds, n = Tid(w)
  PROVE  /\ ~Exists(n) /\ turn'[n] = PlanningRow(w)
         /\ turn'[n].status = "planning" /\ turn'[n].owner = w
         /\ turn'[n].binding = worker[w].b /\ turn'[n].kept = FALSE
         /\ AttemptsOf(n)' = {}
         /\ \A t \in TurnIds \ {n} : turn'[t] = RecoveredTurns[t]
         /\ \A v \in Workers : turn[n].owner # v
<1>1. ~Exists(n)
  BY DEF Inserts, FoundByKey, Tid
<1>2. RecoveredTurns \in [TurnIds -> TurnRow]
  BY RecoveryClosesStaleTurns
<1>3. /\ turn'[n] = PlanningRow(w)
      /\ \A t \in TurnIds \ {n} : turn'[t] = RecoveredTurns[t]
  BY <1>2 DEF Inserts
<1>4. /\ turn'[n].status = "planning" /\ turn'[n].owner = w
      /\ turn'[n].binding = worker[w].b /\ turn'[n].kept = FALSE
  BY <1>3 DEF PlanningRow, AbsentRow
<1>5. AttemptsOf(n) = {}
  BY <1>1 DEF TInv, TableFacts, AttemptsHaveTurns, AttemptsOf
<1>6. AttemptsOf(n)' = {}
  <2>1. \A i \in attempts : ledger'[i].t = ledger[i].t
    BY RecoveryKeepsEntries DEF Inserts, LedgerKept, IInv, TablesTyped
  <2> QED
    BY <1>5, <2>1 DEF AttemptsOf
<1>7. \A v \in Workers : turn[n].owner # v
  BY <1>1 DEF TInv, ThreadFacts, OwnsItsTurn
<1> QED
  BY <1>1, <1>3, <1>4, <1>6, <1>7

LEMMA InsertKeepsTables ==
  ASSUME IInv, TInv, NEW w \in Workers, worker[w].pc # "idle", Inserts(w),
         UNCHANGED <<session, attempts>>, NEW n \in TurnIds, n = Tid(w)
  PROVE  TableFacts'
<1>1. TableFacts
  BY DEF TInv
<1>2. \A t \in TurnIds \ {n} :
        /\ Quiet(t) \/ Recovered(t)
        /\ turn'[t].kept = turn[t].kept /\ (Exists(t)' <=> Exists(t))
        /\ turn[t].status = "answered" => turn'[t].status = "answered"
  BY InsertedRow, RecoveryOfRow DEF Inserts
<1>3. Exists(n)' /\ ~Exists(n) /\ turn'[n].kept = FALSE
  BY InsertedRow DEF Exists
<1>4. KeptRows'
  BY <1>1, <1>2, <1>3 DEF TableFacts, KeptRows
<1>5. DemoRowsAreCurrent'
  <2>1. n.s = worker[w].s /\ (n.s \in DemoSessions => n.e = worker[w].e)
    BY DEF Tid
  <2>2. n.s \in DemoSessions => session[n.s].state # "ended" /\ session[n.s].epoch = n.e
    BY <2>1 DEF Inserts, EpochHolds
  <2> QED
    BY <1>1, <1>2, <2>2 DEF TableFacts, DemoRowsAreCurrent
<1>6. LedgerKept /\ (DOMAIN ledger)' = DOMAIN ledger
      /\ \A i \in DOMAIN ledger : ledger'[i].calls = ledger[i].calls
  BY RecoveryKeepsEntries DEF Inserts
<1>7. attempts \subseteq DOMAIN ledger /\ \A i \in attempts : ledger[i].t \in TurnIds
  BY EntriesTyped DEF IInv, TablesTyped, LedgerRow
<1>8. AttemptsHaveTurns' /\ OneAttemptPerStage'
  BY <1>1, <1>2, <1>3, <1>6, <1>7
  DEF TableFacts, AttemptsHaveTurns, OneAttemptPerStage, LedgerKept
<1>9. PresetsSkipPlanning' /\ PaidCallHappensOnce'
  BY <1>1, <1>6
  DEF TableFacts, PresetsSkipPlanning, PaidCallHappensOnce, LedgerKept, Lasting
<1>10. RowsBacked'
  <2>1. ASSUME NEW t \in TurnIds \ {n}, Current(t)' \/ turn'[t].kept
        PROVE  RowFacts(t)'
    <3>1. RowFacts(t)
      BY <1>1, <1>2, <2>1 DEF TableFacts, RowsBacked, Current
    <3> QED
      BY <1>2, <3>1, QuietKeepsRowFacts, RecoveryKeepsRowFacts
  <2>2. RowFacts(n)'
    BY InsertedRow DEF RowFacts, TerminalStatuses
  <2> QED
    BY <2>1, <2>2 DEF RowsBacked
<1> QED
  BY <1>4, <1>5, <1>8, <1>9, <1>10 DEF TableFacts

LEMMA InsertKeeps ==
  ASSUME IInv, TInv, NEW w \in Workers, worker[w].pc = "reserve", Inserts(w),
         UNCHANGED <<session, attempts>>
  PROVE  TInv'
<1>1. PICK n \in TurnIds : n = Tid(w)
  BY RequestHasTurnId
<1>2. /\ worker' = [worker EXCEPT ![w] = worker'[w]]
      /\ SameRequest(worker[w], worker'[w])
      /\ \/ worker'[w].pc = "planning"
         \/ worker'[w].pc = "lookup" /\ worker'[w].back = "reserve"
  BY LookupFields, GoRecord DEF Inserts
<1>3. /\ ~Exists(n) /\ turn'[n].status = "planning" /\ turn'[n].owner = w
      /\ turn'[n].binding = worker[w].b /\ AttemptsOf(n)' = {}
      /\ \A t \in TurnIds \ {n} : turn'[t] = RecoveredTurns[t]
      /\ \A v \in Workers : turn[n].owner # v
  <2>1. UNCHANGED attempts /\ worker[w].pc # "idle"
    OBVIOUS
  <2> QED
    BY <1>1, <2>1, InsertedRow
<1>4. TableFacts'
  <2>1. worker[w].pc # "idle"
    OBVIOUS
  <2> QED
    BY <1>1, <2>1, InsertKeepsTables
<1>5. \A t \in TurnIds \ {n} :
        /\ Quiet(t) \/ Recovered(t)
        /\ turn'[t].owner = turn[t].owner /\ turn'[t].binding = turn[t].binding
        /\ Exists(t)' <=> Exists(t)
  BY <1>3, RecoveryOfRow DEF Inserts
<1>6. OthersRowsKept(w)
  BY <1>3, <1>5 DEF OthersRowsKept
<1>7. n = Tid(w)'
  BY <1>1, <1>2 DEF Tid, SameRequest
<1>8. \A t \in TurnIds : turn'[t].owner = w => t = n
  BY <1>5, BystandersOwnNothing DEF MayOwn, Driving
<1>9. ThreadFacts(w)'
  <2>1. EpochIsPast(w)'
    BY <1>2, EpochStaysPast DEF SameRequest
  <2>2. OwnsItsTurn(w)'
    BY <1>2, <1>3, <1>7, <1>8 DEF OwnsItsTurn, MayOwn, Exists, Driving, WorkerPCs
  <2>3. DrivesItsTurn(w)'
    BY <1>2, <1>3, <1>7 DEF DrivesItsTurn, Exists, SameRequest
  <2>4. HoldsItsAttempt(w)' /\ RemembersItsChoice(worker[w])'
    BY <1>2 DEF HoldsItsAttempt, Holds, WithAttempt, RemembersItsChoice, InStage
  <2>5. DriverFacts(worker[w], n)'
    <3>1. \A g : AttemptFor(n, g)' = {}
      BY <1>3 DEF AttemptFor
    <3>2. ~Unclear(n)'
      BY <1>3 DEF Unclear
    <3> QED
      BY <1>2, <1>3, <3>1, <3>2
      DEF DriverFacts, AttemptFacts, OutcomeFacts, NothingAsked, BeforeAnswering, InStage
  <2>6. KnowsItsTurn(w)'
    BY <1>8, <2>5 DEF KnowsItsTurn
  <2> QED
    BY <2>1, <2>2, <2>3, <2>4, <2>6 DEF ThreadFacts
<1>10. ~Holds(w)'
  BY <1>2 DEF Holds, WithAttempt
<1> QED
  BY <1>2, <1>4, <1>6, <1>9, <1>10, RecoveryKeepsEntries, ThreadStep DEF Inserts

LEMMA ReserveKeeps ==
  ASSUME IInv, TInv, NEW w \in Workers, NEW o \in Outcomes, Reserve(w, o)
  PROVE  TInv'
<1>1. /\ worker[w].pc = "reserve" /\ ~MayOwn(worker[w])
      /\ UNCHANGED <<session, attempts>>
  BY ReserveCases DEF MayOwn, Driving
<1>2. CASE Inserts(w)
  BY <1>1, <1>2, InsertKeeps
<1>3. ASSUME Finish(w) \/ Lookup(w, "reserve")
      PROVE  /\ worker' = [worker EXCEPT ![w] = worker'[w]]
             /\ worker'[w].pc \in WorkerPCs \ Driving
             /\ EpochIsPast(w)'
  <2>1. CASE Finish(w)
    <3>1. worker'[w] = IdleWorker /\ worker' = [worker EXCEPT ![w] = worker'[w]]
      BY <2>1 DEF Finish, IInv, WorkersTyped
    <3> QED
      BY <3>1 DEF IdleWorker, EpochIsPast, WorkerPCs, Driving
  <2>2. CASE Lookup(w, "reserve")
    <3>1. /\ worker' = [worker EXCEPT ![w] = worker'[w]]
          /\ SameRequest(worker[w], worker'[w]) /\ worker'[w].pc = "lookup"
      BY <2>2, LookupFields
    <3> QED
      BY <1>1, <3>1, EpochStaysPast DEF SameRequest, WorkerPCs, Driving
  <2> QED
    BY <1>3, <2>1, <2>2
<1>4. CASE turn' = RecoveredTurns /\ ledger' = RecoveredLedger
           /\ (Finish(w) \/ Lookup(w, "reserve"))
  BY <1>1, <1>3, <1>4, RecoveryKeeps
<1>5. CASE UNCHANGED <<turn, ledger>> /\ Lookup(w, "reserve")
  BY <1>1, <1>3, <1>5, BystanderMoves
<1> QED
  BY <1>2, <1>4, <1>5, ReserveCases

-----------------------------------------------------------------------------
(***************************************************************************)
(* The steps of a driver                                                   *)
(***************************************************************************)
\* As long as its chat goes on, a driver owns its row and knows it.
LEMMA DriverOwns ==
  ASSUME TInv, NEW w \in Workers, worker[w].pc \in Driving,
         NEW n \in TurnIds, n = Tid(w), Current(n)
  PROVE  /\ Exists(n) /\ turn[n].owner = w /\ turn[n].binding = worker[w].b
         /\ DriverFacts(worker[w], n) /\ RowFacts(n)
<1>1. ThreadFacts(w) /\ TableFacts
  BY DEF TInv
<1>2. Exists(n) /\ turn[n].owner = w /\ turn[n].binding = worker[w].b
  BY <1>1 DEF ThreadFacts, DrivesItsTurn
<1>3. DriverFacts(worker[w], n)
  BY <1>1, <1>2 DEF ThreadFacts, KnowsItsTurn
<1> QED
  BY <1>1, <1>2, <1>3 DEF TableFacts, RowsBacked

\* A driver that changes its row, or the attempts of its row, from local state
\* x to y.
LEMMA DriverActs ==
  ASSUME IInv, TInv, NEW w \in Workers, NEW x, NEW y, x = worker[w],
         worker' = [worker EXCEPT ![w] = y],
         UNCHANGED session, LedgerKept,
         SameRequest(x, y), x.pc \in Driving, y.pc \in Driving,
         NEW n \in TurnIds, n = Tid(w),
         \A t \in TurnIds :
           /\ turn'[t].owner = turn[t].owner /\ turn'[t].binding = turn[t].binding
           /\ Exists(t)' <=> Exists(t),
         \A t \in TurnIds \ {n} : Quiet(t),
         \A i \in DOMAIN ledger :
           \/ ledger'[i].calls = ledger[i].calls
           \/ x.pc = "call" /\ i = x.att,
         y.pc \in WithAttempt =>
           \/ x.pc \in WithAttempt /\ y.att = x.att
           \/ \A v \in Workers \ {w} :
                Holds(v) /\ (Lasting(worker[v].s) \/ Lasting(x.s))
                  => worker[v].att # y.att,
         TableFacts', HoldsItsAttempt(w)', RemembersItsChoice(y),
         Current(n) => DriverFacts(y, n)'
  PROVE  TInv'
<1>1. worker'[w] = y /\ worker' = [worker EXCEPT ![w] = worker'[w]]
  BY DEF IInv, WorkersTyped
<1>2. ThreadFacts(w)
  BY DEF TInv
<1>3. n = Tid(w)'
  BY <1>1 DEF Tid, SameRequest
<1>4. x.pc # "idle" /\ y.pc # "idle"
  BY DEF Driving
<1>5. Current(n)' <=> Current(n)
  BY DEF Current
<1>6. EpochIsPast(w)'
  BY <1>1, <1>2, <1>4 DEF ThreadFacts, EpochIsPast, SameRequest
<1>7. OwnsItsTurn(w)'
  BY <1>1, <1>2, <1>3 DEF ThreadFacts, OwnsItsTurn, MayOwn
<1>8. Current(n) => /\ Exists(n) /\ turn[n].owner = w
                    /\ turn[n].binding = worker[w].b
  BY DriverOwns
<1>9. DrivesItsTurn(w)'
  BY <1>1, <1>3, <1>5, <1>8 DEF DrivesItsTurn, SameRequest
<1>10. KnowsItsTurn(w)'
  <2>1. \A t \in TurnIds : turn'[t].owner = w => t = n
    BY <1>2 DEF ThreadFacts, OwnsItsTurn
  <2> QED
    BY <1>1, <1>5, <2>1 DEF KnowsItsTurn
<1>11. ThreadFacts(w)'
  BY <1>1, <1>6, <1>7, <1>9, <1>10 DEF ThreadFacts
<1>12. OthersRowsKept(w)
  BY <1>8 DEF OthersRowsKept
<1>13. Holds(w)' =>
         \/ /\ Holds(w) /\ worker'[w].att = worker[w].att
            /\ worker'[w].s = worker[w].s
         \/ \A v \in Workers \ {w} :
              Holds(v) /\ (Lasting(worker[v].s) \/ Lasting(worker'[w].s))
                => worker[v].att # worker'[w].att
  BY <1>1 DEF Holds, SameRequest
<1> QED
  BY <1>1, <1>11, <1>12, <1>13, ThreadStep

\* A driver that changes its row and leaves.
LEMMA DriverLeaves ==
  ASSUME IInv, TInv, NEW w \in Workers, worker[w].pc \in Driving,
         UNCHANGED <<session, attempts, ledger>>,
         NEW n \in TurnIds, n = Tid(w),
         NEW rows \in [TurnIds -> TurnRow], Leave(w, rows),
         \A t \in TurnIds \ {n} : rows[t] = turn[t],
         rows[n].owner = turn[n].owner, rows[n].binding = turn[n].binding,
         Exists(n) => rows[n].status # "absent",
         TableFacts'
  PROVE  TInv'
<1>1. turn' = Released(w, rows) /\ Finish(w)
  BY DEF Leave
<1>2. \A t \in TurnIds :
        /\ turn'[t].owner # w
        /\ \A v \in Workers \ {w} : turn'[t].owner = v <=> turn[t].owner = v
        /\ turn'[t].binding = turn[t].binding
        /\ Exists(t) => Exists(t)'
  BY <1>1, ReleasedRows DEF Exists
<1>3. \A t \in TurnIds \ {n} : Quiet(t)
  <2>1. \A t \in TurnIds \ {n} : SameRow(t)
    BY <1>1, ReleasedRows DEF SameRow
  <2> QED
    BY <2>1, SameRowIsQuiet
<1>4. Current(n) => turn[n].owner = w
  BY DriverOwns
<1>5. OthersRowsKept(w)
  BY <1>2, <1>3, <1>4 DEF OthersRowsKept
<1>6. LedgerKept
  BY DEF LedgerKept
<1> QED
  BY <1>1, <1>2, <1>5, <1>6, IdleFacts, ThreadStep

\* A step that changes one row in flight.
LEMMA RowMoves ==
  ASSUME IInv, TInv, UNCHANGED <<session, attempts, ledger>>,
         NEW n \in TurnIds, \A t \in TurnIds \ {n} : SameRow(t),
         Active(n), Exists(n)', turn'[n].kept = turn[n].kept,
         Current(n) => RowFacts(n)'
  PROVE  TableFacts'
<1>1. ~turn[n].kept /\ Exists(n) /\ turn[n].status # "answered"
  BY DEF TInv, TableFacts, KeptRows, Active, ActiveStatuses, Exists
<1>2. \A t \in TurnIds : (Current(t) \/ turn[t].kept) /\ RowFacts(t) => RowFacts(t)'
  BY <1>1, SameRowIsQuiet, QuietKeepsRowFacts
<1>3. LedgerKept
  BY DEF LedgerKept
<1> QED
  BY <1>1, <1>2, <1>3, RowsInPlace DEF SameRow, Exists

\* What does not depend on the row.
LEMMA SameAttempts ==
  ASSUME UNCHANGED <<attempts, ledger>>, NEW t \in TurnIds
  PROVE  /\ AttemptsOf(t)' = AttemptsOf(t) /\ (Unclear(t)' <=> Unclear(t))
         /\ \A g : /\ AttemptFor(t, g)' = AttemptFor(t, g)
                   /\ Succeeded(t, g)' <=> Succeeded(t, g)
BY DEF AttemptsOf, Unclear, AttemptFor, Succeeded

\* The row a status change makes.
LEMMA MovedRow ==
  ASSUME IInv, NEW n \in TurnIds, NEW to \in ActiveStatuses \cup TerminalStatuses
  PROVE  /\ Moved(n, to) \in [TurnIds -> TurnRow]
         /\ \A t \in TurnIds \ {n} : Moved(n, to)[t] = turn[t]
         /\ Moved(n, to)[n].status = to /\ Moved(n, to)[n].tool = turn[n].tool
         /\ Moved(n, to)[n].evidence = turn[n].evidence
         /\ Moved(n, to)[n].kept = turn[n].kept
         /\ Moved(n, to)[n].owner = turn[n].owner
         /\ Moved(n, to)[n].binding = turn[n].binding
<1>1. turn \in [TurnIds -> TurnRow] /\ turn[n] \in TurnRow
  BY DEF IInv, TablesTyped
<1> DEFINE r == [turn[n] EXCEPT !.status = to, !.lapsed = FALSE]
<1>2. /\ r \in TurnRow
      /\ r.status = to /\ r.tool = turn[n].tool
      /\ r.evidence = turn[n].evidence /\ r.kept = turn[n].kept
      /\ r.owner = turn[n].owner /\ r.binding = turn[n].binding
  BY <1>1 DEF TurnRow
<1>3. Moved(n, to) = [turn EXCEPT ![n] = r]
  BY DEF Moved
<1> HIDE DEF r
<1> QED
  BY <1>1, <1>2, <1>3

\* Between the plan and the answer a driver changes its row in flight, and goes
\* on to another of these steps, to the answer, or to the closing of the row.
GoesOn(y) ==
  \/ y.pc \in MidSteps \ {"to_querying"}
  \/ y.pc = "begin" /\ y.stage = "answering"
  \/ y.pc = "terminal" /\ y.to \notin {"answered", "outcome_unknown"}

LEMMA MidStepActs ==
  ASSUME IInv, TInv, NEW w \in Workers, NEW x, NEW y, x = worker[w],
         worker' = [worker EXCEPT ![w] = y],
         x.pc \in MidSteps, GoesOn(y), SameRequest(x, y),
         UNCHANGED <<session, attempts, ledger>>,
         NEW n \in TurnIds, n = Tid(w), Active(n), Exists(n)',
         \A t \in TurnIds \ {n} : turn'[t] = turn[t],
         turn'[n].owner = turn[n].owner, turn'[n].binding = turn[n].binding,
         turn'[n].kept = turn[n].kept,
         Current(n) => RowFacts(n)'
  PROVE  TInv'
<1>1. x.pc \in Driving /\ y.pc \in Driving /\ y.pc \notin WithAttempt
  BY MidStepsDrive DEF GoesOn, MidSteps, Driving, WorkerPCs, WithAttempt
<1>2. TableFacts'
  <2>1. \A t \in TurnIds \ {n} : SameRow(t)
    BY DEF SameRow
  <2> QED
    BY <2>1, RowMoves
<1>3. worker'[w] = y
  BY DEF IInv, WorkersTyped
<1>4. HoldsItsAttempt(w)'
  BY <1>1, <1>3 DEF HoldsItsAttempt, Holds, WithAttempt
<1>5. RemembersItsChoice(y)
  BY DEF RemembersItsChoice, GoesOn, MidSteps, InStage
<1>6. Current(n) => DriverFacts(y, n)'
  <2>1. ASSUME Current(n)
        PROVE  AttemptFor(n, "answering")' = {} /\ ~Unclear(n)'
    <3>1. DriverFacts(x, n)
      BY <1>1, <2>1, DriverOwns
    <3> QED
      BY <3>1, MidStepFacts, SameAttempts
  <2> QED
    BY <2>1 DEF DriverFacts, AttemptFacts, OutcomeFacts, NothingAsked,
                BeforeAnswering, InStage, GoesOn, MidSteps
<1>7. \A t \in TurnIds :
        /\ turn'[t].owner = turn[t].owner /\ turn'[t].binding = turn[t].binding
        /\ Exists(t)' <=> Exists(t)
  BY DEF Exists, Active, ActiveStatuses
<1>8. \A t \in TurnIds \ {n} : Quiet(t)
  BY SameRowIsQuiet DEF SameRow
<1>9. LedgerKept
  BY DEF LedgerKept
<1> QED
  BY <1>1, <1>2, <1>4, <1>5, <1>6, <1>7, <1>8, <1>9, DriverActs

LEMMA ToQueryingKeeps ==
  ASSUME IInv, TInv, NEW w \in Workers, NEW o \in Outcomes, ToQuerying(w, o)
  PROVE  TInv'
<1>1. /\ worker[w].pc = "to_querying" /\ worker[w].pc \in MidSteps \cap Driving
      /\ worker[w].pc # "idle"
      /\ UNCHANGED <<session, attempts, ledger>>
      /\ "execute" \in MidSteps \ {"to_querying"}
      /\ "rb_querying" \in MidSteps \ {"to_querying"}
  BY DEF ToQuerying, MidSteps, Driving, WorkerPCs
<1>2. PICK n \in TurnIds : n = Tid(w)
  BY <1>1, RequestHasTurnId
<1>3. PICK pc \in MidSteps \ {"to_querying"} : Go(w, pc)
  BY <1>1 DEF ToQuerying
<1>4. CASE UNCHANGED turn
  BY <1>1, <1>3, <1>4, MidStepGoes
<1>5. CASE MayMove(n, "planning", "querying") /\ turn' = Moved(n, "querying")
  <2>1. PICK x, y : /\ x = worker[w] /\ y = worker'[w]
    OBVIOUS
  <2>2. worker' = [worker EXCEPT ![w] = y] /\ y.pc = pc /\ SameRequest(x, y)
    BY <1>3, <2>1, GoRecord
  <2>3. /\ "querying" \in ActiveStatuses \cup TerminalStatuses
        /\ turn[n].status = "planning"
    BY <1>5 DEF ActiveStatuses, MayMove
  <2>4. /\ \A t \in TurnIds \ {n} : turn'[t] = turn[t]
        /\ turn'[n].status = "querying" /\ turn'[n].kept = turn[n].kept
        /\ turn'[n].owner = turn[n].owner /\ turn'[n].binding = turn[n].binding
    BY <1>5, <2>3, MovedRow
  <2>5. Active(n) /\ Exists(n)' /\ Active(n)'
    BY <2>3, <2>4 DEF Active, Exists, ActiveStatuses
  <2>6. ASSUME Current(n) PROVE RowFacts(n)'
    <3>1. DriverFacts(x, n)
      BY <1>1, <1>2, <2>1, <2>6, DriverOwns
    <3>2. n.p \notin Presets => Succeeded(n, "planning")'
      BY <1>1, <2>1, <2>5, <3>1, SameAttempts DEF DriverFacts
    <3> QED
      BY <2>4, <3>2 DEF RowFacts, TerminalStatuses
  <2>7. GoesOn(y)
    BY <2>2 DEF GoesOn
  <2> QED
    BY <1>1, <1>2, <2>1, <2>2, <2>4, <2>5, <2>6, <2>7, MidStepActs
<1> QED
  BY <1>2, <1>4, <1>5 DEF ToQuerying

LEMMA RecordQueryFailureKeeps ==
  ASSUME IInv, TInv, NEW w \in Workers, NEW o \in Outcomes, RecordQueryFailure(w, o)
  PROVE  TInv'
<1>1. /\ worker[w].pc = "store" /\ worker[w].pc \in MidSteps \cap Driving
      /\ worker[w].pc # "idle" /\ Close(w, "querying", "failed")
      /\ UNCHANGED <<session, attempts, ledger>>
      /\ "failed" \in TerminalStatuses \ {"answered", "outcome_unknown"}
  BY DEF RecordQueryFailure, MidSteps, Driving, WorkerPCs, TerminalStatuses
<1>2. PICK n \in TurnIds : n = Tid(w)
  BY <1>1, RequestHasTurnId
<1>3. CASE UNCHANGED turn
  BY <1>1, <1>3, MidStepCloses
<1>4. CASE ToolRunInsertable(n) /\ turn' = [turn EXCEPT ![n].tool = "failed"]
  <2>1. PICK x, y : /\ x = worker[w]
                    /\ y = [x EXCEPT !.pc = "terminal", !.from = "querying",
                                     !.to = "failed"]
    OBVIOUS
  <2>2. y.pc = "terminal" /\ y.to = "failed" /\ SameRequest(x, y)
    <3>1. x \in WorkerState
      BY <2>1 DEF IInv, WorkersTyped, Informed
    <3> QED
      BY <2>1, <3>1 DEF WorkerState, SameRequest
  <2>3. worker' = [worker EXCEPT ![w] = y]
    BY <1>1, <2>1 DEF Close, IInv, WorkersTyped
  <2>4. turn \in [TurnIds -> TurnRow] /\ turn[n] \in TurnRow
    BY DEF IInv, TablesTyped
  <2>5. /\ \A t \in TurnIds \ {n} : turn'[t] = turn[t]
        /\ turn'[n].status = turn[n].status /\ turn'[n].kept = turn[n].kept
        /\ turn'[n].owner = turn[n].owner /\ turn'[n].binding = turn[n].binding
    BY <1>4, <2>4 DEF TurnRow
  <2>6. turn[n].status = "querying"
    BY <1>4 DEF ToolRunInsertable
  <2>7. Active(n) /\ Exists(n)'
    BY <2>5, <2>6 DEF Active, Exists, ActiveStatuses
  <2>8. ASSUME Current(n) PROVE RowFacts(n)'
    <3>1. RowFacts(n)
      BY <1>1, <1>2, <2>8, DriverOwns
    <3>2. n.p \notin Presets => Succeeded(n, "planning")'
      BY <1>1, <2>6, <3>1, SameAttempts DEF RowFacts
    <3> QED
      BY <2>5, <2>6, <3>2 DEF RowFacts, TerminalStatuses
  <2>9. GoesOn(y)
    BY <2>2 DEF GoesOn
  <2> QED
    BY <1>1, <1>2, <2>1, <2>2, <2>3, <2>5, <2>7, <2>8, <2>9, MidStepActs
<1> QED
  BY <1>2, <1>3, <1>4 DEF RecordQueryFailure

\* The rows a committed result leaves behind.
StoredRows(n, to) == [Moved(n, to) EXCEPT ![n].tool = "succeeded"]

LEMMA StoredRow ==
  ASSUME IInv, NEW n \in TurnIds, NEW to \in ActiveStatuses \cup TerminalStatuses
  PROVE  /\ StoredRows(n, to) \in [TurnIds -> TurnRow]
         /\ \A t \in TurnIds \ {n} : StoredRows(n, to)[t] = turn[t]
         /\ StoredRows(n, to)[n].status = to
         /\ StoredRows(n, to)[n].tool = "succeeded"
         /\ StoredRows(n, to)[n].kept = turn[n].kept
         /\ StoredRows(n, to)[n].owner = turn[n].owner
         /\ StoredRows(n, to)[n].binding = turn[n].binding
<1>1. PICK rows : rows = Moved(n, to)
  OBVIOUS
<1>2. /\ rows \in [TurnIds -> TurnRow]
      /\ \A t \in TurnIds \ {n} : rows[t] = turn[t]
      /\ rows[n].status = to /\ rows[n].kept = turn[n].kept
      /\ rows[n].owner = turn[n].owner /\ rows[n].binding = turn[n].binding
  BY <1>1, MovedRow
<1>3. PICK r : r = [rows[n] EXCEPT !.tool = "succeeded"]
  OBVIOUS
<1>4. /\ r \in TurnRow /\ r.status = to /\ r.tool = "succeeded"
      /\ r.kept = turn[n].kept
      /\ r.owner = turn[n].owner /\ r.binding = turn[n].binding
  BY <1>2, <1>3 DEF TurnRow
<1>5. StoredRows(n, to) = [rows EXCEPT ![n] = r]
  BY <1>1, <1>3 DEF StoredRows
<1> QED
  BY <1>2, <1>4, <1>5

\* The result commits, and its acknowledgement arrives or is lost.
StoresResult(w, n, to) ==
  /\ turn[n].status = "querying"
  /\ \/ to = "answering" /\ BeginStage(w, "answering") /\ turn' = StoredRows(n, to)
     \/ Go(w, "rb_store") /\ turn' = StoredRows(n, to)
     \/ Leave(w, StoredRows(n, to))

LEMMA StoreResultCases ==
  ASSUME NEW w \in Workers, NEW o \in Outcomes, StoreResult(w, o),
         NEW n \in TurnIds, n = Tid(w)
  PROVE  /\ worker[w].pc = "store" /\ UNCHANGED <<session, attempts, ledger>>
         /\ \/ Go(w, "rb_store") /\ UNCHANGED turn
            \/ \E to \in {"answering", "clarification_required"} :
                 StoresResult(w, n, to)
<1>1. worker[w].pc = "store" /\ UNCHANGED <<session, attempts, ledger>>
  BY DEF StoreResult
<1>2. PICK to \in {"answering", "clarification_required"} :
        to = ResultStatus(worker[w].out)
  BY DEF ResultStatus
<1>3. CASE ToolRunInsertable(n) /\ MayMove(n, "querying", to) /\ o # "fail"
  <2>1. turn[n].status = "querying"
    BY <1>3 DEF MayMove
  <2>2. CASE o = "ok"
    <3>1. AfterStore(w) /\ turn' = RowsAfterStore(w, StoredRows(n, to))
      BY <1>2, <1>3, <2>2 DEF StoreResult, StoredRows
    <3> QED
      BY <1>1, <1>2, <2>1, <3>1
      DEF AfterStore, RowsAfterStore, Leave, StoresResult, ResultStatus
  <2>3. CASE o # "ok"
    <3>1. Go(w, "rb_store") /\ turn' = StoredRows(n, to)
      BY <1>2, <1>3, <2>3 DEF StoreResult, StoredRows
    <3> QED
      BY <1>1, <2>1, <3>1 DEF StoresResult
  <2> QED
    BY <2>2, <2>3
<1>4. CASE ~(ToolRunInsertable(n) /\ MayMove(n, "querying", to) /\ o # "fail")
  BY <1>1, <1>2, <1>4 DEF StoreResult
<1> QED
  BY <1>3, <1>4

LEMMA StoreResultKeeps ==
  ASSUME IInv, TInv, NEW w \in Workers, NEW o \in Outcomes, StoreResult(w, o)
  PROVE  TInv'
<1>1. /\ worker[w].pc = "store" /\ worker[w].pc \in MidSteps \cap Driving
      /\ worker[w].pc # "idle"
      /\ UNCHANGED <<session, attempts, ledger>>
      /\ "rb_store" \in MidSteps \ {"to_querying"}
  BY DEF StoreResult, MidSteps, Driving, WorkerPCs
<1>2. PICK n \in TurnIds : n = Tid(w)
  BY <1>1, RequestHasTurnId
<1>3. CASE Go(w, "rb_store") /\ UNCHANGED turn
  BY <1>1, <1>3, MidStepGoes
<1>4. ASSUME NEW to \in {"answering", "clarification_required"},
             StoresResult(w, n, to)
      PROVE  TInv'
  <2>1. turn[n].status = "querying" /\ Active(n) /\ Exists(n)
    BY <1>4 DEF StoresResult, Active, ActiveStatuses, Exists
  <2>2. to \in ActiveStatuses \cup TerminalStatuses
    BY DEF ActiveStatuses, TerminalStatuses
  <2>3. PICK rows : rows = StoredRows(n, to)
    OBVIOUS
  <2>4. /\ rows \in [TurnIds -> TurnRow]
        /\ \A t \in TurnIds \ {n} : rows[t] = turn[t]
        /\ rows[n].status = to /\ rows[n].tool = "succeeded"
        /\ rows[n].kept = turn[n].kept /\ rows[n].owner = turn[n].owner
        /\ rows[n].binding = turn[n].binding
    BY <2>2, <2>3, StoredRow
  <2>5. ASSUME Current(n), turn'[n].status = to, turn'[n].tool = "succeeded"
        PROVE  RowFacts(n)'
    <3>1. RowFacts(n) /\ DriverFacts(worker[w], n)
      BY <1>1, <1>2, <2>5, DriverOwns
    <3>2. ~Unclear(n)' /\ (n.p \notin Presets => Succeeded(n, "planning")')
      BY <1>1, <2>1, <3>1, MidStepFacts, SameAttempts DEF RowFacts
    <3> QED
      BY <2>5, <3>2 DEF RowFacts, TerminalStatuses
  <2>6. ASSUME turn' = rows, NEW y, worker' = [worker EXCEPT ![w] = y],
               GoesOn(y), SameRequest(worker[w], y)
        PROVE  TInv'
    <3>1. PICK x : x = worker[w]
      OBVIOUS
    <3>2. Exists(n)' /\ (Current(n) => RowFacts(n)')
      BY <2>4, <2>5, <2>6 DEF Exists
    <3> QED
      BY <1>1, <1>2, <2>1, <2>4, <2>6, <3>1, <3>2, MidStepActs
  <2>7. CASE BeginStage(w, "answering") /\ turn' = rows
    <3>1. PICK x, y : /\ x = worker[w]
                      /\ y = [x EXCEPT !.pc = "begin", !.stage = "answering"]
      OBVIOUS
    <3>2. x \in WorkerState
      BY <3>1 DEF IInv, WorkersTyped, Informed
    <3>3. /\ y.pc = "begin" /\ y.stage = "answering" /\ SameRequest(worker[w], y)
      BY <3>1, <3>2 DEF WorkerState, SameRequest
    <3>4. worker' = [worker EXCEPT ![w] = y]
      BY <2>7, <3>1 DEF BeginStage, IInv, WorkersTyped
    <3> QED
      BY <2>6, <2>7, <3>3, <3>4 DEF GoesOn
  <2>8. CASE Go(w, "rb_store") /\ turn' = rows
    <3>1. PICK y : y = worker'[w]
      OBVIOUS
    <3>2. /\ worker' = [worker EXCEPT ![w] = y] /\ y.pc = "rb_store"
          /\ SameRequest(worker[w], y)
      BY <2>8, <3>1, GoRecord
    <3> QED
      BY <1>1, <2>6, <2>8, <3>2 DEF GoesOn
  <2>9. CASE Leave(w, rows)
    <3>1. \A t \in TurnIds : /\ turn'[t].status = rows[t].status
                             /\ turn'[t].tool = rows[t].tool
                             /\ turn'[t].evidence = rows[t].evidence
                             /\ turn'[t].kept = rows[t].kept
                             /\ turn'[t].binding = rows[t].binding
      BY <2>4, <2>9, ReleasedRows DEF Leave
    <3>2. \A t \in TurnIds \ {n} : SameRow(t)
      BY <2>4, <3>1 DEF SameRow
    <3>3. Exists(n)' /\ turn'[n].kept = turn[n].kept /\ (Current(n) => RowFacts(n)')
      BY <2>4, <2>5, <3>1 DEF Exists
    <3>4. TableFacts'
      BY <1>1, <2>1, <3>2, <3>3, RowMoves
    <3>5. rows[n].status # "absent"
      BY <2>4
    <3> QED
      BY <1>1, <1>2, <2>4, <2>9, <3>4, <3>5, DriverLeaves
  <2> QED
    BY <1>4, <2>3, <2>7, <2>8, <2>9 DEF StoresResult
<1> QED
  BY <1>2, <1>3, <1>4, StoreResultCases

\* A driver that closes its row, in flight until now, and leaves.
LEMMA ClosingKeeps ==
  ASSUME IInv, TInv, NEW w \in Workers, worker[w].pc \in Driving,
         UNCHANGED <<session, attempts, ledger>>,
         NEW n \in TurnIds, n = Tid(w), Active(n),
         NEW rows \in [TurnIds -> TurnRow], Leave(w, rows),
         \A t \in TurnIds \ {n} : rows[t] = turn[t],
         rows[n].owner = turn[n].owner, rows[n].binding = turn[n].binding,
         rows[n].kept = turn[n].kept, rows[n].status # "absent",
         turn'[n].status = rows[n].status /\ turn'[n].tool = rows[n].tool
           /\ turn'[n].evidence = rows[n].evidence /\ Current(n) => RowFacts(n)'
  PROVE  TInv'
<1>1. \A t \in TurnIds : /\ turn'[t].status = rows[t].status
                         /\ turn'[t].tool = rows[t].tool
                         /\ turn'[t].evidence = rows[t].evidence
                         /\ turn'[t].kept = rows[t].kept
                         /\ turn'[t].binding = rows[t].binding
  BY ReleasedRows DEF Leave
<1>2. \A t \in TurnIds \ {n} : SameRow(t)
  BY <1>1 DEF SameRow
<1>3. Exists(n)' /\ turn'[n].kept = turn[n].kept /\ (Current(n) => RowFacts(n)')
  BY <1>1 DEF Exists
<1>4. TableFacts'
  BY <1>2, <1>3, RowMoves
<1> QED
  BY <1>4, DriverLeaves

LEMMA CompleteKeeps ==
  ASSUME IInv, TInv, NEW w \in Workers, NEW o \in Outcomes, Complete(w, o)
  PROVE  TInv'
<1>1. /\ worker[w].pc = "complete" /\ worker[w].pc \in Driving
      /\ worker[w].pc # "idle"
      /\ UNCHANGED <<session, attempts, ledger>>
  BY DEF Complete, Driving, WorkerPCs
<1>2. PICK n \in TurnIds : n = Tid(w)
  BY <1>1, RequestHasTurnId
<1>3. CASE Leave(w, turn)
  BY <1>1, <1>3, LeavingKeeps
<1>4. CASE /\ MayMove(n, "answering", "answered")
           /\ Leave(w, [Moved(n, "answered") EXCEPT ![n].evidence = TRUE])
  <2>1. turn[n].status = "answering" /\ Active(n)
    BY <1>4 DEF MayMove, Active, ActiveStatuses
  <2>2. PICK moved, rows : /\ moved = Moved(n, "answered")
                           /\ rows = [moved EXCEPT ![n].evidence = TRUE]
    OBVIOUS
  <2>3. "answered" \in ActiveStatuses \cup TerminalStatuses
    BY DEF TerminalStatuses
  <2>4. /\ moved \in [TurnIds -> TurnRow]
        /\ \A t \in TurnIds \ {n} : moved[t] = turn[t]
        /\ moved[n].status = "answered" /\ moved[n].tool = turn[n].tool
        /\ moved[n].kept = turn[n].kept
        /\ moved[n].owner = turn[n].owner /\ moved[n].binding = turn[n].binding
    BY <2>2, <2>3, MovedRow
  <2>5. PICK r : r = [moved[n] EXCEPT !.evidence = TRUE]
    OBVIOUS
  <2>6. /\ r \in TurnRow /\ r.status = "answered" /\ r.tool = turn[n].tool
        /\ r.evidence = TRUE /\ r.kept = turn[n].kept
        /\ r.owner = turn[n].owner /\ r.binding = turn[n].binding
    BY <2>4, <2>5 DEF TurnRow
  <2>7. rows = [moved EXCEPT ![n] = r]
    BY <2>2, <2>5
  <2>8. /\ rows \in [TurnIds -> TurnRow] /\ rows[n] = r
        /\ \A t \in TurnIds \ {n} : rows[t] = turn[t]
    BY <2>4, <2>6, <2>7
  <2>9. ASSUME Current(n), turn'[n].status = "answered",
               turn'[n].tool = turn[n].tool, turn'[n].evidence
        PROVE  RowFacts(n)'
    <3>1. RowFacts(n) /\ DriverFacts(worker[w], n) /\ TableFacts
      BY <1>1, <1>2, <2>9, DriverOwns DEF TInv
    <3>2. /\ turn[n].tool = "succeeded" /\ Succeeded(n, "answering")
          /\ n.p \notin Presets => Succeeded(n, "planning")
          /\ ~Unclear(n)
      BY <1>1, <2>1, <3>1 DEF RowFacts, DriverFacts, OutcomeFacts
    <3>3. ASSUME NEW i \in AttemptsOf(n) PROVE ledger[i].status = "succeeded"
      <4>1. i \in attempts /\ i \in DOMAIN ledger /\ ledger[i].t = n
        BY DEF AttemptsOf, IInv, TablesTyped
      <4>2. ledger[i].stage \in Stages
        BY <4>1, EntriesTyped DEF LedgerRow
      <4>3. Succeeded(n, ledger[i].stage)
        BY <3>1, <3>2, <4>1, <4>2 DEF TableFacts, PresetsSkipPlanning, Stages
      <4> QED
        BY <3>1, <4>1, <4>3
        DEF Succeeded, AttemptFor, AttemptsOf, TableFacts, OneAttemptPerStage
    <3> QED
      BY <1>1, <2>9, <3>2, <3>3, SameAttempts DEF RowFacts, TerminalStatuses
  <2>10. Leave(w, rows)
    BY <1>4, <2>2
  <2>11. /\ rows[n].owner = turn[n].owner /\ rows[n].binding = turn[n].binding
         /\ rows[n].kept = turn[n].kept /\ rows[n].status # "absent"
         /\ rows[n].status = "answered" /\ rows[n].tool = turn[n].tool
         /\ rows[n].evidence
    BY <2>6, <2>8
  <2> QED
    BY <1>1, <1>2, <2>1, <2>8, <2>9, <2>10, <2>11, ClosingKeeps
<1> QED
  BY <1>2, <1>3, <1>4 DEF Complete

LEMMA TerminalKeeps ==
  ASSUME IInv, TInv, NEW w \in Workers, NEW o \in Outcomes, Terminal(w, o)
  PROVE  TInv'
<1>1. /\ worker[w].pc = "terminal" /\ worker[w].pc \in Driving
      /\ worker[w].pc # "idle"
      /\ UNCHANGED <<session, attempts, ledger>>
  BY DEF Terminal, Driving, WorkerPCs
<1>2. PICK n \in TurnIds : n = Tid(w)
  BY <1>1, RequestHasTurnId
<1>3. CASE Leave(w, turn)
  BY <1>1, <1>3, LeavingKeeps
<1>4. CASE /\ MayMove(n, worker[w].from, worker[w].to)
           /\ Leave(w, Moved(n, worker[w].to))
  <2>1. PICK to : to = worker[w].to
    OBVIOUS
  <2>2. Active(n) /\ to \in TerminalStatuses \ {"answered"}
    <3>1. to \in {"-"} \cup TerminalStatuses
      BY <2>1 DEF IInv, WorkersTyped, Informed, WorkerState
    <3>2. to # "answered"
      BY <1>1, <2>1 DEF TInv, ThreadFacts, RemembersItsChoice
    <3> QED
      BY <1>4, <2>1, <3>1, <3>2 DEF MayMove, AllowedEdges, Active, ActiveStatuses
  <2>3. PICK rows : rows = Moved(n, to)
    OBVIOUS
  <2>4. /\ rows \in [TurnIds -> TurnRow] /\ rows[n].status = to
        /\ \A t \in TurnIds \ {n} : rows[t] = turn[t]
        /\ rows[n].owner = turn[n].owner /\ rows[n].binding = turn[n].binding
        /\ rows[n].kept = turn[n].kept /\ rows[n].status # "absent"
    BY <2>2, <2>3, MovedRow DEF TerminalStatuses
  <2>5. ASSUME Current(n), turn'[n].status = to
        PROVE  RowFacts(n)'
    <3>1. to = "outcome_unknown" <=> Unclear(n)
      BY <1>1, <1>2, <2>1, <2>2, <2>5, DriverOwns DEF DriverFacts, OutcomeFacts
    <3> QED
      BY <1>1, <2>2, <2>5, <3>1, SameAttempts DEF RowFacts, TerminalStatuses
  <2>6. Leave(w, rows)
    BY <1>4, <2>1, <2>3
  <2> QED
    BY <1>1, <1>2, <2>2, <2>4, <2>5, <2>6, ClosingKeeps
<1> QED
  BY <1>2, <1>3, <1>4 DEF Terminal

-----------------------------------------------------------------------------
(***************************************************************************)
(* Provider attempts                                                       *)
(***************************************************************************)
\* A turn of a lasting session that has a row is the current one.
LEMMA RowIsCurrent ==
  ASSUME TInv, NEW t \in TurnIds, Exists(t), Lasting(t.s)
  PROVE  Current(t)
BY DEF TInv, TableFacts, DemoRowsAreCurrent, Lasting, Current

LEMMA CallWithFields ==
  ASSUME IInv, NEW w \in Workers, NEW i, CallWith(w, i)
  PROVE  \E x, y : /\ x = worker[w] /\ worker' = [worker EXCEPT ![w] = y]
                   /\ worker'[w] = y /\ SameRequest(x, y)
                   /\ y.pc = "call" /\ y.att = i /\ y.stage = x.stage
<1>1. PICK x, y : x = worker[w] /\ y = [x EXCEPT !.pc = "call", !.att = i]
  OBVIOUS
<1>2. x \in WorkerState
  BY <1>1 DEF IInv, WorkersTyped, Informed
<1>3. worker' = [worker EXCEPT ![w] = y] /\ worker'[w] = y
  BY <1>1 DEF CallWith, IInv, WorkersTyped
<1>4. SameRequest(x, y) /\ y.pc = "call" /\ y.att = i /\ y.stage = x.stage
  BY <1>1, <1>2 DEF WorkerState, SameRequest
<1> QED
  BY <1>1, <1>3, <1>4

LEMMA AdoptAttemptKeeps ==
  ASSUME IInv, TInv, NEW w \in Workers, AdoptAttempt(w)
  PROVE  TInv'
<1>1. /\ worker[w].pc = "rb_begin" /\ worker[w].pc \in Driving
      /\ worker[w].pc # "idle" /\ worker[w].stage \in Stages
      /\ UNCHANGED <<session, attempts, ledger>>
  BY DEF AdoptAttempt, Driving, WorkerPCs, IInv, WorkersTyped, Informed, InStage
<1>2. PICK n \in TurnIds : n = Tid(w)
  BY <1>1, RequestHasTurnId
<1>3. CASE Leave(w, turn)
  BY <1>1, <1>3, LeavingKeeps
<1>4. ASSUME NEW i \in AttemptFor(n, worker[w].stage), CallWith(w, i), UNCHANGED turn
      PROVE  TInv'
  <2>1. PICK x, y : /\ x = worker[w] /\ worker' = [worker EXCEPT ![w] = y]
                    /\ worker'[w] = y /\ SameRequest(x, y)
                    /\ y.pc = "call" /\ y.att = i /\ y.stage = x.stage
    BY <1>4, CallWithFields
  <2>2. /\ worker' = [worker EXCEPT ![w] = y] /\ SameRequest(x, y)
        /\ y.pc = "call" /\ y.att = i /\ y.stage = x.stage
    BY <2>1
  <2>3. /\ i \in attempts /\ ledger[i].t = n /\ ledger[i].stage = x.stage
        /\ i \in DOMAIN ledger /\ Exists(n) /\ n.s = x.s
    BY <1>2, <2>1 DEF AttemptFor, AttemptsOf, IInv, TablesTyped, TInv, TableFacts,
                      AttemptsHaveTurns, Tid
  <2>4. Lasting(x.s) => Current(n)
    BY <2>3, RowIsCurrent
  <2>5. Current(n) => turn[n].owner = w /\ DriverFacts(x, n)
    BY <1>1, <1>2, <2>1, DriverOwns
  <2>6. ASSUME NEW v \in Workers \ {w}, Holds(v), worker[v].att = i,
               Lasting(worker[v].s) \/ Lasting(x.s)
        PROVE  FALSE
    <3>1. Tid(v) = n /\ worker[v].pc \in Driving
      BY <2>3, <2>6 DEF TInv, ThreadFacts, HoldsItsAttempt, Holds, WithAttempt,
                        Driving, WorkerPCs
    <3>2. worker[v].s = x.s
      BY <2>3, <3>1 DEF Tid
    <3>3. turn[n].owner = v
      BY <2>4, <2>6, <3>1, <3>2, DriverOwns
    <3> QED
      BY <2>4, <2>5, <2>6, <3>2, <3>3
  <2>7. worker'[w] = y
    BY <2>1
  <2>8. Tid(w)' = n /\ (Lasting(x.s)' <=> Lasting(x.s))
    BY <1>1, <1>2, <2>1, <2>2, <2>7 DEF Tid, SameRequest, Lasting
  <2>9. HoldsItsAttempt(w)'
    BY <1>1, <1>4, <2>1, <2>2, <2>3, <2>4, <2>5, <2>7, <2>8
    DEF HoldsItsAttempt, Holds, WithAttempt, SameRequest, DriverFacts, AttemptFacts
  <2>10. RemembersItsChoice(y)
    BY <1>1, <2>1, <2>2
    DEF TInv, ThreadFacts, RemembersItsChoice, InStage, SameRequest
  <2>11. ASSUME Current(n) PROVE DriverFacts(y, n)'
    <3>1. DriverFacts(x, n) /\ Quiet(n)
      BY <1>1, <1>4, <2>5, <2>11 DEF Quiet, SameEntries, AttemptsOf
    <3>2. DriverFacts(y, n)
      BY <1>1, <1>4, <2>1, <2>2, <3>1
      DEF DriverFacts, AttemptFacts, OutcomeFacts, NothingAsked, BeforeAnswering, InStage
    <3> QED
      BY <3>1, <3>2, QuietKeepsDriverFacts
  <2>12. \A t \in TurnIds : SameRow(t) /\ Quiet(t)
    BY <1>1, <1>4, SameRowIsQuiet DEF SameRow
  <2>13. TableFacts' /\ LedgerKept
    BY <1>1, <2>12, TablesStay DEF LedgerKept
  <2>14. x.pc \in Driving /\ y.pc \in Driving
    BY <1>1, <2>1, <2>2 DEF Driving, WorkerPCs
  <2>15. \A t \in TurnIds :
           /\ turn'[t].owner = turn[t].owner /\ turn'[t].binding = turn[t].binding
           /\ Exists(t)' <=> Exists(t)
    BY <1>4 DEF Exists
  <2> QED
    BY <1>1, <1>2, <2>1, <2>2, <2>6, <2>9, <2>10, <2>11, <2>12, <2>13, <2>14, <2>15,
       DriverActs
<1> QED
  BY <1>2, <1>3, <1>4 DEF AdoptAttempt

\* A new attempt of a turn in its stage, nothing asked in it before.
Asks(w, n) ==
  LET id == Len(ledger) + 1
  IN /\ turn[n].status = worker[w].stage /\ AttemptFor(n, worker[w].stage) = {}
     /\ attempts' = attempts \cup {id}
     /\ ledger' = Append(ledger, [t |-> n, stage |-> worker[w].stage, calls |-> 0,
                                  status |-> "started"])
     /\ CallWith(w, id) \/ Go(w, "rb_begin")

LEMMA BeginCases ==
  ASSUME NEW w \in Workers, NEW o \in Outcomes, BeginAttempt(w, o),
         NEW n \in TurnIds, n = Tid(w)
  PROVE  /\ worker[w].pc = "begin" /\ UNCHANGED <<session, turn>>
         /\ \/ Asks(w, n)
            \/ /\ UNCHANGED <<attempts, ledger>>
               /\ Close(w, worker[w].stage, "failed") \/ Go(w, "rb_begin")
BY DEF BeginAttempt, Asks, ParentInStage

LEMMA NewEntry ==
  ASSUME IInv, TInv, NEW w \in Workers, worker[w].pc = "begin",
         NEW n \in TurnIds, Asks(w, n)
  PROVE  \E id \in Nat :
           /\ id \notin DOMAIN ledger /\ (DOMAIN ledger)' = DOMAIN ledger \cup {id}
           /\ attempts' = attempts \cup {id}
           /\ \A i \in DOMAIN ledger : ledger'[i] = ledger[i]
           /\ ledger'[id].t = n /\ ledger'[id].stage = worker[w].stage
           /\ ledger'[id].calls = 0 /\ ledger'[id].status = "started"
           /\ CallWith(w, id) \/ Go(w, "rb_begin")
<1>1. PICK e : e = [t |-> n, stage |-> worker[w].stage, calls |-> 0,
                    status |-> "started"]
  OBVIOUS
<1>2. worker[w].stage \in Stages
  BY DEF IInv, WorkersTyped, Informed, InStage
<1>3. /\ e \in LedgerRow /\ e.t = n /\ e.stage = worker[w].stage
      /\ e.calls = 0 /\ e.status = "started"
  BY <1>1, <1>2 DEF LedgerRow
<1>4. ledger \in Seq(LedgerRow) /\ ledger' = Append(ledger, e)
  BY <1>1 DEF IInv, TablesTyped, Asks
<1>5. PICK id : id = Len(ledger) + 1
  OBVIOUS
<1>6. /\ id \in Nat /\ id \notin DOMAIN ledger
      /\ (DOMAIN ledger)' = DOMAIN ledger \cup {id}
      /\ \A i \in DOMAIN ledger : ledger'[i] = ledger[i]
      /\ ledger'[id] = e
  BY <1>3, <1>4, <1>5
<1> QED
  BY <1>3, <1>5, <1>6 DEF Asks

\* What a new entry leaves alone, and what it adds.
LEMMA NewEntryView ==
  ASSUME IInv, NEW n \in TurnIds, NEW id \in Nat, NEW stage,
         id \notin DOMAIN ledger, (DOMAIN ledger)' = DOMAIN ledger \cup {id},
         attempts' = attempts \cup {id},
         \A i \in DOMAIN ledger : ledger'[i] = ledger[i],
         ledger'[id].t = n, ledger'[id].stage = stage,
         ledger'[id].status = "started", UNCHANGED turn
  PROVE  /\ \A t \in TurnIds \ {n} : Quiet(t)
         /\ AttemptsOf(n)' = AttemptsOf(n) \cup {id}
         /\ AttemptFor(n, stage)' = AttemptFor(n, stage) \cup {id}
         /\ \A g : g # stage => AttemptFor(n, g)' = AttemptFor(n, g)
         /\ \A g : Succeeded(n, g) => Succeeded(n, g)'
         /\ Unclear(n)' <=> Unclear(n)
<1>1. attempts \subseteq DOMAIN ledger
  BY DEF IInv, TablesTyped
<1>2. \A t \in TurnIds \ {n} : Quiet(t)
  BY <1>1 DEF Quiet, SameEntries, AttemptsOf
<1>3. /\ AttemptsOf(n)' = AttemptsOf(n) \cup {id}
      /\ \A i \in AttemptsOf(n) : ledger'[i] = ledger[i]
  BY <1>1 DEF AttemptsOf
<1>4. /\ AttemptFor(n, stage)' = AttemptFor(n, stage) \cup {id}
      /\ \A g : g # stage => AttemptFor(n, g)' = AttemptFor(n, g)
  BY <1>3 DEF AttemptFor
<1>5. Unclear(n)' <=> Unclear(n)
  BY <1>3 DEF Unclear
<1>6. \A g : Succeeded(n, g) => Succeeded(n, g)'
  BY <1>3, <1>4 DEF Succeeded, AttemptFor
<1> QED
  BY <1>2, <1>3, <1>4, <1>5, <1>6

LEMMA NewEntryKeepsTables ==
  ASSUME IInv, TInv, UNCHANGED <<session, turn>>,
         NEW n \in TurnIds, NEW id \in Nat, NEW stage \in Stages,
         id \notin DOMAIN ledger, (DOMAIN ledger)' = DOMAIN ledger \cup {id},
         attempts' = attempts \cup {id},
         \A i \in DOMAIN ledger : ledger'[i] = ledger[i],
         ledger'[id].t = n, ledger'[id].stage = stage,
         ledger'[id].calls = 0, ledger'[id].status = "started",
         turn[n].status = stage, AttemptFor(n, stage) = {},
         stage = "planning" => n.p \notin Presets
  PROVE  TableFacts'
<1>1. TableFacts /\ attempts \subseteq DOMAIN ledger
  BY DEF TInv, IInv, TablesTyped
<1>2. /\ \A t \in TurnIds \ {n} : Quiet(t)
      /\ \A g : Succeeded(n, g) => Succeeded(n, g)'
  BY NewEntryView
<1>3. KeptRows' /\ DemoRowsAreCurrent'
  BY <1>1 DEF TableFacts, KeptRows, DemoRowsAreCurrent, Exists
<1>4. AttemptsHaveTurns'
  BY <1>1 DEF TableFacts, AttemptsHaveTurns, Exists, Stages
<1>5. OneAttemptPerStage'
  <2>1. \A i \in attempts : ~(ledger[i].t = n /\ ledger[i].stage = stage)
    BY DEF AttemptFor, AttemptsOf
  <2> QED
    BY <1>1, <2>1 DEF TableFacts, OneAttemptPerStage
<1>6. PresetsSkipPlanning' /\ PaidCallHappensOnce'
  BY <1>1 DEF TableFacts, PresetsSkipPlanning, PaidCallHappensOnce, Lasting
<1>7. ASSUME NEW t \in TurnIds, Current(t)' \/ turn'[t].kept
      PROVE  RowFacts(t)'
  <2>1. RowFacts(t)
    BY <1>1, <1>7 DEF TableFacts, RowsBacked, Current
  <2>2. CASE t # n
    BY <1>2, <2>1, <2>2, QuietKeepsRowFacts
  <2>3. CASE t = n
    BY <1>2, <2>1, <2>3 DEF RowFacts, Stages, TerminalStatuses
  <2> QED
    BY <2>2, <2>3
<1>8. RowsBacked'
  BY <1>7 DEF RowsBacked
<1> QED
  BY <1>3, <1>4, <1>5, <1>6, <1>8 DEF TableFacts

LEMMA AskingKeeps ==
  ASSUME IInv, TInv, NEW w \in Workers, worker[w].pc = "begin",
         UNCHANGED <<session, turn>>, NEW n \in TurnIds, n = Tid(w), Asks(w, n)
  PROVE  TInv'
<1>1. PICK id \in Nat :
        /\ id \notin DOMAIN ledger /\ (DOMAIN ledger)' = DOMAIN ledger \cup {id}
        /\ attempts' = attempts \cup {id}
        /\ \A i \in DOMAIN ledger : ledger'[i] = ledger[i]
        /\ ledger'[id].t = n /\ ledger'[id].stage = worker[w].stage
        /\ ledger'[id].calls = 0 /\ ledger'[id].status = "started"
        /\ CallWith(w, id) \/ Go(w, "rb_begin")
  BY NewEntry
<1>2. PICK x, y : /\ x = worker[w] /\ worker' = [worker EXCEPT ![w] = y]
                  /\ worker'[w] = y /\ SameRequest(x, y) /\ y.stage = x.stage
                  /\ y.pc = "rb_begin" \/ (y.pc = "call" /\ y.att = id)
  BY <1>1, CallWithFields, GoMoves
<1>3. /\ x.pc = "begin" /\ x.stage \in Stages
      /\ turn[n].status = x.stage /\ AttemptFor(n, x.stage) = {}
      /\ x.stage = "planning" => n.p \notin Presets
      /\ ledger'[id].stage = x.stage
  BY <1>1, <1>2 DEF Asks, IInv, WorkersTyped, Informed, InStage, TInv, ThreadFacts,
                    RemembersItsChoice, Tid
<1>4. /\ \A t \in TurnIds \ {n} : Quiet(t)
      /\ AttemptFor(n, x.stage)' = AttemptFor(n, x.stage) \cup {id}
      /\ \A g : g # x.stage => AttemptFor(n, g)' = AttemptFor(n, g)
      /\ Unclear(n)' <=> Unclear(n)
  BY <1>1, <1>3, NewEntryView
<1>5. TableFacts'
  BY <1>1, <1>3, NewEntryKeepsTables
<1>6. LedgerKept
  BY <1>1 DEF LedgerKept
<1>7. Active(n) /\ Active(n)'
  BY <1>3 DEF Active, ActiveStatuses, Stages
<1>8. HoldsItsAttempt(w)'
  <2>1. Tid(w)' = n
    BY <1>2 DEF Tid, SameRequest
  <2> QED
    BY <1>1, <1>2, <1>3, <2>1 DEF HoldsItsAttempt, Holds, WithAttempt
<1>9. RemembersItsChoice(y)
  BY <1>2, <1>3 DEF TInv, ThreadFacts, RemembersItsChoice, InStage, SameRequest
<1>10. ASSUME Current(n) PROVE DriverFacts(y, n)'
  <2>1. DriverFacts(x, n)
    <3>1. worker[w].pc \in Driving
      BY DEF Driving, WorkerPCs
    <3> QED
      BY <1>2, <1>10, <3>1, DriverOwns
  <2>2. ~Unclear(n)' /\ AttemptFor(n, x.stage)' = {id}
    BY <1>3, <1>4, <1>7, <2>1 DEF DriverFacts, OutcomeFacts
  <2>3. x.stage = "planning" => AttemptFor(n, "answering")' = {}
    BY <1>3, <1>4, <2>1 DEF DriverFacts, BeforeAnswering, InStage
  <2>4. Pending(id)'
    BY <1>1, <1>7 DEF Pending
  <2> QED
    BY <1>1, <1>2, <1>3, <2>2, <2>3, <2>4
    DEF DriverFacts, AttemptFacts, OutcomeFacts, NothingAsked, BeforeAnswering, InStage
<1>11. y.pc \in WithAttempt =>
         \A v \in Workers \ {w} :
           Holds(v) /\ (Lasting(worker[v].s) \/ Lasting(x.s))
             => worker[v].att # y.att
  BY <1>1, <1>2 DEF WithAttempt, Holds, IInv, WorkersTyped, Informed
<1>12. x.pc \in Driving /\ y.pc \in Driving
  BY <1>2, <1>3 DEF Driving, WorkerPCs
<1>13. \A t \in TurnIds :
         /\ turn'[t].owner = turn[t].owner /\ turn'[t].binding = turn[t].binding
         /\ Exists(t)' <=> Exists(t)
  BY DEF Exists
<1>14. \A i \in DOMAIN ledger : ledger'[i].calls = ledger[i].calls
  BY <1>1
<1> QED
  BY <1>2, <1>4, <1>5, <1>6, <1>8, <1>9, <1>10, <1>11, <1>12, <1>13, <1>14, DriverActs

LEMMA BeginAttemptKeeps ==
  ASSUME IInv, TInv, NEW w \in Workers, NEW o \in Outcomes, BeginAttempt(w, o)
  PROVE  TInv'
<1>1. worker[w].pc = "begin" /\ worker[w].pc \in Driving /\ worker[w].pc # "idle"
  BY DEF BeginAttempt, Driving, WorkerPCs
<1>2. PICK n \in TurnIds : n = Tid(w)
  BY <1>1, RequestHasTurnId
<1>3. CASE UNCHANGED <<session, turn>> /\ Asks(w, n)
  BY <1>1, <1>2, <1>3, AskingKeeps
<1>4. CASE UNCHANGED <<session, turn, attempts, ledger>>
           /\ Close(w, worker[w].stage, "failed")
  <2>1. \A t \in TurnIds : DriverFacts(worker[w], t) /\ Active(t) => ~Unclear(t)
    BY <1>1 DEF DriverFacts, OutcomeFacts
  <2> QED
    BY <1>1, <1>4, <2>1, CloseKeeps
<1>5. CASE UNCHANGED <<session, turn, attempts, ledger>> /\ Go(w, "rb_begin")
  <2>1. PICK x, y : /\ x = worker[w] /\ worker' = [worker EXCEPT ![w] = y]
                    /\ SameRequest(x, y) /\ y.stage = x.stage /\ y.pc = "rb_begin"
    BY <1>5, GoMoves
  <2>2. RemembersItsChoice(y)
    BY <1>1, <2>1 DEF TInv, ThreadFacts, RemembersItsChoice, InStage, SameRequest
  <2>3. \A t \in TurnIds : DriverFacts(x, t) => DriverFacts(y, t)
    BY <1>1, <2>1 DEF DriverFacts, AttemptFacts, OutcomeFacts, NothingAsked,
                      BeforeAnswering, InStage
  <2>4. MayOwn(x) /\ x.pc \in Driving /\ y.pc \in Driving \ WithAttempt /\ y.pc # "call"
    BY <1>1, <2>1 DEF MayOwn, Driving, WorkerPCs, WithAttempt
  <2> QED
    BY <1>5, <2>1, <2>2, <2>3, <2>4, DriverMoves
<1> QED
  BY <1>2, <1>3, <1>4, <1>5, BeginCases

\* One entry of the ledger changes its calls or its status.
EntryMoves(i) ==
  /\ UNCHANGED <<session, turn, attempts>> /\ (DOMAIN ledger)' = DOMAIN ledger
  /\ \A j \in DOMAIN ledger \ {i} : ledger'[j] = ledger[j]
  /\ ledger'[i].t = ledger[i].t /\ ledger'[i].stage = ledger[i].stage

LEMMA EntryMovesView ==
  ASSUME IInv, NEW i \in DOMAIN ledger, NEW n \in TurnIds, ledger[i].t = n,
         EntryMoves(i)
  PROVE  /\ \A t \in TurnIds \ {n} : Quiet(t)
         /\ AttemptsOf(n)' = AttemptsOf(n)
         /\ \A g : AttemptFor(n, g)' = AttemptFor(n, g)
         /\ LedgerKept
<1>1. attempts \subseteq DOMAIN ledger
  BY DEF IInv, TablesTyped
<1>2. \A j \in DOMAIN ledger : /\ ledger'[j].t = ledger[j].t
                               /\ ledger'[j].stage = ledger[j].stage
  BY DEF EntryMoves
<1>3. \A t \in TurnIds \ {n} : Quiet(t)
  BY <1>1, <1>2 DEF Quiet, SameEntries, AttemptsOf, EntryMoves
<1>4. AttemptsOf(n)' = AttemptsOf(n)
  BY <1>1, <1>2 DEF AttemptsOf, EntryMoves
<1>5. \A g : AttemptFor(n, g)' = AttemptFor(n, g)
  BY <1>1, <1>2, <1>4 DEF AttemptFor, AttemptsOf
<1> QED
  BY <1>2, <1>3, <1>4, <1>5 DEF LedgerKept, EntryMoves

LEMMA EntryKeepsTables ==
  ASSUME IInv, TInv, NEW i \in DOMAIN ledger, NEW n \in TurnIds, ledger[i].t = n,
         EntryMoves(i),
         Lasting(n.s) => ledger'[i].calls <= 1,
         (Current(n) \/ turn[n].kept) /\ RowFacts(n) => RowFacts(n)'
  PROVE  TableFacts'
<1>1. /\ TableFacts /\ attempts \subseteq DOMAIN ledger
      /\ UNCHANGED <<session, turn, attempts>> /\ (DOMAIN ledger)' = DOMAIN ledger
  BY DEF TInv, IInv, TablesTyped, EntryMoves
<1>2. \A j \in DOMAIN ledger : /\ ledger'[j].t = ledger[j].t
                               /\ ledger'[j].stage = ledger[j].stage
  BY DEF EntryMoves
<1>3. KeptRows' /\ DemoRowsAreCurrent'
  BY <1>1 DEF TableFacts, KeptRows, DemoRowsAreCurrent, Exists
<1>4. AttemptsHaveTurns' /\ OneAttemptPerStage' /\ PresetsSkipPlanning'
  BY <1>1, <1>2
  DEF TableFacts, AttemptsHaveTurns, OneAttemptPerStage, PresetsSkipPlanning, Exists
<1>5. PaidCallHappensOnce'
  <2>1. \A j \in DOMAIN ledger \ {i} : ledger'[j].calls = ledger[j].calls
    BY DEF EntryMoves
  <2> QED
    BY <1>1, <1>2, <2>1 DEF TableFacts, PaidCallHappensOnce, Lasting
<1>6. ASSUME NEW t \in TurnIds, Current(t)' \/ turn'[t].kept
      PROVE  RowFacts(t)'
  <2>1. RowFacts(t) /\ (Current(t) \/ turn[t].kept)
    BY <1>1, <1>6 DEF TableFacts, RowsBacked, Current
  <2> QED
    BY <2>1, EntryMovesView, QuietKeepsRowFacts
<1>7. RowsBacked'
  BY <1>6 DEF RowsBacked
<1> QED
  BY <1>3, <1>4, <1>5, <1>7 DEF TableFacts

\* The attempt a thread holds belongs to its turn.
LEMMA HeldEntry ==
  ASSUME IInv, TInv, NEW w \in Workers, Holds(w), NEW n \in TurnIds, n = Tid(w)
  PROVE  /\ worker[w].att \in DOMAIN ledger /\ ledger[worker[w].att].t = n
         /\ ledger[worker[w].att].stage = worker[w].stage
         /\ worker[w].stage \in Stages /\ n.s = worker[w].s
BY DEF IInv, WorkersTyped, Informed, Holds, WithAttempt, InStage, TInv, ThreadFacts,
       HoldsItsAttempt, Tid

\* A thread that keeps its attempt and makes no call keeps what it holds.
LEMMA StillHolds ==
  ASSUME IInv, TInv, NEW w \in Workers, Holds(w), NEW n \in TurnIds, n = Tid(w),
         NEW x, NEW y, x = worker[w], worker'[w] = y, SameRequest(x, y),
         LedgerKept, y.pc # "call",
         y.pc \in WithAttempt => y.att = x.att /\ y.stage = x.stage
  PROVE  HoldsItsAttempt(w)'
<1>1. Tid(w)' = n
  BY DEF Tid, SameRequest
<1> QED
  BY <1>1, HeldEntry DEF HoldsItsAttempt, Holds, LedgerKept

LEMMA CallKeeps ==
  ASSUME IInv, TInv, NEW w \in Workers, NEW out \in ProviderOutcomes, Call(w, out)
  PROVE  TInv'
<1>1. PICK x, y : /\ x = worker[w]
                  /\ y = [x EXCEPT !.pc = "finish", !.out = out]
  OBVIOUS
<1>2. /\ x.pc = "call" /\ x.pc \in Driving /\ x.pc # "idle" /\ Holds(w)
      /\ ledger' = [ledger EXCEPT ![x.att].calls = @ + 1]
      /\ UNCHANGED <<session, turn, attempts>>
  BY <1>1 DEF Call, Driving, WorkerPCs, Holds, WithAttempt
<1>3. worker' = [worker EXCEPT ![w] = y] /\ worker'[w] = y
  BY <1>1 DEF Call, IInv, WorkersTyped
<1>4. /\ y.pc = "finish" /\ y.out = out /\ y.att = x.att /\ y.stage = x.stage
      /\ SameRequest(x, y)
  <2>1. x \in WorkerState
    BY <1>1 DEF IInv, WorkersTyped, Informed
  <2> QED
    BY <1>1, <2>1 DEF WorkerState, SameRequest
<1>5. PICK n \in TurnIds : n = Tid(w)
  BY <1>1, <1>2, RequestHasTurnId
<1>6. PICK i \in DOMAIN ledger :
        i = x.att /\ ledger[i].t = n /\ ledger[i].stage = x.stage
  BY <1>1, <1>2, <1>5, HeldEntry
<1>7. ledger[i] \in LedgerRow
  BY EntriesTyped
<1>8. EntryMoves(i) /\ ledger'[i].status = ledger[i].status
      /\ ledger'[i].calls = ledger[i].calls + 1
  BY <1>2, <1>6, <1>7 DEF EntryMoves, LedgerRow
<1>9. Lasting(n.s) => ledger'[i].calls <= 1
  <2>1. Lasting(n.s) => ledger[i].calls = 0
    BY <1>1, <1>2, <1>5, <1>6, HeldEntry DEF TInv, ThreadFacts, HoldsItsAttempt
  <2> QED
    BY <1>8, <2>1
<1>10. /\ \A t \in TurnIds \ {n} : Quiet(t)
       /\ AttemptsOf(n)' = AttemptsOf(n)
       /\ \A g : AttemptFor(n, g)' = AttemptFor(n, g)
       /\ LedgerKept
  BY <1>6, <1>8, EntryMovesView
<1>11. /\ \A j \in AttemptsOf(n) : ledger'[j].status = ledger[j].status
       /\ Unclear(n)' <=> Unclear(n)
       /\ \A g : Succeeded(n, g)' <=> Succeeded(n, g)
  <2>1. \A j \in AttemptsOf(n) : ledger'[j].status = ledger[j].status
    BY <1>8 DEF AttemptsOf, EntryMoves, IInv, TablesTyped
  <2> QED
    BY <1>10, <2>1 DEF Unclear, Succeeded, AttemptFor
<1>12. TableFacts'
  <2>1. RowFacts(n) => RowFacts(n)'
    BY <1>2, <1>10, <1>11 DEF RowFacts
  <2> QED
    BY <1>6, <1>8, <1>9, <2>1, EntryKeepsTables
<1>13. HoldsItsAttempt(w)'
  BY <1>1, <1>2, <1>3, <1>4, <1>5, <1>10, StillHolds
<1>14. RemembersItsChoice(y)
  BY <1>1, <1>2, <1>4
  DEF TInv, ThreadFacts, RemembersItsChoice, InStage, SameRequest
<1>15. ASSUME Current(n) PROVE DriverFacts(y, n)'
  <2>1. DriverFacts(x, n)
    BY <1>1, <1>2, <1>5, <1>15, DriverOwns
  <2>2. Active(n)' <=> Active(n)
    BY <1>2 DEF Active
  <2>3. Pending(i) => Pending(i)'
    BY <1>6, <1>8, <2>2 DEF Pending, EntryMoves
  <2> QED
    BY <1>2, <1>4, <1>6, <1>10, <1>11, <2>1, <2>2, <2>3
    DEF DriverFacts, AttemptFacts, OutcomeFacts, NothingAsked, BeforeAnswering, InStage
<1>16. /\ y.pc \in Driving
       /\ \A t \in TurnIds :
            /\ turn'[t].owner = turn[t].owner /\ turn'[t].binding = turn[t].binding
            /\ Exists(t)' <=> Exists(t)
  BY <1>2, <1>4 DEF Driving, WorkerPCs, Exists
<1>17. \A j \in DOMAIN ledger :
         \/ ledger'[j].calls = ledger[j].calls
         \/ x.pc = "call" /\ j = x.att
  BY <1>2, <1>6, <1>8 DEF EntryMoves
<1>18. x = worker[w] /\ x.pc \in WithAttempt
  BY <1>1, <1>2 DEF WithAttempt
<1> QED
  BY <1>2, <1>3, <1>4, <1>5, <1>10, <1>12, <1>13, <1>14, <1>15, <1>16, <1>17, <1>18,
     DriverActs

\* Where the answer of the provider sends a thread, from local state x to y.
Answers(x, y) ==
  \/ /\ y.pc = "terminal" /\ y.to # "answered"
     /\ y.to = "outcome_unknown" <=> x.out = "unknown"
  \/ y.pc = "to_querying" /\ x.out = "ok" /\ x.stage = "planning"
  \/ y.pc = "complete" /\ (x.out = "over" \/ (x.out = "ok" /\ x.stage = "answering"))

LEMMA AfterCallAnswers ==
  ASSUME IInv, NEW w \in Workers, AfterCall(w), worker[w].stage \in Stages,
         worker[w].out \in ProviderOutcomes
  PROVE  \E x, y : /\ x = worker[w] /\ worker' = [worker EXCEPT ![w] = y]
                   /\ worker'[w] = y /\ SameRequest(x, y) /\ Answers(x, y)
<1>1. \/ Go(w, "to_querying") /\ worker[w].out = "ok" /\ worker[w].stage = "planning"
      \/ /\ Go(w, "complete")
         /\ \/ worker[w].out = "over"
            \/ worker[w].out = "ok" /\ worker[w].stage = "answering"
      \/ \E from, to : /\ Close(w, from, to) /\ to # "answered"
                       /\ to = "outcome_unknown" <=> worker[w].out = "unknown"
  BY DEF AfterCall, Stages, ProviderOutcomes
<1>2. CASE Go(w, "to_querying") /\ worker[w].out = "ok" /\ worker[w].stage = "planning"
  BY <1>2, GoMoves DEF Answers
<1>3. CASE /\ Go(w, "complete")
           /\ \/ worker[w].out = "over"
              \/ worker[w].out = "ok" /\ worker[w].stage = "answering"
  BY <1>3, GoMoves DEF Answers
<1>4. ASSUME NEW from, NEW to, Close(w, from, to), to # "answered",
             to = "outcome_unknown" <=> worker[w].out = "unknown"
      PROVE  \E x, y : /\ x = worker[w] /\ worker' = [worker EXCEPT ![w] = y]
                       /\ worker'[w] = y /\ SameRequest(x, y) /\ Answers(x, y)
  BY <1>4, CloseFields DEF Answers
<1> QED
  BY <1>1, <1>2, <1>3, <1>4

\* With its result recorded, the thread knows what it needs for the next step.
LEMMA AnswerKnows ==
  ASSUME NEW x, NEW y, NEW t, Answers(x, y), x.out # "over",
         x.stage = "planning" => AttemptFor(t, "answering")' = {},
         Active(t)' => /\ x.att \in AttemptFor(t, x.stage)'
                       /\ ledger'[x.att].status = AttemptResult(x.out)
                       /\ Unclear(t)' <=> x.out = "unknown"
  PROVE  DriverFacts(y, t)'
<1>1. /\ y.pc = "to_querying" /\ Active(t)' => Succeeded(t, "planning")'
      /\ y.pc = "complete" /\ Active(t)' => Succeeded(t, "answering")'
  BY DEF Answers, Succeeded, AttemptResult
<1>2. y.pc = "to_querying" => AttemptFor(t, "answering")' = {}
  BY DEF Answers
<1>3. OutcomeFacts(y, t)'
  BY DEF OutcomeFacts, Answers
<1> QED
  BY <1>1, <1>2, <1>3
  DEF DriverFacts, AttemptFacts, NothingAsked, BeforeAnswering, InStage, Answers

\* The result is written to a started entry, or nothing is.
Records(w, i) ==
  /\ EntryMoves(i) /\ ledger'[i].calls = ledger[i].calls
  /\ \/ ledger'[i].status = ledger[i].status
     \/ /\ Unfinished(i) /\ worker[w].out # "over"
        /\ ledger'[i].status = AttemptResult(worker[w].out)

LEMMA RecordsView ==
  ASSUME IInv, NEW w \in Workers, NEW i \in DOMAIN ledger, NEW n \in TurnIds,
         ledger[i].t = n, Records(w, i)
  PROVE  /\ \A g : Succeeded(n, g) => Succeeded(n, g)'
         /\ \A j \in AttemptsOf(n) : j # i => ledger'[j].status = ledger[j].status
         /\ ledger'[i].status = ledger[i].status => (Unclear(n)' <=> Unclear(n))
         /\ ~Unclear(n) /\ ledger'[i].status # ledger[i].status =>
              (Unclear(n)' <=> worker[w].out = "unknown")
<1>1. /\ AttemptsOf(n)' = AttemptsOf(n)
      /\ \A g : AttemptFor(n, g)' = AttemptFor(n, g)
  BY EntryMovesView DEF Records
<1>2. \A j \in AttemptsOf(n) : j # i => ledger'[j].status = ledger[j].status
  BY DEF AttemptsOf, Records, EntryMoves, IInv, TablesTyped
<1>3. ledger'[i].status = ledger[i].status => (Unclear(n)' <=> Unclear(n))
  BY <1>1, <1>2 DEF Unclear
<1>4. ASSUME ~Unclear(n), ledger'[i].status # ledger[i].status
      PROVE  Unclear(n)' <=> worker[w].out = "unknown"
  <2>1. i \in AttemptsOf(n) /\ ledger'[i].status = AttemptResult(worker[w].out)
    BY <1>4 DEF Records, Unfinished, AttemptsOf
  <2>2. ledger'[i].status = "outcome_unknown" <=> worker[w].out = "unknown"
    BY <2>1 DEF AttemptResult
  <2> QED
    BY <1>1, <1>2, <1>4, <2>1, <2>2 DEF Unclear
<1>5. \A g : Succeeded(n, g) => Succeeded(n, g)'
  <2>1. \A j \in AttemptsOf(n) : ledger[j].status = "succeeded" =>
                                    ledger'[j].status = "succeeded"
    BY <1>2 DEF Records, Unfinished
  <2> QED
    BY <1>1, <2>1 DEF Succeeded, AttemptFor
<1> QED
  BY <1>2, <1>3, <1>4, <1>5

LEMMA RecordsKeepsTables ==
  ASSUME IInv, TInv, NEW w \in Workers, worker[w].pc \in {"finish", "rb_finish"},
         NEW i \in DOMAIN ledger, NEW n \in TurnIds, n = Tid(w), i = worker[w].att,
         ledger[i].t = n, Records(w, i),
         worker[w].pc = "rb_finish" => ledger'[i].status = ledger[i].status
  PROVE  TableFacts'
<1>1. TableFacts /\ worker[w].pc \in Driving
  BY DEF TInv, Driving, WorkerPCs
<1>2. Lasting(n.s) => ledger'[i].calls <= 1
  BY <1>1 DEF TableFacts, PaidCallHappensOnce, Records
<1>3. EntryMoves(i) /\ UNCHANGED turn
  BY DEF Records, EntryMoves
<1>4. ASSUME Current(n) \/ turn[n].kept, RowFacts(n) PROVE RowFacts(n)'
  <2>1. CASE ledger'[i].status = ledger[i].status
    <3>1. Quiet(n)
      <4>1. AttemptsOf(n)' = AttemptsOf(n)
        BY <1>3, EntryMovesView
      <4> QED
        BY <2>1, <4>1
        DEF Quiet, SameEntries, AttemptsOf, Records, EntryMoves, IInv, TablesTyped
    <3> QED
      BY <1>4, <3>1, QuietKeepsRowFacts
  <2>2. CASE ledger'[i].status # ledger[i].status
    <3>1. i \in AttemptsOf(n) /\ ledger[i].status = "started"
      BY <2>2 DEF Records, Unfinished, AttemptsOf
    <3>2. turn[n].status # "answered"
      BY <1>4, <3>1 DEF RowFacts
    <3>3. Current(n)
      BY <1>1, <1>4, <3>2 DEF TableFacts, KeptRows
    <3>4. Pending(i)
      BY <1>1, <2>2, <3>3, DriverOwns DEF DriverFacts, AttemptFacts
    <3>5. Active(n)
      BY <3>1, <3>4 DEF Pending
    <3>6. \A g : Succeeded(n, g) => Succeeded(n, g)'
      BY RecordsView
    <3> QED
      BY <1>3, <1>4, <3>5, <3>6 DEF RowFacts, Active, ActiveStatuses, TerminalStatuses
  <2> QED
    BY <2>1, <2>2
<1> QED
  BY <1>2, <1>3, <1>4, EntryKeepsTables

LEMMA RecordingKeeps ==
  ASSUME IInv, TInv, NEW w \in Workers, worker[w].pc \in {"finish", "rb_finish"},
         NEW i \in DOMAIN ledger, NEW n \in TurnIds, n = Tid(w), i = worker[w].att,
         ledger[i].t = n, Records(w, i),
         worker[w].pc = "rb_finish" => ledger'[i].status = ledger[i].status,
         NEW x, NEW y, x = worker[w], worker' = [worker EXCEPT ![w] = y],
         worker'[w] = y, SameRequest(x, y), RemembersItsChoice(y),
         y.pc \in Driving \ {"call"},
         y.pc \in WithAttempt => y.att = x.att /\ y.stage = x.stage,
         Current(n) => DriverFacts(y, n)'
  PROVE  TInv'
<1>1. /\ x.pc \in Driving /\ x.pc \in WithAttempt /\ Holds(w)
      /\ EntryMoves(i) /\ UNCHANGED <<session, turn, attempts>>
  BY DEF Driving, WorkerPCs, WithAttempt, Holds, Records, EntryMoves
<1>2. TableFacts'
  BY RecordsKeepsTables
<1>3. \A t \in TurnIds \ {n} : Quiet(t)
  BY <1>1, EntryMovesView
<1>4. LedgerKept
  BY <1>1, EntryMovesView
<1>5. HoldsItsAttempt(w)'
  BY <1>1, <1>4, StillHolds
<1>6. \A t \in TurnIds :
        /\ turn'[t].owner = turn[t].owner /\ turn'[t].binding = turn[t].binding
        /\ Exists(t)' <=> Exists(t)
  BY <1>1 DEF Exists
<1>7. \A j \in DOMAIN ledger : ledger'[j].calls = ledger[j].calls
  BY DEF Records, EntryMoves
<1> QED
  BY <1>1, <1>2, <1>3, <1>4, <1>5, <1>6, <1>7, DriverActs

\* What a thread in "finish" or "rb_finish" holds and knows.
LEMMA FinisherFacts ==
  ASSUME IInv, TInv, NEW w \in Workers, worker[w].pc \in {"finish", "rb_finish"}
  PROVE  \E n \in TurnIds, i \in DOMAIN ledger :
           /\ n = Tid(w) /\ i = worker[w].att
           /\ ledger[i].t = n /\ ledger[i].stage = worker[w].stage
           /\ worker[w].stage \in Stages /\ worker[w].out \in ProviderOutcomes
           /\ Current(n) => DriverFacts(worker[w], n)
<1>1. worker[w].pc \in Driving /\ worker[w].pc # "idle" /\ Holds(w)
  BY DEF Driving, WorkerPCs, Holds, WithAttempt
<1>2. PICK n \in TurnIds : n = Tid(w)
  BY <1>1, RequestHasTurnId
<1>3. Current(n) => DriverFacts(worker[w], n)
  BY <1>1, <1>2, DriverOwns
<1>4. worker[w].out \in ProviderOutcomes
  BY DEF TInv, ThreadFacts, RemembersItsChoice
<1> QED
  BY <1>1, <1>2, <1>3, <1>4, HeldEntry

LEMMA ConfirmFinishKeeps ==
  ASSUME IInv, TInv, NEW w \in Workers, ConfirmFinish(w)
  PROVE  TInv'
<1>1. worker[w].pc = "rb_finish" /\ UNCHANGED <<session, attempts, ledger>>
  BY DEF ConfirmFinish
<1>2. CASE Leave(w, turn)
  BY <1>1, <1>2, LeavingKeeps
<1>3. CASE /\ FinishIsDurable(worker[w].att, worker[w].out)
           /\ AfterCall(w) /\ UNCHANGED turn
  <2>1. PICK n \in TurnIds, i \in DOMAIN ledger :
          /\ n = Tid(w) /\ i = worker[w].att
          /\ ledger[i].t = n /\ ledger[i].stage = worker[w].stage
          /\ worker[w].stage \in Stages /\ worker[w].out \in ProviderOutcomes
          /\ Current(n) => DriverFacts(worker[w], n)
    BY <1>1, FinisherFacts
  <2>2. PICK x, y : /\ x = worker[w] /\ worker' = [worker EXCEPT ![w] = y]
                    /\ worker'[w] = y /\ SameRequest(x, y) /\ Answers(x, y)
    BY <1>3, <2>1, AfterCallAnswers
  <2>3. Records(w, i) /\ ledger'[i].status = ledger[i].status
    BY <1>1, <1>3 DEF Records, EntryMoves
  <2>4. ASSUME Current(n) PROVE DriverFacts(y, n)'
    <3>1. /\ i \in AttemptFor(n, x.stage) /\ ledger[i].status = AttemptResult(x.out)
          /\ x.stage = "planning" => AttemptFor(n, "answering") = {}
          /\ Active(n) /\ Unclear(n) => x.out = "unknown"
          /\ Pending(i) \/ x.out # "over"
      BY <1>1, <1>3, <2>1, <2>2, <2>4
      DEF DriverFacts, AttemptFacts, OutcomeFacts, BeforeAnswering, InStage,
          FinishIsDurable
    <3>2. x.out # "over"
      BY <3>1 DEF Pending, AttemptResult
    <3>3. x.out = "unknown" => Unclear(n)
      BY <3>1 DEF Unclear, AttemptFor, AttemptResult
    <3>4. Active(n)' <=> Active(n)
      BY <1>3 DEF Active
    <3> QED
      BY <1>1, <2>1, <2>2, <3>1, <3>2, <3>3, <3>4, SameAttempts, AnswerKnows
  <2>5. /\ y.pc \in Driving \ {"call"} /\ y.pc \notin WithAttempt
        /\ RemembersItsChoice(y)
    BY <2>2 DEF Answers, Driving, WorkerPCs, WithAttempt, RemembersItsChoice, InStage
  <2> QED
    BY <1>1, <2>1, <2>2, <2>3, <2>4, <2>5, RecordingKeeps
<1> QED
  BY <1>2, <1>3 DEF ConfirmFinish, GiveUp

LEMMA FinishCases ==
  ASSUME IInv, NEW w \in Workers, NEW o \in Outcomes, FinishAttempt(w, o),
         NEW i \in DOMAIN ledger, i = worker[w].att
  PROVE  /\ worker[w].pc = "finish" /\ Records(w, i)
         /\ \/ /\ Close(w, worker[w].stage, "failed")
               /\ i \notin attempts \/ worker[w].out = "over"
               /\ ledger'[i].status = ledger[i].status
            \/ /\ AfterCall(w) /\ i \in attempts /\ worker[w].out # "over"
               /\ ledger'[i].status = ledger[i].status => ~Unfinished(i) \/
                    AttemptResult(worker[w].out) = "started"
            \/ Go(w, "rb_finish")
<1>1. /\ worker[w].pc = "finish" /\ UNCHANGED <<session, turn, attempts>>
      /\ \/ /\ i \in attempts /\ worker[w].out # "over" /\ o # "fail" /\ Unfinished(i)
            /\ ledger' = [ledger EXCEPT ![i].status = AttemptResult(worker[w].out)]
         \/ /\ ~(i \in attempts /\ worker[w].out # "over" /\ o # "fail" /\ Unfinished(i))
            /\ UNCHANGED ledger
  BY DEF FinishAttempt
<1>2. ledger[i] \in LedgerRow
  BY EntriesTyped
<1>3. Records(w, i)
  <2>1. CASE UNCHANGED ledger
    BY <1>1, <2>1 DEF Records, EntryMoves
  <2>2. CASE /\ worker[w].out # "over" /\ Unfinished(i)
             /\ ledger' = [ledger EXCEPT ![i].status = AttemptResult(worker[w].out)]
    <3>1. PICK e : e = [ledger[i] EXCEPT !.status = AttemptResult(worker[w].out)]
      OBVIOUS
    <3>2. /\ e.t = ledger[i].t /\ e.stage = ledger[i].stage
          /\ e.calls = ledger[i].calls /\ e.status = AttemptResult(worker[w].out)
      BY <1>2, <3>1 DEF LedgerRow
    <3>3. ledger' = [ledger EXCEPT ![i] = e]
      BY <2>2, <3>1
    <3> QED
      BY <1>1, <2>2, <3>2, <3>3 DEF Records, EntryMoves
  <2> QED
    BY <1>1, <2>1, <2>2
<1>4. \/ /\ i \notin attempts \/ worker[w].out = "over"
         /\ Close(w, worker[w].stage, "failed")
      \/ i \in attempts /\ worker[w].out # "over" /\ o = "ok" /\ AfterCall(w)
      \/ Go(w, "rb_finish")
  BY DEF FinishAttempt
<1>5. CASE i \notin attempts \/ worker[w].out = "over"
  BY <1>1, <1>3, <1>4, <1>5
<1>6. ASSUME i \in attempts, worker[w].out # "over", o = "ok", AfterCall(w),
             ledger'[i].status = ledger[i].status, Unfinished(i)
      PROVE  AttemptResult(worker[w].out) = "started"
  <2>1. ledger' = [ledger EXCEPT ![i].status = AttemptResult(worker[w].out)]
    BY <1>1, <1>6
  <2>2. ledger'[i].status = AttemptResult(worker[w].out)
    BY <1>2, <2>1 DEF LedgerRow
  <2> QED
    BY <1>6, <2>2 DEF Unfinished
<1> QED
  BY <1>1, <1>3, <1>4, <1>5, <1>6

LEMMA FinishAttemptKeeps ==
  ASSUME IInv, TInv, NEW w \in Workers, NEW o \in Outcomes, FinishAttempt(w, o)
  PROVE  TInv'
<1>1. worker[w].pc = "finish"
  BY DEF FinishAttempt
<1>2. PICK n \in TurnIds, i \in DOMAIN ledger :
        /\ n = Tid(w) /\ i = worker[w].att
        /\ ledger[i].t = n /\ ledger[i].stage = worker[w].stage
        /\ worker[w].stage \in Stages /\ worker[w].out \in ProviderOutcomes
        /\ Current(n) => DriverFacts(worker[w], n)
  BY <1>1, FinisherFacts
<1>3. Records(w, i)
  BY <1>2, FinishCases
<1>4. /\ AttemptsOf(n)' = AttemptsOf(n) /\ (Active(n)' <=> Active(n))
      /\ \A g : AttemptFor(n, g)' = AttemptFor(n, g)
  BY <1>2, <1>3, EntryMovesView DEF Records, EntryMoves, Active
<1>5. ASSUME Current(n)
      PROVE  /\ i \in AttemptFor(n, worker[w].stage) /\ i \in attempts /\ Pending(i)
             /\ ~(Active(n) /\ Unclear(n))
             /\ worker[w].stage = "planning" => AttemptFor(n, "answering") = {}
  BY <1>1, <1>2, <1>5
  DEF DriverFacts, AttemptFacts, OutcomeFacts, BeforeAnswering, InStage, AttemptFor,
      AttemptsOf
<1>6. /\ ledger'[i].status = ledger[i].status => (Unclear(n)' <=> Unclear(n))
      /\ ~Unclear(n) /\ ledger'[i].status # ledger[i].status =>
           (Unclear(n)' <=> worker[w].out = "unknown")
  BY <1>2, <1>3, RecordsView
<1>7. CASE /\ Close(w, worker[w].stage, "failed")
           /\ i \notin attempts \/ worker[w].out = "over"
           /\ ledger'[i].status = ledger[i].status
  <2>1. PICK x, y : /\ x = worker[w] /\ worker' = [worker EXCEPT ![w] = y]
                    /\ worker'[w] = y /\ SameRequest(x, y)
                    /\ y.pc = "terminal" /\ y.to = "failed"
    BY <1>7, CloseFields
  <2>2. Current(n) => DriverFacts(y, n)'
    BY <1>4, <1>5, <1>6, <1>7, <2>1
    DEF DriverFacts, AttemptFacts, OutcomeFacts, NothingAsked, BeforeAnswering, InStage
  <2>3. /\ y.pc \in Driving \ {"call"} /\ y.pc \notin WithAttempt
        /\ RemembersItsChoice(y)
    BY <2>1 DEF Driving, WorkerPCs, WithAttempt, RemembersItsChoice, InStage
  <2> QED
    BY <1>1, <1>2, <1>3, <2>1, <2>2, <2>3, RecordingKeeps
<1>8. CASE /\ AfterCall(w) /\ i \in attempts /\ worker[w].out # "over"
           /\ ledger'[i].status = ledger[i].status => ~Unfinished(i) \/
                AttemptResult(worker[w].out) = "started"
  <2>1. PICK x, y : /\ x = worker[w] /\ worker' = [worker EXCEPT ![w] = y]
                    /\ worker'[w] = y /\ SameRequest(x, y) /\ Answers(x, y)
    BY <1>2, <1>8, AfterCallAnswers
  <2>2. ASSUME Current(n) PROVE DriverFacts(y, n)'
    <3>1. ASSUME Active(n)
          PROVE  /\ ledger'[i].status = AttemptResult(x.out)
                 /\ Unclear(n)' <=> x.out = "unknown"
      <4>1. Unfinished(i) /\ ~Unclear(n)
        BY <1>2, <1>5, <2>2, <3>1 DEF Pending, Unfinished
      <4>2. ledger'[i].status # ledger[i].status
        BY <1>8, <4>1 DEF AttemptResult
      <4> QED
        BY <1>3, <1>6, <2>1, <4>1, <4>2 DEF Records
    <3> QED
      BY <1>2, <1>4, <1>5, <1>8, <2>1, <2>2, <3>1, AnswerKnows
  <2>3. /\ y.pc \in Driving \ {"call"} /\ y.pc \notin WithAttempt
        /\ RemembersItsChoice(y)
    BY <2>1 DEF Answers, Driving, WorkerPCs, WithAttempt, RemembersItsChoice, InStage
  <2> QED
    BY <1>1, <1>2, <1>3, <2>1, <2>2, <2>3, RecordingKeeps
<1>9. CASE Go(w, "rb_finish")
  <2>1. PICK x, y : /\ x = worker[w] /\ worker' = [worker EXCEPT ![w] = y]
                    /\ worker'[w] = y /\ SameRequest(x, y) /\ y.pc = "rb_finish"
                    /\ y.stage = x.stage /\ y.att = x.att /\ y.out = x.out
    BY <1>9, GoMoves
  <2>2. ASSUME Current(n) PROVE DriverFacts(y, n)'
    <3>1. \/ Pending(i)'
          \/ y.out # "over" /\ ledger'[i].status = AttemptResult(y.out)
      BY <1>2, <1>3, <1>4, <1>5, <2>1, <2>2 DEF Records, EntryMoves, Pending
    <3>2. Active(n)' /\ Unclear(n)' => y.out = "unknown"
      BY <1>4, <1>5, <1>6, <2>1, <2>2
    <3>3. y.att \in AttemptFor(n, y.stage)'
      BY <1>2, <1>4, <1>5, <2>1, <2>2
    <3> QED
      BY <1>2, <1>4, <1>5, <2>1, <2>2, <3>1, <3>2, <3>3
      DEF DriverFacts, AttemptFacts, OutcomeFacts, NothingAsked, BeforeAnswering, InStage
  <2>3. /\ y.pc \in Driving \ {"call"} /\ RemembersItsChoice(y)
    BY <1>1, <2>1 DEF Driving, WorkerPCs, TInv, ThreadFacts, RemembersItsChoice,
                      InStage, SameRequest
  <2> QED
    BY <1>1, <1>2, <1>3, <2>1, <2>2, <2>3, RecordingKeeps
<1> QED
  BY <1>2, <1>7, <1>8, <1>9, FinishCases

-----------------------------------------------------------------------------
(***************************************************************************)
(* Sessions, deletions and time                                            *)
(***************************************************************************)
LEMMA EnvironmentStep ==
  ASSUME IInv, TInv, UNCHANGED <<ledger, worker>>, SessionsMoveOn, TableFacts',
         \A t \in TurnIds : turn'[t].owner \in Workers =>
           turn'[t].owner = turn[t].owner /\ (Exists(t) => Exists(t)'),
         \A t \in TurnIds : turn[t].owner \in Workers /\ Current(t)' =>
           /\ turn'[t].owner = turn[t].owner /\ turn'[t].binding = turn[t].binding
           /\ Exists(t) => Exists(t)'
           /\ Quiet(t)
  PROVE  TInv'
<1>1. LedgerKept
  BY DEF LedgerKept
<1>2. \A v \in Workers : ThreadFacts(v)'
  BY <1>1, ThreadKeepsFacts
<1>3. HeldOnce'
  <2>1. \A w \in Workers : Holds(w) /\ Lasting(worker[w].s)' => Lasting(worker[w].s)
    <3>1. ASSUME NEW w \in Workers, Holds(w), Lasting(worker[w].s)'
          PROVE  Lasting(worker[w].s)
      <4>1. worker[w].s \in Sessions
        BY <3>1 DEF IInv, WorkersTyped, Informed, Holds, WithAttempt
      <4> QED
        BY <3>1, <4>1 DEF Lasting, SessionsMoveOn
    <3> QED
      BY <3>1
  <2>2. \A w \in Workers : Holds(w)' <=> Holds(w)
    BY DEF Holds
  <2> QED
    BY <2>1, <2>2 DEF TInv, HeldOnce
<1> QED
  BY <1>2, <1>3 DEF TInv

LEMMA DeletingKeeps ==
  ASSUME IInv, TInv, UNCHANGED <<ledger, worker>>, SessionsMoveOn,
         NEW gone \in SUBSET TurnIds, Delete(gone),
         \A t \in TurnIds \ gone : Current(t)' => Current(t),
         \A t \in TurnIds \ gone : Exists(t) /\ t.s \in DemoSessions => Current(t)',
         \A t \in gone : ~(Exists(t) /\ Current(t)')
  PROVE  TInv'
<1>1. /\ TableFacts /\ attempts \subseteq DOMAIN ledger
      /\ \A i \in DOMAIN ledger : ledger[i].t \in TurnIds
  BY EntriesTyped DEF TInv, IInv, TablesTyped, LedgerRow
<1>2. /\ \A t \in gone : turn'[t] = AbsentRow
      /\ \A t \in TurnIds \ gone : turn'[t] = turn[t]
      /\ attempts' = {i \in attempts : ledger[i].t \notin gone}
  BY DEF Delete
<1>3. \A t \in gone : /\ ~Exists(t)' /\ turn'[t].owner \notin Workers
                      /\ turn'[t].kept = FALSE /\ turn'[t].status = "absent"
  BY <1>2, NoWorkerIsNone DEF AbsentRow, Exists
<1>4. \A t \in TurnIds \ gone : Quiet(t) /\ (Exists(t)' <=> Exists(t))
  BY <1>2 DEF Quiet, SameEntries, AttemptsOf, Exists
<1>5. KeptRows'
  BY <1>1, <1>2, <1>3 DEF TableFacts, KeptRows
<1>6. DemoRowsAreCurrent'
  BY <1>3, <1>4 DEF DemoRowsAreCurrent, Current
<1>7. AttemptsHaveTurns' /\ OneAttemptPerStage' /\ PresetsSkipPlanning'
  BY <1>1, <1>2, <1>4
  DEF TableFacts, AttemptsHaveTurns, OneAttemptPerStage, PresetsSkipPlanning
<1>8. PaidCallHappensOnce'
  <2>1. \A i \in DOMAIN ledger : Lasting(ledger[i].t.s)' => Lasting(ledger[i].t.s)
    BY <1>1 DEF Lasting, SessionsMoveOn, TurnIds
  <2> QED
    BY <1>1, <2>1 DEF TableFacts, PaidCallHappensOnce
<1>9. RowsBacked'
  <2>1. ASSUME NEW t \in TurnIds, Current(t)' \/ turn'[t].kept
        PROVE  RowFacts(t)'
    <3>1. CASE t \in gone
      BY <1>3, <3>1 DEF RowFacts, TerminalStatuses
    <3>2. CASE t \notin gone
      <4>1. RowFacts(t)
        BY <1>1, <1>2, <2>1, <3>2 DEF TableFacts, RowsBacked
      <4> QED
        BY <1>4, <3>2, <4>1, QuietKeepsRowFacts
    <3> QED
      BY <3>1, <3>2
  <2> QED
    BY <2>1 DEF RowsBacked
<1>10. TableFacts'
  BY <1>5, <1>6, <1>7, <1>8, <1>9 DEF TableFacts
<1>11. \A t \in TurnIds : turn[t].owner \in Workers => Exists(t)
  BY DEF TInv, ThreadFacts, OwnsItsTurn
<1> QED
  BY <1>2, <1>3, <1>4, <1>10, <1>11, EnvironmentStep

LEMMA DeleteDemoChatKeeps ==
  ASSUME IInv, TInv, NEW s \in Sessions, DeleteDemoChat(s)
  PROVE  TInv'
<1>1. PICK gone \in SUBSET TurnIds : gone = {t \in TurnIds : t.s = s}
  OBVIOUS
<1>2. /\ UNCHANGED <<ledger, worker>> /\ Delete(gone) /\ s \in DemoSessions
      /\ session' = [session EXCEPT ![s].epoch = @ + 1]
  BY <1>1 DEF DeleteDemoChat
<1>3. session \in [Sessions -> [state : {"live", "expired", "ended"},
                                epoch : 0..MaxEpoch]]
  BY DEF IInv, TablesTyped
<1>4. /\ session'[s].state = session[s].state
      /\ session[s].epoch \in Nat /\ session'[s].epoch = session[s].epoch + 1
      /\ \A r \in Sessions \ {s} : session'[r] = session[r]
  BY <1>2, <1>3, BoundsAreNatural
<1>5. \A r \in Sessions : session[r].epoch \in Nat
  BY <1>3, BoundsAreNatural
<1>6. SessionsMoveOn
  BY <1>4, <1>5 DEF SessionsMoveOn
<1>7. \A t \in TurnIds : t.s \in Sessions /\ t.e \in Nat
  BY BoundsAreNatural DEF TurnIds
<1>8. \A t \in TurnIds \ gone : Current(t)' <=> Current(t)
  BY <1>1, <1>4, <1>7 DEF Current
<1>9. \A t \in TurnIds \ gone : Exists(t) /\ t.s \in DemoSessions => Current(t)'
  BY <1>8 DEF TInv, TableFacts, DemoRowsAreCurrent, Current
<1>10. ASSUME NEW t \in gone, Exists(t), Current(t)' PROVE FALSE
  <2>1. t \in TurnIds /\ t.s = s
    BY <1>1
  <2>2. session[s].epoch = t.e
    BY <1>2, <1>10, <2>1 DEF TInv, TableFacts, DemoRowsAreCurrent
  <2>3. session'[s].epoch = t.e
    BY <1>2, <1>10, <2>1 DEF Current
  <2> QED
    BY <1>4, <2>2, <2>3
<1> QED
  BY <1>2, <1>6, <1>8, <1>9, <1>10, DeletingKeeps

\* Expire and EndSession change the state of one session.
LEMMA StateMovesOn ==
  ASSUME IInv, NEW s \in Sessions, NEW state, session' = [session EXCEPT ![s].state = state],
         session[s].state = "ended" => state = "ended"
  PROVE  /\ SessionsMoveOn /\ session'[s].state = state
         /\ \A r \in Sessions : session'[r].epoch = session[r].epoch
         /\ \A r \in Sessions \ {s} : session'[r].state = session[r].state
<1>1. session \in [Sessions -> [state : {"live", "expired", "ended"},
                                epoch : 0..MaxEpoch]]
  BY DEF IInv, TablesTyped
<1>2. /\ session'[s].state = state /\ session'[s].epoch = session[s].epoch
      /\ \A r \in Sessions \ {s} : session'[r] = session[r]
  BY <1>1
<1>3. \A r \in Sessions : session[r].epoch \in Nat
  BY <1>1, BoundsAreNatural
<1>4. SessionsMoveOn
  BY <1>2, <1>3 DEF SessionsMoveOn
<1> QED
  BY <1>2, <1>4

LEMMA EndSessionKeeps ==
  ASSUME IInv, TInv, NEW s \in Sessions, EndSession(s)
  PROVE  TInv'
<1>1. PICK gone \in SUBSET TurnIds : gone = {t \in TurnIds : t.s = s /\ ~turn[t].kept}
  OBVIOUS
<1>2. /\ UNCHANGED <<ledger, worker>> /\ Delete(gone)
      /\ session' = [session EXCEPT ![s].state = "ended"]
  BY <1>1 DEF EndSession
<1>3. /\ SessionsMoveOn /\ session'[s].state = "ended"
      /\ \A r \in Sessions : session'[r].epoch = session[r].epoch
      /\ \A r \in Sessions \ {s} : session'[r].state = session[r].state
  BY <1>2, StateMovesOn
<1>4. \A t \in TurnIds : t.s \in Sessions
  BY DEF TurnIds
<1>5. /\ \A t \in TurnIds : Current(t)' => Current(t) /\ t.s # s
      /\ \A t \in TurnIds : Current(t) /\ t.s # s => Current(t)'
  BY <1>3, <1>4 DEF Current
<1>6. \A t \in TurnIds \ gone : Exists(t) /\ t.s \in DemoSessions => Current(t)'
  <2>1. ASSUME NEW t \in TurnIds \ gone, Exists(t), t.s \in DemoSessions
        PROVE  Current(t)'
    <3>1. Current(t) /\ ~turn[t].kept
      BY <2>1, SessionKindsDisjoint
      DEF TInv, TableFacts, DemoRowsAreCurrent, KeptRows, Current
    <3> QED
      BY <1>1, <1>5, <2>1, <3>1
  <2> QED
    BY <2>1
<1>7. \A t \in gone : ~(Exists(t) /\ Current(t)')
  BY <1>1, <1>5
<1> QED
  BY <1>2, <1>3, <1>5, <1>6, <1>7, DeletingKeeps

\* Nothing but leases changes, and the sessions that expire.
LEMMA TimeKeeps ==
  ASSUME IInv, TInv, UNCHANGED <<attempts, ledger, worker>>, SessionsMoveOn,
         \A s \in Sessions : /\ session'[s].state = "ended" <=> session[s].state = "ended"
                             /\ session'[s].epoch = session[s].epoch,
         \A t \in TurnIds : SameRow(t) /\ turn'[t].owner = turn[t].owner
  PROVE  TInv'
<1>1. TableFacts
  BY DEF TInv
<1>2. \A t \in TurnIds : t.s \in Sessions
  BY DEF TurnIds
<1>3. \A t \in TurnIds : Quiet(t) /\ (Exists(t)' <=> Exists(t))
  BY SameRowIsQuiet DEF SameRow, Exists
<1>4. \A t \in TurnIds : Current(t)' <=> Current(t)
  BY <1>2 DEF Current
<1>5. /\ attempts \subseteq DOMAIN ledger
      /\ \A i \in DOMAIN ledger : ledger[i].t \in TurnIds /\ ledger[i].t.s \in Sessions
  BY <1>2, EntriesTyped DEF IInv, TablesTyped, LedgerRow
<1>6. KeptRows' /\ DemoRowsAreCurrent'
  BY <1>1, <1>2, <1>3 DEF TableFacts, KeptRows, DemoRowsAreCurrent, SameRow
<1>7. /\ AttemptsHaveTurns' /\ OneAttemptPerStage' /\ PresetsSkipPlanning'
      /\ PaidCallHappensOnce'
  BY <1>1, <1>3, <1>5
  DEF TableFacts, AttemptsHaveTurns, OneAttemptPerStage, PresetsSkipPlanning,
      PaidCallHappensOnce, Lasting
<1>8. RowsBacked'
  BY <1>1, <1>3, <1>4, QuietKeepsRowFacts DEF TableFacts, RowsBacked, SameRow
<1>9. TableFacts'
  BY <1>6, <1>7, <1>8 DEF TableFacts
<1> QED
  BY <1>3, <1>9, EnvironmentStep DEF SameRow

LEMMA ExpireKeeps ==
  ASSUME IInv, TInv, NEW s \in Sessions, Expire(s)
  PROVE  TInv'
<1>1. /\ session[s].state = "live" /\ UNCHANGED <<turn, attempts, ledger, worker>>
      /\ session' = [session EXCEPT ![s].state = "expired"]
  BY DEF Expire
<1>2. /\ SessionsMoveOn /\ session'[s].state = "expired"
      /\ \A r \in Sessions : session'[r].epoch = session[r].epoch
      /\ \A r \in Sessions \ {s} : session'[r].state = session[r].state
  BY <1>1, StateMovesOn
<1>3. \A t \in TurnIds : SameRow(t) /\ turn'[t].owner = turn[t].owner
  BY <1>1 DEF SameRow
<1> QED
  BY <1>1, <1>2, <1>3, TimeKeeps

LEMMA LapseKeeps ==
  ASSUME IInv, TInv, NEW t \in TurnIds, Lapse(t)
  PROVE  TInv'
<1>1. /\ UNCHANGED <<session, attempts, ledger, worker>>
      /\ turn' = [turn EXCEPT ![t].lapsed = TRUE]
  BY DEF Lapse
<1>2. turn \in [TurnIds -> TurnRow]
  BY DEF IInv, TablesTyped
<1>3. \A u \in TurnIds : SameRow(u) /\ turn'[u].owner = turn[u].owner
  BY <1>1, <1>2 DEF SameRow, TurnRow
<1> QED
  BY <1>1, <1>3, SessionsStay, TimeKeeps

LEMMA RotationKeeps ==
  ASSUME IInv, TInv, RotateCredential
  PROVE  TInv'
<1>1. UNCHANGED <<session, turn, attempts, ledger, worker>>
  BY DEF RotateCredential
<1>2. \A t \in TurnIds : SameRow(t) /\ turn'[t].owner = turn[t].owner
  BY <1>1 DEF SameRow
<1> QED
  BY <1>1, <1>2, SessionsStay, TimeKeeps

LEMMA KeepAnswerKeeps ==
  ASSUME IInv, TInv, NEW n \in TurnIds, KeepAnswer(n)
  PROVE  TInv'
<1>1. /\ UNCHANGED <<session, attempts, ledger, worker>>
      /\ n.s \in OperatorSessions /\ session[n.s].state = "live"
      /\ turn[n].status = "answered"
      /\ turn' = [turn EXCEPT ![n].kept = TRUE]
  BY DEF KeepAnswer
<1>2. turn \in [TurnIds -> TurnRow] /\ turn[n] \in TurnRow
  BY DEF IInv, TablesTyped
<1>3. PICK r : r = [turn[n] EXCEPT !.kept = TRUE]
  OBVIOUS
<1>4. /\ r.status = "answered" /\ r.tool = turn[n].tool
      /\ r.evidence = turn[n].evidence /\ r.owner = turn[n].owner
      /\ r.binding = turn[n].binding
  BY <1>1, <1>2, <1>3 DEF TurnRow
<1>5. /\ turn'[n] = r /\ \A t \in TurnIds \ {n} : turn'[t] = turn[t]
  BY <1>1, <1>2, <1>3
<1>6. \A t \in TurnIds : Quiet(t) /\ (Exists(t)' <=> Exists(t))
                         /\ turn'[t].owner = turn[t].owner
                         /\ turn'[t].binding = turn[t].binding
  BY <1>1, <1>4, <1>5 DEF Quiet, SameEntries, AttemptsOf, Exists
<1>7. Current(n) /\ TableFacts
  BY <1>1, SessionKindsDisjoint DEF Current, TInv
<1>8. attempts \subseteq DOMAIN ledger /\ \A i \in attempts : ledger[i].t \in TurnIds
  BY EntriesTyped DEF IInv, TablesTyped, LedgerRow
<1>9. KeptRows' /\ DemoRowsAreCurrent'
  BY <1>1, <1>4, <1>5, <1>6, <1>7 DEF TableFacts, KeptRows, DemoRowsAreCurrent
<1>10. /\ AttemptsHaveTurns' /\ OneAttemptPerStage' /\ PresetsSkipPlanning'
       /\ PaidCallHappensOnce'
  BY <1>1, <1>6, <1>7, <1>8
  DEF TableFacts, AttemptsHaveTurns, OneAttemptPerStage, PresetsSkipPlanning,
      PaidCallHappensOnce, Lasting
<1>11. \A t \in TurnIds : Current(t)' \/ turn'[t].kept => RowFacts(t)'
  BY <1>1, <1>5, <1>6, <1>7, QuietKeepsRowFacts DEF TableFacts, RowsBacked, Current
<1>12. TableFacts'
  BY <1>9, <1>10, <1>11 DEF TableFacts, RowsBacked
<1> QED
  BY <1>1, <1>6, <1>12, SessionsStay, EnvironmentStep

-----------------------------------------------------------------------------
(***************************************************************************)
(* The invariant, and what follows from it                                 *)
(***************************************************************************)
LEMMA InitialFacts == Init => TInv
<1> SUFFICES ASSUME Init PROVE TInv
  OBVIOUS
<1>1. /\ \A t \in TurnIds : turn[t] = AbsentRow
      /\ \A w \in Workers : worker[w] = IdleWorker
      /\ attempts = {} /\ ledger = <<>>
  BY DEF Init
<1>2. \A t \in TurnIds : /\ ~Exists(t) /\ turn[t].kept = FALSE
                         /\ turn[t].owner \notin Workers
                         /\ turn[t].status = "absent"
  BY <1>1, NoWorkerIsNone DEF AbsentRow, Exists
<1>3. TableFacts
  BY <1>1, <1>2 DEF TableFacts, KeptRows, DemoRowsAreCurrent, AttemptsHaveTurns,
    OneAttemptPerStage, PresetsSkipPlanning, PaidCallHappensOnce, RowsBacked, RowFacts,
    TerminalStatuses
<1>4. \A w \in Workers : worker[w].pc = "idle"
  BY <1>1 DEF IdleWorker
<1>5. HeldOnce
  BY <1>4 DEF HeldOnce, Holds, WithAttempt
<1>6. \A w \in Workers : ThreadFacts(w)
  BY <1>2, <1>4 DEF ThreadFacts, EpochIsPast, OwnsItsTurn, DrivesItsTurn,
    HoldsItsAttempt, RemembersItsChoice, KnowsItsTurn, Holds, WithAttempt, Driving,
    InStage
<1> QED
  BY <1>3, <1>5, <1>6 DEF TInv

LEMMA StepKeeps ==
  ASSUME IInv, TInv, NEW w \in Workers, Request(w) \/ Step(w)
  PROVE  TInv'
<1>1. CASE Request(w)
  BY <1>1, SubmitKeeps DEF Request
<1>2. ASSUME NEW o \in Outcomes, Transaction(w, o) PROVE TInv'
  BY <1>2, RecoverKeeps, ReserveKeeps, BeginAttemptKeeps, FinishAttemptKeeps,
     ToQueryingKeeps, StoreResultKeeps, RecordQueryFailureKeeps, CompleteKeeps,
     TerminalKeeps DEF Transaction
<1>3. CASE \/ Select(w) \/ LookupReplay(w) \/ StartPlanning(w)
           \/ RefuseAttempt(w) \/ AdoptAttempt(w) \/ ConfirmFinish(w)
           \/ ContextMismatch(w) \/ ConfirmQuerying(w) \/ ConfirmStore(w)
  BY <1>3, SelectKeeps, LookupReplayKeeps, StartPlanningKeeps, RefuseAttemptKeeps,
     AdoptAttemptKeeps, ConfirmFinishKeeps, ContextMismatchKeeps, ConfirmQueryingKeeps,
     ConfirmStoreKeeps
<1>4. CASE \E out \in ProviderOutcomes : Call(w, out)
  BY <1>4, CallKeeps
<1>5. CASE \E out \in QueryOutcomes : Execute(w, out)
  BY <1>5, ExecuteKeeps
<1> QED
  BY <1>1, <1>2, <1>3, <1>4, <1>5 DEF Step

LEMMA FactsKept == IInv /\ TInv /\ [Next]_vars => TInv'
<1> SUFFICES ASSUME IInv, TInv, [Next]_vars PROVE TInv'
  OBVIOUS
<1>1. CASE \E w \in Workers : Request(w) \/ Step(w)
  BY <1>1, StepKeeps
<1>2. CASE Environment
  <2>1. CASE \E w \in Workers : Crash(w)
    BY <2>1, CrashKeeps
  <2>2. CASE \E t \in TurnIds : Lapse(t) \/ KeepAnswer(t)
    BY <2>2, LapseKeeps, KeepAnswerKeeps
  <2>3. CASE \E s \in Sessions : DeleteDemoChat(s) \/ Expire(s) \/ EndSession(s)
    BY <2>3, DeleteDemoChatKeeps, ExpireKeeps, EndSessionKeeps
  <2>4. CASE RotateCredential
    BY <2>4, RotationKeeps
  <2> QED
    BY <1>2, <2>1, <2>2, <2>3, <2>4 DEF Environment
<1>3. CASE UNCHANGED vars
  <2>1. UNCHANGED <<session, turn, attempts, ledger, worker>>
    BY <1>3 DEF vars
  <2>2. \A t \in TurnIds : SameRow(t) /\ turn'[t].owner = turn[t].owner
    BY <2>1 DEF SameRow
  <2> QED
    BY <2>1, <2>2, SessionsStay, TimeKeeps
<1> QED
  BY <1>1, <1>2, <1>3 DEF Next

LEMMA FactsAlways == Spec => [](IInv /\ TInv)
<1>1. Init => IInv /\ TInv
  BY InitialState, InitialFacts
<1>2. IInv /\ TInv /\ [Next]_vars => IInv' /\ TInv'
  BY NextStep, FactsKept
<1> QED
  BY <1>1, <1>2, PTL DEF Spec

\* The facts of its status hold for every row that belongs to a chat.
LEMMA BelongingRowFacts ==
  ASSUME TInv, NEW t \in TurnIds, Exists(t), Belongs(t)
  PROVE  RowFacts(t)
BY RowIsCurrent DEF Belongs, Lasting, TInv, TableFacts, RowsBacked

\* A request that began before its viewer's chat was cleared, or ended, leaves no
\* row behind, whichever of its transactions comes later.
THEOREM ClearedChatsStayCleared == Spec => []DemoRowsAreCurrent
<1>1. TInv => DemoRowsAreCurrent
  BY DEF TInv, TableFacts
<1> QED
  BY <1>1, FactsAlways, PTL

\* No answer without its query result, its evidence and a succeeded provider
\* attempt per stage, whatever was recovered, repeated or lost on the way.
THEOREM AnswersAreBacked == Spec => []AnsweredIsBacked
<1>1. TInv => AnsweredIsBacked
  <2> SUFFICES ASSUME TInv, NEW t \in TurnIds, turn[t].status = "answered", Belongs(t)
               PROVE  /\ turn[t].tool = "succeeded" /\ turn[t].evidence
                      /\ \A stage \in Stages \ (IF t.p \in Presets THEN {"planning"} ELSE {}) :
                           Succeeded(t, stage)
    BY DEF AnsweredIsBacked, Succeeded
  <2>1. RowFacts(t)
    BY BelongingRowFacts DEF Exists
  <2> QED
    BY <2>1 DEF RowFacts, Stages
<1> QED
  BY <1>1, FactsAlways, PTL

\* No retry, replay or read-back repeats a paid call: two threads that hold the
\* same attempt, or one that calls again, are impossible.
THEOREM CallsArePaidOnce == Spec => []PaidCallHappensOnce
<1>1. TInv => PaidCallHappensOnce
  BY DEF TInv, TableFacts
<1> QED
  BY <1>1, FactsAlways, PTL

\* A thread that calls the provider for a turn in flight is the one that reserved
\* it, and uses the credential recorded on the row.
THEOREM CallsUseTheRecordedBinding == Spec => []CallUsesRecordedBinding
<1>1. IInv /\ TInv => CallUsesRecordedBinding
  <2> SUFFICES ASSUME IInv, TInv, NEW w \in Workers, worker[w].pc = "call",
                      Lasting(worker[w].s), Active(Tid(w))
               PROVE  turn[Tid(w)].owner = w /\ turn[Tid(w)].binding = worker[w].b
    BY DEF CallUsesRecordedBinding
  <2>1. worker[w].pc # "idle" /\ worker[w].pc \in Driving
    BY DEF Driving, WorkerPCs
  <2>2. PICK n \in TurnIds : n = Tid(w)
    BY <2>1, RequestHasTurnId
  <2>3. Exists(n) /\ n.s = worker[w].s
    BY <2>2 DEF Active, ActiveStatuses, Exists, Tid
  <2>4. Current(n)
    BY <2>3, RowIsCurrent
  <2> QED
    BY <2>1, <2>2, <2>4, DriverOwns
<1> QED
  BY <1>1, FactsAlways, PTL

\* A closed turn reports an unknown outcome exactly when one of its provider
\* calls has one, also when recovery closed it or the result came late.
THEOREM UnknownOutcomesAreReported == Spec => []UnknownOutcomeIsReported
<1>1. TInv => UnknownOutcomeIsReported
  <2> SUFFICES ASSUME TInv, NEW t \in TurnIds, turn[t].status \in TerminalStatuses,
                      Belongs(t)
               PROVE  turn[t].status = "outcome_unknown" <=> Unclear(t)
    BY DEF UnknownOutcomeIsReported, Unclear
  <2>1. RowFacts(t)
    BY BelongingRowFacts DEF Exists, TerminalStatuses
  <2> QED
    BY <2>1 DEF RowFacts
<1> QED
  BY <1>1, FactsAlways, PTL

-----------------------------------------------------------------------------
(***************************************************************************)
(* A closed turn stays closed                                              *)
(***************************************************************************)
Closed(t) == turn[t].status \in TerminalStatuses

Unmoved(t) ==
  turn'[t] = [turn[t] EXCEPT !.kept = turn'[t].kept, !.owner = turn'[t].owner]

ClosedRowsStay ==
  \A t \in TurnIds : Closed(t) => Unmoved(t) \/ (turn'[t] = AbsentRow /\ ~turn[t].kept)

ResultsStay ==
  \A i \in DOMAIN ledger :
    /\ i \in DOMAIN ledger'
    /\ ledger[i].status # "started" => ledger'[i].status = ledger[i].status

LEMMA UnmovedRow ==
  ASSUME NEW t \in TurnIds, turn[t] \in TurnRow, turn'[t] \in TurnRow,
         turn'[t].status = turn[t].status, turn'[t].lapsed = turn[t].lapsed,
         turn'[t].binding = turn[t].binding, turn'[t].tool = turn[t].tool,
         turn'[t].evidence = turn[t].evidence
  PROVE  Unmoved(t)
BY DEF TurnRow, Unmoved

\* Releasing rows, after a change of one row that is not closed.
LEMMA ReleasingKeepsClosed ==
  ASSUME IInv, IInv', NEW w \in Workers, NEW n \in TurnIds,
         NEW rows \in [TurnIds -> TurnRow],
         ~Closed(n) \/ rows[n] = turn[n],
         \A t \in TurnIds \ {n} : rows[t] = turn[t],
         turn' = rows \/ turn' = Released(w, rows)
  PROVE  ClosedRowsStay
<1> SUFFICES ASSUME NEW t \in TurnIds, Closed(t) PROVE Unmoved(t)
  BY DEF ClosedRowsStay
<1>1. turn[t] \in TurnRow /\ turn'[t] \in TurnRow /\ rows[t] = turn[t]
  BY DEF IInv, TablesTyped
<1>2. turn'[t] = turn[t] \/ turn'[t] = [turn[t] EXCEPT !.owner = NoWorker]
  BY <1>1 DEF Released
<1> QED
  BY <1>1, <1>2, UnmovedRow DEF TurnRow

LEMMA LeavingKeepsClosed ==
  ASSUME IInv, IInv', NEW w \in Workers, UNCHANGED turn \/ turn' = Released(w, turn)
  PROVE  ClosedRowsStay
<1> SUFFICES ASSUME NEW n \in TurnIds PROVE ClosedRowsStay
  BY DEF ClosedRowsStay
<1>1. turn \in [TurnIds -> TurnRow]
  BY DEF IInv, TablesTyped
<1> QED
  BY <1>1, ReleasingKeepsClosed

\* Recovery, before a row is inserted or without.
LEMMA RecoveryKeepsClosed ==
  ASSUME IInv, \A t \in TurnIds : Exists(t) => turn'[t] = RecoveredTurns[t]
  PROVE  ClosedRowsStay
<1> SUFFICES ASSUME NEW t \in TurnIds, Closed(t) PROVE Unmoved(t)
  BY DEF ClosedRowsStay
<1>1. Exists(t) /\ ~Stale(t)
  BY DEF Closed, Exists, TerminalStatuses, Stale, Active, ActiveStatuses
<1>2. turn'[t] = turn[t] /\ turn[t] \in TurnRow
  BY <1>1 DEF RecoveredTurns, IInv, TablesTyped
<1> QED
  BY <1>2, UnmovedRow

LEMMA MovesKeepClosed ==
  ASSUME IInv, IInv', NEW w \in Workers, NEW n \in TurnIds, ~Closed(n),
         NEW to \in ActiveStatuses \cup TerminalStatuses,
         turn' = Moved(n, to) \/ turn' = Released(w, Moved(n, to))
  PROVE  ClosedRowsStay
<1>1. PICK rows : rows = Moved(n, to)
  OBVIOUS
<1>2. rows \in [TurnIds -> TurnRow] /\ \A t \in TurnIds \ {n} : rows[t] = turn[t]
  BY <1>1, MovedRow
<1> QED
  BY <1>1, <1>2, ReleasingKeepsClosed

LEMMA StoringKeepsClosed ==
  ASSUME IInv, IInv', NEW w \in Workers, NEW n \in TurnIds, ~Closed(n),
         NEW to \in ActiveStatuses \cup TerminalStatuses,
         turn' = StoredRows(n, to) \/ turn' = Released(w, StoredRows(n, to))
  PROVE  ClosedRowsStay
<1>1. PICK rows : rows = StoredRows(n, to)
  OBVIOUS
<1>2. rows \in [TurnIds -> TurnRow] /\ \A t \in TurnIds \ {n} : rows[t] = turn[t]
  BY <1>1, StoredRow
<1> QED
  BY <1>1, <1>2, ReleasingKeepsClosed

LEMMA TransactionKeepsClosed ==
  ASSUME IInv, TInv, IInv', NEW w \in Workers, NEW o \in Outcomes, Transaction(w, o)
  PROVE  ClosedRowsStay
<1>1. worker[w].pc # "idle"
  BY DEF Transaction, Recover, Reserve, BeginAttempt, FinishAttempt, ToQuerying,
         StoreResult, RecordQueryFailure, Complete, Terminal
<1>2. PICK n \in TurnIds : n = Tid(w)
  BY <1>1, RequestHasTurnId
<1>3. CASE UNCHANGED turn
  BY <1>3, LeavingKeepsClosed
<1>4. CASE Recover(w, o)
  <2>1. UNCHANGED turn \/ turn' = RecoveredTurns
    BY <1>4 DEF Recover
  <2> QED
    BY <1>3, <2>1, RecoveryKeepsClosed
<1>5. CASE Reserve(w, o)
  <2>1. /\ UNCHANGED attempts
        /\ Inserts(w) \/ turn' = RecoveredTurns \/ UNCHANGED turn
    BY <1>5, ReserveCases
  <2>2. CASE Inserts(w)
    <3>1. UNCHANGED attempts /\ worker[w].pc # "idle"
      BY <1>1, <2>1
    <3>2. ~Exists(n)
      BY <1>2, <2>2, <3>1, InsertedRow
    <3>3. RecoveredTurns \in [TurnIds -> TurnRow]
      BY RecoveryClosesStaleTurns
    <3>4. \A t \in TurnIds \ {n} : turn'[t] = RecoveredTurns[t]
      BY <1>2, <2>2, <3>3 DEF Inserts
    <3> QED
      BY <3>2, <3>4, RecoveryKeepsClosed
  <2> QED
    BY <1>3, <2>1, <2>2, RecoveryKeepsClosed
<1>6. CASE BeginAttempt(w, o) \/ FinishAttempt(w, o)
  BY <1>3, <1>6 DEF BeginAttempt, FinishAttempt
<1>7. CASE ToQuerying(w, o)
  <2>1. \/ UNCHANGED turn
        \/ MayMove(n, "planning", "querying") /\ turn' = Moved(n, "querying")
    BY <1>2, <1>7 DEF ToQuerying
  <2> QED
    BY <1>3, <2>1, MovesKeepClosed
    DEF MayMove, Closed, ActiveStatuses, TerminalStatuses
<1>8. CASE StoreResult(w, o)
  <2>1. \/ UNCHANGED turn
        \/ \E to \in {"answering", "clarification_required"} : StoresResult(w, n, to)
    BY <1>2, <1>8, StoreResultCases
  <2>2. ASSUME NEW to \in {"answering", "clarification_required"},
               StoresResult(w, n, to)
        PROVE  ClosedRowsStay
    <3>1. /\ ~Closed(n) /\ to \in ActiveStatuses \cup TerminalStatuses
          /\ turn' = StoredRows(n, to) \/ turn' = Released(w, StoredRows(n, to))
      BY <2>2 DEF StoresResult, Leave, Closed, ActiveStatuses, TerminalStatuses
    <3> QED
      BY <3>1, StoringKeepsClosed
  <2> QED
    BY <1>3, <2>1, <2>2
<1>9. CASE RecordQueryFailure(w, o)
  <2>1. \/ UNCHANGED turn
        \/ turn[n].status = "querying" /\ turn' = [turn EXCEPT ![n].tool = "failed"]
    BY <1>2, <1>9 DEF RecordQueryFailure, ToolRunInsertable
  <2>2. ASSUME turn[n].status = "querying", turn' = [turn EXCEPT ![n].tool = "failed"]
        PROVE  ClosedRowsStay
    <3>1. ~Closed(n) /\ turn' \in [TurnIds -> TurnRow]
      BY <2>2 DEF Closed, TerminalStatuses, IInv, TablesTyped
    <3>2. \A t \in TurnIds \ {n} : turn'[t] = turn[t]
      BY <2>2 DEF IInv, TablesTyped
    <3> QED
      BY <3>1, <3>2, ReleasingKeepsClosed
  <2> QED
    BY <1>3, <2>1, <2>2
<1>10. CASE Complete(w, o)
  <2>1. \/ turn' = Released(w, turn)
        \/ /\ MayMove(n, "answering", "answered")
           /\ turn' = Released(w, [Moved(n, "answered") EXCEPT ![n].evidence = TRUE])
    BY <1>2, <1>10 DEF Complete, Leave
  <2>2. ASSUME MayMove(n, "answering", "answered"),
               turn' = Released(w, [Moved(n, "answered") EXCEPT ![n].evidence = TRUE])
        PROVE  ClosedRowsStay
    <3>1. PICK moved, rows : /\ moved = Moved(n, "answered")
                             /\ rows = [moved EXCEPT ![n].evidence = TRUE]
      OBVIOUS
    <3>2. /\ moved \in [TurnIds -> TurnRow]
          /\ \A t \in TurnIds \ {n} : moved[t] = turn[t]
      BY <3>1, MovedRow DEF TerminalStatuses
    <3>3. PICK r \in TurnRow : r = [moved[n] EXCEPT !.evidence = TRUE]
      BY <3>2 DEF TurnRow
    <3>4. /\ rows \in [TurnIds -> TurnRow]
          /\ \A t \in TurnIds \ {n} : rows[t] = turn[t]
      BY <3>1, <3>2, <3>3
    <3>5. ~Closed(n) /\ turn' = Released(w, rows)
      BY <2>2, <3>1 DEF MayMove, Closed, TerminalStatuses
    <3> QED
      BY <3>4, <3>5, ReleasingKeepsClosed
  <2> QED
    BY <2>1, <2>2, LeavingKeepsClosed
<1>11. CASE Terminal(w, o)
  <2>1. \/ turn' = Released(w, turn)
        \/ /\ MayMove(n, worker[w].from, worker[w].to)
           /\ turn' = Released(w, Moved(n, worker[w].to))
    BY <1>2, <1>11 DEF Terminal, Leave
  <2> QED
    BY <2>1, LeavingKeepsClosed, MovesKeepClosed
    DEF MayMove, AllowedEdges, Closed, ActiveStatuses, TerminalStatuses
<1> QED
  BY <1>4, <1>5, <1>6, <1>7, <1>8, <1>9, <1>10, <1>11 DEF Transaction

LEMMA StepKeepsClosed ==
  ASSUME IInv, TInv, IInv', NEW w \in Workers, Request(w) \/ Step(w)
  PROVE  ClosedRowsStay
<1>1. CASE \E o \in Outcomes : Transaction(w, o)
  BY <1>1, TransactionKeepsClosed
<1>2. CASE \/ Request(w) \/ Select(w) \/ StartPlanning(w) \/ RefuseAttempt(w)
           \/ \E out \in ProviderOutcomes : Call(w, out)
           \/ ContextMismatch(w) \/ ConfirmQuerying(w)
           \/ \E out \in QueryOutcomes : Execute(w, out)
  <2>1. UNCHANGED turn
    BY <1>2 DEF Request, Submit, Select, StartPlanning, RefuseAttempt, Call,
                ContextMismatch, ConfirmQuerying, Execute
  <2> QED
    BY <2>1, LeavingKeepsClosed
<1>3. CASE LookupReplay(w) \/ AdoptAttempt(w) \/ ConfirmFinish(w) \/ ConfirmStore(w)
  <2>1. UNCHANGED turn \/ turn' = Released(w, turn)
    BY <1>3 DEF LookupReplay, AdoptAttempt, ConfirmFinish, GiveUp, ConfirmStore,
                RowsAfterStore, Leave
  <2> QED
    BY <2>1, LeavingKeepsClosed
<1> QED
  BY <1>1, <1>2, <1>3 DEF Step

LEMMA DeletingKeepsClosed ==
  ASSUME IInv, NEW gone \in SUBSET TurnIds, Delete(gone),
         \A t \in gone : ~turn[t].kept
  PROVE  ClosedRowsStay
<1>1. \A t \in TurnIds : turn[t] \in TurnRow
  BY DEF IInv, TablesTyped
<1>2. \A t \in TurnIds : IF t \in gone THEN turn'[t] = AbsentRow ELSE turn'[t] = turn[t]
  BY DEF Delete
<1> QED
  BY <1>1, <1>2, UnmovedRow DEF ClosedRowsStay

LEMMA EnvironmentKeepsClosed ==
  ASSUME IInv, TInv, IInv', Environment \/ UNCHANGED vars
  PROVE  ClosedRowsStay
<1>1. \A t \in TurnIds : turn[t] \in TurnRow /\ turn'[t] \in TurnRow
  BY DEF IInv, TablesTyped
<1>2. CASE UNCHANGED turn
  BY <1>1, <1>2, UnmovedRow DEF ClosedRowsStay
<1>3. CASE \E w \in Workers : Crash(w)
  BY <1>3, LeavingKeepsClosed DEF Crash, Leave
<1>4. CASE \E t \in TurnIds : Lapse(t)
  <2>1. PICK n \in TurnIds : Lapse(n)
    BY <1>4
  <2>2. ~Closed(n) /\ \A t \in TurnIds \ {n} : turn'[t] = turn[t]
    BY <2>1 DEF Lapse, Active, Closed, ActiveStatuses, TerminalStatuses, IInv,
                TablesTyped
  <2> QED
    BY <1>1, <2>2, UnmovedRow DEF ClosedRowsStay
<1>5. CASE \E t \in TurnIds : KeepAnswer(t)
  <2>1. PICK n \in TurnIds : turn' = [turn EXCEPT ![n].kept = TRUE]
    BY <1>5 DEF KeepAnswer
  <2>2. PICK r : r = [turn[n] EXCEPT !.kept = TRUE]
    OBVIOUS
  <2>3. turn'[n] = r /\ \A t \in TurnIds \ {n} : turn'[t] = turn[t]
    BY <2>1, <2>2 DEF IInv, TablesTyped
  <2>4. Unmoved(n)
    BY <1>1, <2>2, <2>3, UnmovedRow DEF TurnRow
  <2> QED
    BY <1>1, <2>3, <2>4, UnmovedRow DEF ClosedRowsStay
<1>6. CASE \E s \in Sessions : DeleteDemoChat(s)
  <2>1. PICK s \in DemoSessions : Delete({t \in TurnIds : t.s = s})
    BY <1>6 DEF DeleteDemoChat
  <2>2. \A t \in {u \in TurnIds : u.s = s} : ~turn[t].kept
    BY SessionKindsDisjoint DEF TInv, TableFacts, KeptRows
  <2> QED
    BY <2>1, <2>2, DeletingKeepsClosed
<1>7. CASE \E s \in Sessions : EndSession(s)
  BY <1>7, DeletingKeepsClosed DEF EndSession
<1>8. CASE (\E s \in Sessions : Expire(s)) \/ RotateCredential \/ UNCHANGED vars
  BY <1>2, <1>8 DEF Expire, RotateCredential, vars
<1> QED
  BY <1>3, <1>4, <1>5, <1>6, <1>7, <1>8 DEF Environment

LEMMA StepKeepsResults ==
  ASSUME IInv, TInv, NEW w \in Workers, Step(w)
  PROVE  ResultsStay
<1>1. CASE UNCHANGED ledger
  BY <1>1 DEF ResultsStay
<1>2. CASE ledger' = RecoveredLedger
  BY <1>2, RecoveryKeepsEntries DEF ResultsStay
<1>3. CASE \E o \in Outcomes : Recover(w, o) \/ Reserve(w, o)
  BY <1>1, <1>2, <1>3 DEF Recover, Reserve
<1>4. CASE \E o \in Outcomes : BeginAttempt(w, o)
  <2>1. worker[w].pc = "begin"
    BY <1>4 DEF BeginAttempt
  <2>2. PICK n \in TurnIds : n = Tid(w)
    BY <2>1, RequestHasTurnId
  <2>3. Asks(w, n) \/ UNCHANGED ledger
    BY <1>4, <2>2, BeginCases
  <2> QED
    BY <1>1, <2>1, <2>3, NewEntry DEF ResultsStay
<1>5. CASE \E o \in Outcomes : FinishAttempt(w, o)
  <2>1. PICK i \in DOMAIN ledger : i = worker[w].att
    BY <1>5 DEF FinishAttempt, IInv, WorkersTyped, Informed, WithAttempt
  <2>2. Records(w, i)
    BY <1>5, <2>1, FinishCases
  <2> QED
    BY <2>2 DEF Records, EntryMoves, Unfinished, ResultsStay
<1>6. CASE \E out \in ProviderOutcomes : Call(w, out)
  <2>1. PICK i : /\ i = worker[w].att
                 /\ ledger' = [ledger EXCEPT ![i].calls = @ + 1]
    BY <1>6 DEF Call
  <2>2. \A j \in DOMAIN ledger : ledger[j] \in LedgerRow
    BY EntriesTyped
  <2> QED
    BY <2>1, <2>2 DEF LedgerRow, ResultsStay
<1>7. CASE \/ Select(w) \/ LookupReplay(w) \/ StartPlanning(w) \/ RefuseAttempt(w)
           \/ AdoptAttempt(w) \/ ConfirmFinish(w) \/ ContextMismatch(w)
           \/ ConfirmQuerying(w) \/ ConfirmStore(w)
           \/ \E out \in QueryOutcomes : Execute(w, out)
           \/ \E o \in Outcomes :
                \/ ToQuerying(w, o) \/ StoreResult(w, o) \/ RecordQueryFailure(w, o)
                \/ Complete(w, o) \/ Terminal(w, o)
  <2>1. UNCHANGED ledger
    BY <1>7 DEF Select, LookupReplay, StartPlanning, RefuseAttempt, AdoptAttempt,
                ConfirmFinish, ContextMismatch, ConfirmQuerying, ConfirmStore, Execute,
                ToQuerying, StoreResult, RecordQueryFailure, Complete, Terminal
  <2> QED
    BY <1>1, <2>1
<1> QED
  BY <1>3, <1>4, <1>5, <1>6, <1>7 DEF Step, Transaction

LEMMA ResultsKept ==
  ASSUME IInv, TInv, [Next]_vars
  PROVE  ResultsStay
<1>1. CASE \E w \in Workers : Step(w)
  BY <1>1, StepKeepsResults
<1>2. CASE (\E w \in Workers : Request(w)) \/ Environment \/ UNCHANGED vars
  <2>1. UNCHANGED ledger
    BY <1>2 DEF Request, Submit, Environment, Crash, Lapse, KeepAnswer,
                DeleteDemoChat, Expire, EndSession, RotateCredential, vars
  <2> QED
    BY <2>1 DEF ResultsStay
<1> QED
  BY <1>1, <1>2 DEF Next

\* TerminalIsFinal: whatever a late worker still does, a closed turn keeps its
\* status, evidence and tool run until it is deleted, a kept one is not deleted,
\* and the budget ledger keeps every entry with the result it has.
THEOREM ClosedTurnsStayClosed == Spec => TerminalIsFinal
<1>1. IInv /\ TInv /\ [Next]_vars => ClosedRowsStay /\ ResultsStay
  <2> SUFFICES ASSUME IInv, TInv, [Next]_vars PROVE ClosedRowsStay /\ ResultsStay
    OBVIOUS
  <2>1. IInv'
    BY NextStep
  <2>2. (\E w \in Workers : Request(w) \/ Step(w)) \/ Environment \/ UNCHANGED vars
    BY DEF Next
  <2>3. ClosedRowsStay
    BY <2>1, <2>2, StepKeepsClosed, EnvironmentKeepsClosed
  <2> QED
    BY <2>3, ResultsKept
<1>2. IInv /\ TInv /\ [Next]_vars =>
        [/\ \A t \in TurnIds : turn[t].status \in TerminalStatuses =>
              \/ turn'[t] = [turn[t] EXCEPT !.kept = turn'[t].kept,
                                            !.owner = turn'[t].owner]
              \/ turn'[t] = AbsentRow /\ ~turn[t].kept
         /\ \A i \in DOMAIN ledger :
              /\ i \in DOMAIN ledger'
              /\ ledger[i].status # "started" => ledger'[i].status = ledger[i].status
        ]_vars
  BY <1>1 DEF ClosedRowsStay, ResultsStay, Closed, Unmoved
<1> QED
  BY <1>2, FactsAlways, PTL DEF Spec, TerminalIsFinal
=============================================================================
