------------------------------ MODULE AIBudget ------------------------------
(***************************************************************************)
(* Who may call the provider, and when: AIChatService._begin_attempt and   *)
(* _finish_attempt over ai_budget_ledger.                                  *)
(*                                                                         *)
(* A request thread reads its clock first and waits for the global budget  *)
(* lock afterwards, so entries are stamped with times older than the       *)
(* moment they are counted, and out of order.  The session count looks at  *)
(* ai_chat_attempts, which go away when a viewer clears the chat; the      *)
(* other three look at the ledger, which keeps everything.  Exceptions and *)
(* the turn that the attempt belongs to are the subject of module AIChat.  *)
(***************************************************************************)
EXTENDS Integers, Sequences, FiniteSets

CONSTANTS
  Sessions,            \* viewer sessions
  Workers,             \* request threads
  MaxTime,             \* bound: the clock stops here
  Minute,              \* timedelta(minutes=1)
  DayStart,            \* midnight before each time
  MonthStart,          \* first of the month before each time
  GlobalPerMinute,     \* AIBudgetLimits.global_attempt_limit_per_minute
  SessionPerMinute,    \* AIBudgetLimits.session_attempt_limit_per_minute
  DailyAttempts,       \* AIBudgetLimits.daily_attempt_limit
  MonthlyTokens,       \* AIBudgetLimits.monthly_token_limit
  PlanningReservation, \* PLANNING_TOKEN_RESERVATION
  AnsweringReservation,\* ANSWERING_TOKEN_RESERVATION
  Usages,              \* token counts the provider may report
  MaxEpoch             \* bound: how often one chat is cleared

Times == 0..MaxTime

ASSUME TimeAssumption == MaxTime \in Nat /\ Minute \in Nat \ {0}
ASSUME CalendarAssumption ==
  /\ DayStart \in [Times -> Times]
  /\ MonthStart \in [Times -> Times]
  /\ \A c \in Times : DayStart[c] <= c /\ MonthStart[c] <= c
ASSUME LimitsAssumption ==
  {GlobalPerMinute, SessionPerMinute, DailyAttempts, MonthlyTokens,
   PlanningReservation, AnsweringReservation} \subseteq Nat \ {0}
ASSUME BoundsAssumption == Usages \subseteq Nat /\ MaxEpoch \in Nat

VARIABLES
  clock,   \* the wall clock
  ledger,  \* ai_budget_ledger, in the order of insertion
  epoch,   \* chats cleared so far, per session
  worker   \* local state of _begin_attempt in each request thread

vars == <<clock, ledger, epoch, worker>>

Stages == {"planning", "answering"}
Reservation(stage) ==
  IF stage = "planning" THEN PlanningReservation ELSE AnsweringReservation

Entry ==
  [s : Sessions, e : 0..MaxEpoch,        \* session, and which of its chats
   at : Times,                           \* created_at
   reserved : Nat,
   used : Nat,                           \* input_tokens + output_tokens
   status : {"started", "succeeded", "failed"}]   \* failed or outcome_unknown

Waiting == [pc : {"waiting"}, now : Times, s : Sessions, e : 0..MaxEpoch,
            stage : Stages]
Idle == [pc |-> "idle"]

Init ==
  /\ clock = 0
  /\ ledger = <<>>
  /\ epoch = [s \in Sessions |-> 0]
  /\ worker = [w \in Workers |-> Idle]

-----------------------------------------------------------------------------
(***************************************************************************)
(* The counts                                                              *)
(***************************************************************************)
Since(start) == {i \in DOMAIN ledger : ledger[i].at >= start}

\* The attempt row is still there: its chat was not cleared.
Surviving(i) == ledger[i].e = epoch[ledger[i].s]

SessionSince(s, start) ==
  {i \in Since(start) : ledger[i].s = s /\ Surviving(i)}

\* charged_tokens of attempt_usage.
Charge(i) ==
  IF ledger[i].status = "succeeded" THEN ledger[i].used ELSE ledger[i].reserved

\* The sum of what the rows are charged: each token is counted once.
TokensOf(rows) == UNION {{i} \X (1..Charge(i)) : i \in rows}
Charged(rows) == Cardinality(TokensOf(rows))

\* minute_start, day_start and month_start come from the time read before the
\* lock.
MinuteStart_AtLock(w) == clock - Minute   \* mutant: a second look at the clock
MinuteStart(w) == worker[w].now - Minute

DayBegin_AtLock(w) == DayStart[clock]   \* mutant: a second look at the clock
DayBegin(w) == DayStart[worker[w].now]

WithinRates_OneMore(w) ==   \* mutant: > instead of >= for the session
  /\ Cardinality(Since(MinuteStart(w))) < GlobalPerMinute
  /\ Cardinality(SessionSince(worker[w].s, MinuteStart(w))) <= SessionPerMinute
WithinRates(w) ==
  /\ Cardinality(Since(MinuteStart(w))) < GlobalPerMinute
  /\ Cardinality(SessionSince(worker[w].s, MinuteStart(w))) < SessionPerMinute

WithinDay(w) == Cardinality(Since(DayBegin(w))) < DailyAttempts

WithinMonth_Unreserved(w) ==   \* mutant: the new reservation is not added
  Charged(Since(MonthStart[worker[w].now])) < MonthlyTokens
WithinMonth(w) ==
  Charged(Since(MonthStart[worker[w].now])) + Reservation(worker[w].stage)
    <= MonthlyTokens

-----------------------------------------------------------------------------
\* _begin_attempt up to the budget lock: now = clock().
ReadClock(w, s, stage) ==
  /\ worker[w].pc = "idle"
  /\ worker' = [worker EXCEPT ![w] = [pc |-> "waiting", now |-> clock, s |-> s,
                                      e |-> epoch[s], stage |-> stage]]
  /\ UNCHANGED <<clock, ledger, epoch>>

NewEntry(w) ==
  [s |-> worker[w].s, e |-> worker[w].e, at |-> worker[w].now,
   reserved |-> Reservation(worker[w].stage), used |-> 0, status |-> "started"]

\* The turn was deleted with its chat: the insert trigger raises.
TurnExists(w) == worker[w].e = epoch[worker[w].s]

\* The transaction under lock_budget: count, compare, add_attempt.
Admit(w) ==
  /\ worker[w].pc = "waiting"
  /\ WithinRates(w) /\ WithinDay(w) /\ WithinMonth(w) /\ TurnExists(w)
  /\ ledger' = Append(ledger, NewEntry(w))
  /\ worker' = [worker EXCEPT ![w] = Idle]
  /\ UNCHANGED <<clock, epoch>>

\* AIChatRateLimited, AIChatBudgetExceeded, or the trigger's exception.
Refuse(w) ==
  /\ worker[w].pc = "waiting"
  /\ ~(WithinRates(w) /\ WithinDay(w) /\ WithinMonth(w) /\ TurnExists(w))
  /\ worker' = [worker EXCEPT ![w] = Idle]
  /\ UNCHANGED <<clock, ledger, epoch>>

\* _finish_attempt refuses a usage above the reservation, and so does the
\* table: the entry then stays "started".
UsageFits(i, used) == used <= ledger[i].reserved

\* _finish_attempt, or recover_stale; a cleared chat takes its attempts along,
\* and their entries stay as they are.
Settle(i, status, used) ==
  /\ ledger[i].status = "started"
  /\ Surviving(i)
  /\ IF status = "succeeded" THEN UsageFits(i, used) ELSE used = 0
  /\ ledger' = [ledger EXCEPT ![i] = [@ EXCEPT !.status = status, !.used = used]]
  /\ UNCHANGED <<clock, epoch, worker>>

\* delete_demo_session.
ClearChat(s) ==
  /\ epoch[s] < MaxEpoch
  /\ epoch' = [epoch EXCEPT ![s] = @ + 1]
  /\ UNCHANGED <<clock, ledger, worker>>

Tick ==
  /\ clock < MaxTime
  /\ clock' = clock + 1
  /\ UNCHANGED <<ledger, epoch, worker>>

Next ==
  \/ \E w \in Workers :
       \/ \E s \in Sessions, stage \in Stages : ReadClock(w, s, stage)
       \/ Admit(w) \/ Refuse(w)
  \/ \E i \in DOMAIN ledger, status \in {"succeeded", "failed"},
        used \in Usages \cup {0} : Settle(i, status, used)
  \/ \E s \in Sessions : ClearChat(s)
  \/ Tick

Spec == Init /\ [][Next]_vars

-----------------------------------------------------------------------------
(***************************************************************************)
(* Properties                                                              *)
(***************************************************************************)
\* Every variable has its type, and nothing is stamped in the future.
TypeOK ==
  /\ clock \in Times
  /\ ledger \in Seq(Entry)
  /\ \A i \in DOMAIN ledger : ledger[i].at <= clock
  /\ epoch \in [Sessions -> 0..MaxEpoch]
  /\ worker \in [Workers -> {Idle} \cup Waiting]

\* Entries stamped in one minute, both ends included.
InMinute(start) ==
  {i \in DOMAIN ledger : start <= ledger[i].at /\ ledger[i].at <= start + Minute}

\* No minute, wherever it starts, holds more attempts than the global limit,
\* although entries are stamped before they are counted.
GlobalRateRespected ==
  \A start \in Times : Cardinality(InMinute(start)) <= GlobalPerMinute

\* The same for one session, as long as its chat is not cleared.
SessionRateRespected ==
  \A start \in Times, s \in Sessions :
    Cardinality({i \in InMinute(start) : ledger[i].s = s /\ Surviving(i)})
      <= SessionPerMinute

\* No calendar day holds more attempts than the daily limit.
OnDay(day) == {i \in DOMAIN ledger : DayStart[ledger[i].at] = day}
DailyLimitRespected ==
  \A day \in Times : Cardinality(OnDay(day)) <= DailyAttempts

\* The limits on the number of attempts: per minute, per minute and session, and
\* per day.
AttemptsRespected ==
  GlobalRateRespected /\ SessionRateRespected /\ DailyLimitRespected

\* The tokens of a calendar month, used or still reserved, stay within the
\* monthly limit.
InMonth(month) == {i \in DOMAIN ledger : MonthStart[ledger[i].at] = month}
MonthlyTokensRespected ==
  \A month \in Times : Charged(InMonth(month)) <= MonthlyTokens
=============================================================================
