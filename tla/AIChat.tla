------------------------------- MODULE AIChat -------------------------------
(***************************************************************************)
(* The life of one Ask BizPulse turn, from the HTTP request that asks for  *)
(* it to the terminal row in PostgreSQL.                                   *)
(*                                                                         *)
(* src/bizpulse/src/services/ai_chat_service.py (AIChatService.submit)     *)
(* runs in a request thread (a worker here) and talks to the database in a *)
(* sequence of short transactions, with a provider call between two of     *)
(* them.  Other threads, session ends, chat deletions, lease expiries and  *)
(* process crashes interleave between any two of those transactions.  The  *)
(* triggers and unique indexes of alembic 0006, 0007 and 0008 are part of  *)
(* the transactions they guard.                                            *)
(*                                                                         *)
(* Every transaction has three outcomes: "ok", "lost" (it committed but    *)
(* the acknowledgement was lost, so the caller sees an exception) and      *)
(* "fail" (it rolled back).  After an exception the code reads the row     *)
(* back on a second connection; that read is a step of its own.            *)
(***************************************************************************)
EXTENDS Naturals, Sequences, FiniteSets

CONSTANTS
  DemoSessions,      \* viewer sessions
  OperatorSessions,  \* operator sessions
  Keys,              \* client idempotency keys
  Payloads,          \* questions with their scope, the rest of the request hash
  Presets,           \* payloads with a fixed intent: no planning call
  Workers,           \* request threads
  MaxConcurrent,     \* AIBudgetLimits.max_concurrent_turns
  MaxEpoch,          \* bound: chat deletions of one demo session
  MaxRevision,       \* bound: credential control revisions
  MaxAttempts,       \* bound: provider attempts ever recorded
  MaxFaults          \* bound: transactions that end in an exception, and crashes

ASSUME SessionKindsDisjoint == DemoSessions \cap OperatorSessions = {}
ASSUME PresetsArePayloads == Presets \subseteq Payloads
ASSUME ConcurrencyLimitPositive == MaxConcurrent \in Nat \ {0}
ASSUME BoundsAreNatural ==
  /\ MaxEpoch \in Nat
  /\ MaxRevision \in Nat \ {0}
  /\ MaxAttempts \in Nat
  /\ MaxFaults \in Nat

VARIABLES
  session,   \* demo_sessions / operator_sessions: state and chat_epoch
  turn,      \* ai_chat_turns, with its ai_chat_tool_runs and evidence rows
  attempts,  \* ids of the ai_chat_attempts rows that still exist
  ledger,    \* ai_budget_ledger: one entry per attempt ever recorded
  revision,  \* control revision of the credential select_binding returns
  worker,    \* local state of AIChatService.submit in each request thread
  faults     \* exceptions injected so far

vars == <<session, turn, attempts, ledger, revision, worker, faults>>

Sessions == DemoSessions \cup OperatorSessions

\* turn_id = uuid5(actor, session, key hash, request hash); the request hash
\* holds the payload and, for demo principals only, the chat epoch.
TurnIds == {t \in [s : Sessions, e : 0..MaxEpoch, k : Keys, p : Payloads] :
              t.s \in OperatorSessions => t.e = 0}

Stages == {"planning", "answering"}
ActiveStatuses == {"planning", "querying", "answering"}
TerminalStatuses ==
  {"answered", "clarification_required", "unsupported", "failed",
   "outcome_unknown"}
Outcomes == {"ok", "lost", "fail"}
NoWorker == "no worker"
ASSUME NoWorkerIsNone == NoWorker \notin Workers

TurnRow ==
  [status   : ActiveStatuses \cup TerminalStatuses \cup {"absent"},
   lapsed   : BOOLEAN,                   \* lease_expires_at <= now
   owner    : Workers \cup {NoWorker},   \* live request with this request id
   binding  : 0..MaxRevision,            \* credential_control_revision
   tool     : {"none", "succeeded", "failed"},
   evidence : BOOLEAN,
   kept     : BOOLEAN]   \* has an ai_chat_saved_records row or an action card

AbsentRow ==
  [status |-> "absent", lapsed |-> FALSE, owner |-> NoWorker, binding |-> 0,
   tool |-> "none", evidence |-> FALSE, kept |-> FALSE]

LedgerRow ==
  [t : TurnIds, stage : Stages, calls : Nat,
   status : {"started", "succeeded", "failed", "outcome_unknown"}]

IdleWorker ==
  [pc |-> "idle", s |-> "-", e |-> 0, k |-> "-", p |-> "-", retried |-> FALSE,
   back |-> "-", b |-> 0, stage |-> "-", att |-> 0, out |-> "-",
   from |-> "-", to |-> "-"]

Init ==
  /\ session = [s \in Sessions |-> [state |-> "live", epoch |-> 0]]
  /\ turn = [t \in TurnIds |-> AbsentRow]
  /\ attempts = {}
  /\ ledger = <<>>
  /\ revision = 1
  /\ worker = [w \in Workers |-> IdleWorker]
  /\ faults = 0

-----------------------------------------------------------------------------
(***************************************************************************)
(* Reading the tables                                                      *)
(***************************************************************************)
Active(t) == turn[t].status \in ActiveStatuses
Exists(t) == turn[t].status # "absent"
ActiveTurns == {t \in TurnIds : Active(t)}
AttemptsOf(t) == {i \in attempts : ledger[i].t = t}
AttemptFor(t, stage) == {i \in AttemptsOf(t) : ledger[i].stage = stage}

\* find_by_key: the row of this session with this idempotency key.
FoundByKey(s, k) == {t \in TurnIds : Exists(t) /\ t.s = s /\ t.k = k}

\* The id submit computes for the request of worker w.
Tid(w) ==
  [s |-> worker[w].s, k |-> worker[w].k, p |-> worker[w].p,
   e |-> IF worker[w].s \in DemoSessions THEN worker[w].e ELSE 0]

\* lock_demo_chat_epoch, with the clock read when the request began: a session
\* that expired since still passes, an ended or cleared one does not.  Operator
\* sessions are not looked up again.
EpochHolds_IgnoresEpoch(w) ==   \* mutant: chat_epoch is not compared
  worker[w].s \in DemoSessions => session[worker[w].s].state # "ended"
EpochHolds(w) ==
  worker[w].s \in DemoSessions =>
    /\ session[worker[w].s].state # "ended"
    /\ session[worker[w].s].epoch = worker[w].e

\* recover_stale: both updates run under the global budget lock.
Stale_SkipsPlanning(t) ==   \* mutant: one in-flight status forgotten
  turn[t].status \in {"querying", "answering"} /\ turn[t].lapsed
Stale(t) == Active(t) /\ turn[t].lapsed

RecoveredStatus_AlwaysFailed(t) == "failed"   \* mutant: attempts not consulted
RecoveredStatus(t) ==
  IF \E i \in AttemptsOf(t) : ledger[i].status \in {"started", "outcome_unknown"}
  THEN "outcome_unknown"
  ELSE "failed"

RecoveredTurns ==
  [t \in TurnIds |->
     IF Stale(t)
     THEN [turn[t] EXCEPT !.status = RecoveredStatus(t), !.lapsed = FALSE]
     ELSE turn[t]]

RecoveredLedger ==
  [i \in DOMAIN ledger |->
     IF i \in attempts /\ Stale(ledger[i].t) /\ ledger[i].status = "started"
     THEN [ledger[i] EXCEPT !.status = "outcome_unknown"]
     ELSE ledger[i]]

-----------------------------------------------------------------------------
(***************************************************************************)
(* Worker bookkeeping                                                      *)
(***************************************************************************)
Fault(o) ==
  \/ o = "ok" /\ UNCHANGED faults
  \/ o # "ok" /\ faults < MaxFaults /\ faults' = faults + 1

Go(w, pc) == worker' = [worker EXCEPT ![w].pc = pc]

\* submit returns or raises: the request id of w is never used again, so its
\* rows have no live owner any more.
Finish(w) == worker' = [worker EXCEPT ![w] = IdleWorker]
Released(w, rows) ==
  [t \in TurnIds |->
     IF rows[t].owner = w THEN [rows[t] EXCEPT !.owner = NoWorker] ELSE rows[t]]
Leave(w, rows) == Finish(w) /\ turn' = Released(w, rows)

\* Leave through _terminal(turn.id, from, to).
Close(w, from, to) ==
  worker' = [worker EXCEPT ![w].pc = "terminal", ![w].from = from, ![w].to = to]

\* Go on to the provider attempt of a stage.
BeginStage(w, stage) ==
  worker' = [worker EXCEPT ![w].pc = "begin", ![w].stage = stage]

-----------------------------------------------------------------------------
(***************************************************************************)
(* From the request to the reservation                                     *)
(***************************************************************************)
\* The router resolves the session and captures its epoch in the principal.
Submit(w, s, k, p) ==
  /\ worker[w].pc = "idle"
  /\ session[s].state = "live"
  /\ worker' = [worker EXCEPT ![w] =
                  [IdleWorker EXCEPT !.pc = "recover", !.s = s, !.k = k, !.p = p,
                                     !.e = session[s].epoch]]
  /\ UNCHANGED <<session, turn, attempts, ledger, revision, faults>>

Lookup(w, back) ==
  worker' = [worker EXCEPT ![w].pc = "lookup", ![w].back = back]

\* _recover_and_find_replay: fence, budget lock, recover_stale, find_by_key.
Recover(w, o) ==
  /\ worker[w].pc = "recover"
  /\ Fault(o)
  /\ IF EpochHolds(w) /\ o # "fail"
     THEN turn' = RecoveredTurns /\ ledger' = RecoveredLedger
     ELSE UNCHANGED <<turn, ledger>>
  /\ IF ~EpochHolds(w) \/ o # "ok"
       THEN Lookup(w, "recover")
     ELSE IF FoundByKey(worker[w].s, worker[w].k) = {}
       THEN Go(w, "select")
     ELSE Finish(w)   \* an exact replay, or AIChatConflict
  /\ UNCHANGED <<session, attempts, revision>>

\* select_binding: the channel is enabled and bound, or the request ends with
\* a replay or a refusal.
Select(w) ==
  /\ worker[w].pc = "select"
  /\ \/ worker' = [worker EXCEPT ![w].pc = "reserve", ![w].b = revision]
     \/ Lookup(w, "select")
  /\ UNCHANGED <<session, turn, attempts, ledger, revision, faults>>

\* The partial unique index on in-flight turns of one session.
InFlightIndexFree_NoIndex(s, rows) == TRUE   \* mutant: no index
InFlightIndexFree(s, rows) ==
  \A t \in TurnIds : t.s = s => rows[t].status \notin ActiveStatuses

BelowConcurrencyLimit_OffByOne(rows) ==   \* mutant: > instead of >=
  Cardinality({t \in TurnIds : rows[t].status \in ActiveStatuses}) <= MaxConcurrent
BelowConcurrencyLimit(rows) ==
  Cardinality({t \in TurnIds : rows[t].status \in ActiveStatuses}) < MaxConcurrent

\* The reservation transaction of submit: advisory locks, epoch fence,
\* recover_stale, replay, concurrency limit, insert_turn.  A refusal raises
\* inside the transaction and rolls its recover_stale back.
Reserve(w, o) ==
  LET t == Tid(w)
      found == FoundByKey(worker[w].s, worker[w].k)
      rows == RecoveredTurns
      inserts == /\ found = {}
                 /\ EpochHolds(w)
                 /\ BelowConcurrencyLimit(rows)
                 /\ InFlightIndexFree(worker[w].s, rows)
      replays == EpochHolds(w) /\ t \in found
      new == [AbsentRow EXCEPT !.status = "planning", !.owner = w,
                               !.binding = worker[w].b]
  IN /\ worker[w].pc = "reserve"
     /\ Fault(o)
     /\ ledger' = IF o # "fail" /\ (inserts \/ replays) THEN RecoveredLedger
                                                         ELSE ledger
     /\ turn' = CASE o = "fail" -> turn
                  [] o # "fail" /\ inserts -> [rows EXCEPT ![t] = new]
                  [] o # "fail" /\ replays -> rows
                  [] OTHER -> turn
     /\ CASE o = "ok" /\ inserts -> Go(w, "planning")
          [] o = "ok" /\ replays -> Finish(w)
          [] OTHER -> Lookup(w, "reserve")
     /\ UNCHANGED <<session, attempts, revision>>

\* _find_replay after an exception.  Only a reservation whose credential
\* fields are this request's own makes the worker carry on as the driver.
OwnsReservation_AnyRequest(w, t) == Exists(t)   \* mutant: fields not compared
OwnsReservation(w, t) ==
  turn[t].owner = w /\ turn[t].binding = worker[w].b

LookupReplay(w) ==
  LET t == Tid(w)
      mine == t \in FoundByKey(worker[w].s, worker[w].k)
  IN /\ worker[w].pc = "lookup"
     /\ CASE /\ worker[w].back = "reserve" /\ mine
             /\ OwnsReservation(w, t)
             /\ turn[t].status = "planning"
               -> Go(w, "planning") /\ UNCHANGED turn
          [] /\ worker[w].back = "recover" /\ ~worker[w].retried
             /\ FoundByKey(worker[w].s, worker[w].k) = {}
               -> /\ worker' = [worker EXCEPT ![w].pc = "recover",
                                              ![w].retried = TRUE]
                  /\ UNCHANGED turn
          [] OTHER -> Leave(w, turn)
     /\ UNCHANGED <<session, attempts, ledger, revision, faults>>

-----------------------------------------------------------------------------
(***************************************************************************)
(* Moving a turn                                                           *)
(***************************************************************************)
\* The trigger protect_ai_chat_turn.
AllowedEdges ==
  ({"planning"} \X {"querying", "clarification_required", "unsupported",
                    "failed", "outcome_unknown"})
    \cup ({"querying"} \X {"answering", "clarification_required", "failed",
                           "outcome_unknown"})
    \cup ({"answering"} \X {"answered", "clarification_required", "failed",
                            "outcome_unknown"})

\* UPDATE ... WHERE status = expected_status, under the trigger.
MayMove_NoExpectedStatus(t, from, to) == Exists(t)   \* mutant: WHERE id = only
MayMove(t, from, to) == turn[t].status = from /\ <<from, to>> \in AllowedEdges

\* The new status with a renewed lease, or none for a terminal status.
Moved(t, to) ==
  [turn EXCEPT ![t] = [turn[t] EXCEPT !.status = to, !.lapsed = FALSE]]

\* _terminal.  After an exception the row is read back and the same row is
\* returned, or the exception propagates: submit is over either way.
Terminal(w, o) ==
  LET t == Tid(w)
      moves == MayMove(t, worker[w].from, worker[w].to)
  IN /\ worker[w].pc = "terminal"
     /\ Fault(o)
     /\ Leave(w, IF moves /\ o # "fail" THEN Moved(t, worker[w].to) ELSE turn)
     /\ UNCHANGED <<session, attempts, ledger, revision>>

\* The checks of submit before it asks the provider: a question outside the
\* whitelist or too short ends here, a preset skips planning.
StartPlanning(w) ==
  /\ worker[w].pc = "planning"
  /\ \/ \E to \in {"unsupported", "clarification_required"} :
          Close(w, "planning", to)
     \/ worker[w].p \in Presets /\ Go(w, "to_querying")
     \/ worker[w].p \notin Presets /\ BeginStage(w, "planning")
  /\ UNCHANGED <<session, turn, attempts, ledger, revision, faults>>

-----------------------------------------------------------------------------
(***************************************************************************)
(* One provider attempt: _begin_attempt, the call, _finish_attempt         *)
(***************************************************************************)
\* A rate limit or budget refusal (module AIBudget says when).
RefuseAttempt(w) ==
  /\ worker[w].pc = "begin"
  /\ Close(w, worker[w].stage, "failed")
  /\ UNCHANGED <<session, turn, attempts, ledger, revision, faults>>

\* The insert trigger wants the parent in the attempt's stage.
ParentInStage(t, stage) == turn[t].status = stage

CallWith(w, i) == worker' = [worker EXCEPT ![w].pc = "call", ![w].att = i]

BeginAttempt(w, o) ==
  LET t == Tid(w)
      stage == worker[w].stage
      recorded == AttemptFor(t, stage) # {}
      inserts == ParentInStage(t, stage) /\ ~recorded /\ o # "fail"
      id == Len(ledger) + 1
  IN /\ worker[w].pc = "begin"
     /\ Fault(o)
     /\ IF inserts
        THEN /\ Len(ledger) < MaxAttempts
             /\ attempts' = attempts \cup {id}
             /\ ledger' = Append(ledger, [t |-> t, stage |-> stage, calls |-> 0,
                                          status |-> "started"])
        ELSE UNCHANGED <<attempts, ledger>>
     /\ CASE o = "ok" /\ inserts ->
               CallWith(w, id)
          [] o = "ok" /\ ParentInStage(t, stage) /\ recorded ->
               Close(w, stage, "failed")   \* IntegrityError
          [] OTHER -> Go(w, "rb_begin")
     /\ UNCHANGED <<session, turn, revision>>

\* After an exception: adopt the started attempt of this turn and stage, or
\* raise and leave the turn as it is.
AdoptAttempt(w) ==
  LET open == {i \in AttemptFor(Tid(w), worker[w].stage) :
                 ledger[i].status = "started"}
  IN /\ worker[w].pc = "rb_begin"
     /\ \/ (\E i \in open : CallWith(w, i)) /\ UNCHANGED turn
        \/ open = {} /\ Leave(w, turn)
     /\ UNCHANGED <<session, attempts, ledger, revision, faults>>

\* The provider answers: usable, usable but rejected by the caller ("reject"),
\* with more tokens than reserved ("over"), an error, or an unknown outcome.
ProviderOutcomes == {"ok", "reject", "over", "failed", "unknown"}

Call(w, out) ==
  /\ worker[w].pc = "call"
  /\ ledger' = [ledger EXCEPT ![worker[w].att].calls = @ + 1]
  /\ worker' = [worker EXCEPT ![w].pc = "finish", ![w].out = out]
  /\ UNCHANGED <<session, turn, attempts, revision, faults>>

\* What submit does with the answer once the attempt is recorded.
AfterCall(w) ==
  LET stage == worker[w].stage
      out == worker[w].out
  IN CASE out = "unknown" -> Close(w, stage, "outcome_unknown")
       [] out = "failed" -> Close(w, stage, "failed")
       [] out = "reject" /\ stage = "planning" ->
            \E to \in {"clarification_required", "unsupported"} :
              Close(w, "planning", to)
       [] out = "reject" /\ stage = "answering" -> Close(w, "answering", "failed")
       [] out = "ok" /\ stage = "planning" -> Go(w, "to_querying")
       [] OTHER -> Go(w, "complete")

AttemptResult(out) ==
  CASE out = "failed" -> "failed"
    [] out = "unknown" -> "outcome_unknown"
    [] OTHER -> "succeeded"

\* UPDATE ... WHERE status = 'started', under protect_ai_chat_attempt.
Unfinished(i) == i \in attempts /\ ledger[i].status = "started"

FinishAttempt(w, o) ==
  LET i == worker[w].att
      refused == i \notin attempts \/ worker[w].out = "over"
  IN /\ worker[w].pc = "finish"
     /\ Fault(o)
     /\ ledger' = IF ~refused /\ o # "fail" /\ Unfinished(i)
                  THEN [ledger EXCEPT ![i].status = AttemptResult(worker[w].out)]
                  ELSE ledger
     /\ CASE refused /\ o = "ok" -> Close(w, worker[w].stage, "failed")
          [] ~refused /\ o = "ok" -> AfterCall(w)
          [] OTHER -> Go(w, "rb_finish")
     /\ UNCHANGED <<session, turn, attempts, revision>>

\* The read-back of the attempt after an exception.
FinishIsDurable_RowExists(i, out) == i \in attempts   \* mutant: any row will do
FinishIsDurable(i, out) ==
  i \in attempts /\ ledger[i].status = AttemptResult(out)

\* Otherwise the exception propagates and the turn stays as it is.
GiveUp_CallsAgain(w) ==   \* mutant: retry the provider
  Go(w, "call") /\ UNCHANGED turn
GiveUp(w) == Leave(w, turn)

ConfirmFinish(w) ==
  LET i == worker[w].att
  IN /\ worker[w].pc = "rb_finish"
     /\ IF FinishIsDurable(i, worker[w].out)
        THEN AfterCall(w) /\ UNCHANGED turn
        ELSE GiveUp(w)
     /\ UNCHANGED <<session, attempts, ledger, revision, faults>>

-----------------------------------------------------------------------------
(***************************************************************************)
(* The authoritative query and the answer                                  *)
(***************************************************************************)
\* The plan's tool does not fit the pinned context of the question.
ContextMismatch(w) ==
  /\ worker[w].pc = "to_querying"
  /\ Close(w, "planning", "unsupported")
  /\ UNCHANGED <<session, turn, attempts, ledger, revision, faults>>

ToQuerying(w, o) ==
  LET t == Tid(w)
      moves == MayMove(t, "planning", "querying")
  IN /\ worker[w].pc = "to_querying"
     /\ Fault(o)
     /\ turn' = IF moves /\ o # "fail" THEN Moved(t, "querying") ELSE turn
     /\ IF moves /\ o = "ok" THEN Go(w, "execute") ELSE Go(w, "rb_querying")
     /\ UNCHANGED <<session, attempts, ledger, revision>>

\* The read-back accepts a querying row with the same tool.  A row that another
\* request moved may hold another tool.
ConfirmQuerying(w) ==
  LET t == Tid(w)
  IN /\ worker[w].pc = "rb_querying"
     /\ \/ turn[t].status = "querying" /\ Go(w, "execute")
        \/ /\ turn[t].status # "querying" \/ turn[t].owner # w
           /\ Close(w, "planning", "failed")
     /\ UNCHANGED <<session, turn, attempts, ledger, revision, faults>>

\* QueryExecutor.execute reads only: facts, none, QueryExecutionFailed, or
\* another exception.
QueryOutcomes == {"facts", "nofacts", "failed", "error"}

Execute(w, out) ==
  /\ worker[w].pc = "execute"
  /\ IF out = "error"
     THEN Close(w, "querying", "failed")
     ELSE worker' = [worker EXCEPT ![w].pc = "store", ![w].out = out]
  /\ UNCHANGED <<session, turn, attempts, ledger, revision, faults>>

\* The tool run can be inserted once, under a querying parent.
ToolRunInsertable(t) == turn[t].status = "querying" /\ turn[t].tool = "none"

ResultStatus(out) ==
  IF out = "facts" THEN "answering" ELSE "clarification_required"

\* The result is durable: explain it, or return the clarification.
AfterStore(w) ==
  IF worker[w].out = "facts"
  THEN BeginStage(w, "answering")
  ELSE Finish(w)

RowsAfterStore(w, rows) ==
  IF worker[w].out = "facts" THEN rows ELSE Released(w, rows)

\* One transaction: the tool run and the move out of querying.
StoreResult(w, o) ==
  LET t == Tid(w)
      to == ResultStatus(worker[w].out)
      commits == ToolRunInsertable(t) /\ MayMove(t, "querying", to) /\ o # "fail"
      rows == IF commits THEN [Moved(t, to) EXCEPT ![t].tool = "succeeded"]
                         ELSE turn
  IN /\ worker[w].pc = "store" /\ worker[w].out \in {"facts", "nofacts"}
     /\ Fault(o)
     /\ IF commits /\ o = "ok"
        THEN AfterStore(w) /\ turn' = RowsAfterStore(w, rows)
        ELSE Go(w, "rb_store") /\ turn' = rows
     /\ UNCHANGED <<session, attempts, ledger, revision>>

ConfirmStore(w) ==
  LET t == Tid(w)
  IN /\ worker[w].pc = "rb_store"
     /\ IF /\ turn[t].status = ResultStatus(worker[w].out)
           /\ turn[t].tool = "succeeded"
        THEN AfterStore(w) /\ turn' = RowsAfterStore(w, turn)
        ELSE Close(w, "querying", "failed") /\ UNCHANGED turn
     /\ UNCHANGED <<session, attempts, ledger, revision, faults>>

\* QueryExecutionFailed: record the failed run if possible; an exception of
\* this transaction is swallowed.
RecordQueryFailure(w, o) ==
  LET t == Tid(w)
  IN /\ worker[w].pc = "store" /\ worker[w].out = "failed"
     /\ Fault(o)
     /\ turn' = IF ToolRunInsertable(t) /\ o # "fail"
                THEN [turn EXCEPT ![t].tool = "failed"]
                ELSE turn
     /\ Close(w, "querying", "failed")
     /\ UNCHANGED <<session, attempts, ledger, revision>>

\* One transaction: the evidence rows and answering -> answered.  After an
\* exception the code only decides what to tell the client.
Complete(w, o) ==
  LET t == Tid(w)
      commits == MayMove(t, "answering", "answered") /\ ~turn[t].evidence
                   /\ o # "fail"
  IN /\ worker[w].pc = "complete"
     /\ Fault(o)
     /\ Leave(w, IF commits
                 THEN [Moved(t, "answered") EXCEPT ![t].evidence = TRUE]
                 ELSE turn)
     /\ UNCHANGED <<session, attempts, ledger, revision>>

-----------------------------------------------------------------------------
(***************************************************************************)
(* Everything else that touches the tables                                 *)
(***************************************************************************)
\* The process dies, or the request thread is torn down.
Crash(w) ==
  /\ worker[w].pc # "idle"
  /\ Fault("fail")
  /\ Leave(w, turn)
  /\ UNCHANGED <<session, attempts, ledger, revision>>

\* CHAT_LEASE passes without a transition.
Lapse(t) ==
  /\ Active(t) /\ ~turn[t].lapsed
  /\ turn' = [turn EXCEPT ![t].lapsed = TRUE]
  /\ UNCHANGED <<session, attempts, ledger, revision, worker, faults>>

\* Delete the turns in gone; their attempts, tool runs and evidence cascade,
\* the ledger keeps its rows.
Delete(gone) ==
  /\ turn' = [t \in TurnIds |-> IF t \in gone THEN AbsentRow ELSE turn[t]]
  /\ attempts' = {i \in attempts : ledger[i].t \notin gone}

\* AIChatService.delete_demo_session.
DeleteDemoChat(s) ==
  /\ s \in DemoSessions
  /\ session[s].state = "live" /\ session[s].epoch < MaxEpoch
  /\ session' = [session EXCEPT ![s].epoch = @ + 1]
  /\ Delete({t \in TurnIds : t.s = s})
  /\ UNCHANGED <<ledger, revision, worker, faults>>

\* idle_expires_at or absolute_expires_at passes.
Expire(s) ==
  /\ session[s].state = "live"
  /\ session' = [session EXCEPT ![s].state = "expired"]
  /\ UNCHANGED <<turn, attempts, ledger, revision, worker, faults>>

\* end_demo_session, expire_demo_sessions, revoke_operator_session and
\* revoke_active_for_operator, each with _delete_ephemeral_chat.
EndSession(s) ==
  /\ session[s].state # "ended"
  /\ session' = [session EXCEPT ![s].state = "ended"]
  /\ Delete({t \in TurnIds : t.s = s /\ ~turn[t].kept})
  /\ UNCHANGED <<ledger, revision, worker, faults>>

\* save_answer, or a card made from the answer (create_action_draft).
KeepAnswer(t) ==
  /\ t.s \in OperatorSessions /\ session[t.s].state = "live"
  /\ turn[t].status = "answered" /\ ~turn[t].kept
  /\ turn' = [turn EXCEPT ![t].kept = TRUE]
  /\ UNCHANGED <<session, attempts, ledger, revision, worker, faults>>

\* A key rotation or a control update: select_binding returns a new revision.
RotateCredential ==
  /\ revision < MaxRevision
  /\ revision' = revision + 1
  /\ UNCHANGED <<session, turn, attempts, ledger, worker, faults>>

-----------------------------------------------------------------------------
Transaction(w, o) ==
  \/ Recover(w, o) \/ Reserve(w, o) \/ BeginAttempt(w, o) \/ FinishAttempt(w, o)
  \/ ToQuerying(w, o) \/ StoreResult(w, o) \/ RecordQueryFailure(w, o)
  \/ Complete(w, o) \/ Terminal(w, o)

Step(w) ==
  \/ \E o \in Outcomes : Transaction(w, o)
  \/ Select(w) \/ LookupReplay(w) \/ StartPlanning(w)
  \/ RefuseAttempt(w) \/ AdoptAttempt(w) \/ ConfirmFinish(w)
  \/ \E out \in ProviderOutcomes : Call(w, out)
  \/ ContextMismatch(w) \/ ConfirmQuerying(w) \/ ConfirmStore(w)
  \/ \E out \in QueryOutcomes : Execute(w, out)

Request(w) == \E s \in Sessions, k \in Keys, p \in Payloads : Submit(w, s, k, p)

Environment ==
  \/ \E w \in Workers : Crash(w)
  \/ \E t \in TurnIds : Lapse(t) \/ KeepAnswer(t)
  \/ \E s \in Sessions : DeleteDemoChat(s) \/ Expire(s) \/ EndSession(s)
  \/ RotateCredential

Next ==
  \/ \E w \in Workers : Request(w) \/ Step(w)
  \/ Environment

Spec == Init /\ [][Next]_vars

\* Request threads run until they return, time passes, and clients of live
\* sessions keep asking: recover_stale runs inside submit and nowhere else.
Fairness ==
  /\ \A w \in Workers : WF_vars(Request(w)) /\ WF_vars(Step(w))
  /\ \A t \in TurnIds : WF_vars(Lapse(t))

FairSpec == Spec /\ Fairness

-----------------------------------------------------------------------------
(***************************************************************************)
(* Properties                                                              *)
(***************************************************************************)
WorkerPCs ==
  {"idle", "recover", "select", "reserve", "lookup", "planning", "begin",
   "rb_begin", "call", "finish", "rb_finish", "to_querying", "rb_querying",
   "execute", "store", "rb_store", "complete", "terminal"}

\* Every variable has its type; a worker past the provider call holds the id
\* of a recorded attempt.
TypeOK ==
  /\ session \in [Sessions -> [state : {"live", "expired", "ended"},
                               epoch : 0..MaxEpoch]]
  /\ turn \in [TurnIds -> TurnRow]
  /\ ledger \in Seq(LedgerRow)
  /\ attempts \subseteq DOMAIN ledger
  /\ revision \in 1..MaxRevision
  /\ faults \in 0..MaxFaults
  /\ \A w \in Workers :
       /\ worker[w].pc \in WorkerPCs
       /\ worker[w].pc # "idle" => Tid(w) \in TurnIds
       /\ worker[w].pc \in {"call", "finish", "rb_finish"} =>
            worker[w].att \in DOMAIN ledger

\* The abstract view of the tables (module ChatSlots).
Phase ==
  [t \in TurnIds |-> CASE turn[t].status = "absent" -> "absent"
                       [] Active(t) -> "open"
                       [] OTHER -> "closed"]

Abstract ==
  INSTANCE ChatSlots WITH Turns <- TurnIds, Slots <- MaxConcurrent,
                          SessionOf <- [t \in TurnIds |-> t.s], phase <- Phase

\* Requests, recoveries and deletions together implement ChatSlots: a turn is
\* opened only within the limits and never opened again.
ImplementsSlots == Abstract!Spec

\* Admission: however requests interleave, never more than max_concurrent_turns
\* turns are in flight.
CapacityRespected == Cardinality(ActiveTurns) <= MaxConcurrent

\* A session has at most one turn in flight, also when a lapsed one was
\* recovered in the transaction that admitted the next.
OneInFlightPerSession ==
  \A t, u \in ActiveTurns : t.s = u.s => t = u

\* A demo turn never outlives its chat: once the session was cleared or ended,
\* no request that began before can leave a row behind.
DemoRowsAreCurrent ==
  \A t \in TurnIds : Exists(t) /\ t.s \in DemoSessions =>
    session[t.s].state # "ended" /\ session[t.s].epoch = t.e

\* A terminal turn keeps its status, evidence and tool run until it is deleted,
\* whatever a late worker still does; a kept answer is never deleted.  The budget
\* ledger forgets nothing: an entry outlives the chat it was made for, and keeps
\* the result it has.
TerminalIsFinal ==
  [][/\ \A t \in TurnIds : turn[t].status \in TerminalStatuses =>
          \/ turn'[t] = [turn[t] EXCEPT !.kept = turn'[t].kept,
                                        !.owner = turn'[t].owner]
          \/ turn'[t] = AbsentRow /\ ~turn[t].kept
     /\ \A i \in DOMAIN ledger :
          /\ i \in DOMAIN ledger'
          /\ ledger[i].status # "started" => ledger'[i].status = ledger[i].status
    ]_vars

\* A session whose turns cannot come back under an id they had: a viewer's chat
\* epoch is part of the id, an operator's turns go when the session ends.
Lasting(s) == s \in DemoSessions \/ session[s].state # "ended"

\* A row that belongs to a chat: its session has not ended, or the answer was
\* kept.  Only a late operator request leaves another one behind.
Belongs(t) == session[t.s].state # "ended" \/ turn[t].kept

\* An answered turn has its succeeded tool run, its evidence and a succeeded
\* provider attempt for each stage it went through.
AnsweredIsBacked ==
  \A t \in TurnIds : turn[t].status = "answered" /\ Belongs(t) =>
    /\ turn[t].tool = "succeeded" /\ turn[t].evidence
    /\ \A stage \in Stages \ (IF t.p \in Presets THEN {"planning"} ELSE {}) :
         \E i \in AttemptFor(t, stage) : ledger[i].status = "succeeded"

\* Each recorded attempt calls the provider at most once: no retry, replay or
\* read-back repeats a paid call.
PaidCallHappensOnce ==
  \A i \in DOMAIN ledger : Lasting(ledger[i].t.s) => ledger[i].calls <= 1

\* A provider call for a turn that is still in flight is made by the request
\* that reserved it, with the credential recorded on the turn.
CallUsesRecordedBinding ==
  \A w \in Workers :
    /\ worker[w].pc = "call" /\ Lasting(worker[w].s)
    /\ Active(Tid(w))
    => turn[Tid(w)].owner = w /\ turn[Tid(w)].binding = worker[w].b

\* A closed turn says "outcome_unknown" exactly when the outcome of one of its
\* provider calls is unknown.
UnknownOutcomeIsReported ==
  \A t \in TurnIds : turn[t].status \in TerminalStatuses /\ Belongs(t) =>
    (turn[t].status = "outcome_unknown"
       <=> \E i \in AttemptsOf(t) : ledger[i].status = "outcome_unknown")

\* A turn in flight is closed while somebody still uses the service: no lost
\* worker holds its session, or a slot of the concurrency limit, for ever.
InFlightTurnsClose ==
  \A t \in TurnIds :
    Active(t) ~> (~Active(t) \/ \A s \in Sessions : session[s].state # "live")

\* docs/superpowers/specs/2026-08-13-newcaostone-demo-single-operator-design-v0.2.0.md:725:
\* an operator's turns that were not saved are cleaned with the session.
UnsavedOperatorChatIsCleaned ==
  \A t \in TurnIds :
    t.s \in OperatorSessions /\ session[t.s].state = "ended" /\ Exists(t)
      => turn[t].kept
=============================================================================
