---------------------------- MODULE AIChatProofs ----------------------------
(***************************************************************************)
(* The turns of AIChat implement the abstract slots of ChatSlots, for      *)
(* every number of sessions, keys, questions, threads, faults and slots.   *)
(*                                                                         *)
(* The inductive invariant is a stronger type invariant: it types the      *)
(* local state of every request thread as well, because what a thread      *)
(* remembers (its session, its stage, its attempt) decides which rows the  *)
(* next transaction touches.                                               *)
(***************************************************************************)
EXTENDS AIChat, FiniteSetTheorems, TLAPS

WorkerState ==
  [pc : WorkerPCs, s : Sessions \cup {"-"}, e : 0..MaxEpoch,
   k : Keys \cup {"-"}, p : Payloads \cup {"-"}, retried : BOOLEAN,
   back : {"-", "recover", "select", "reserve"}, b : 0..MaxRevision,
   stage : Stages \cup {"-"}, att : Nat,
   out : {"-"} \cup ProviderOutcomes \cup QueryOutcomes,
   from : {"-"} \cup ActiveStatuses, to : {"-"} \cup TerminalStatuses]

\* The steps in which a thread has chosen a stage, and those in which it holds
\* an attempt.
InStage == {"begin", "rb_begin", "call", "finish", "rb_finish"}
WithAttempt == {"call", "finish", "rb_finish"}

\* What a thread in step x.pc knows about its request.
Informed(x) ==
  /\ x \in WorkerState
  /\ x.pc # "idle" => x.s \in Sessions /\ x.k \in Keys /\ x.p \in Payloads
  /\ x.pc \in InStage => x.stage \in Stages
  /\ x.pc \in WithAttempt => x.att \in DOMAIN ledger

TablesTyped ==
  /\ session \in [Sessions -> [state : {"live", "expired", "ended"},
                               epoch : 0..MaxEpoch]]
  /\ turn \in [TurnIds -> TurnRow]
  /\ ledger \in Seq(LedgerRow)
  /\ attempts \subseteq DOMAIN ledger
  /\ revision \in 1..MaxRevision
  /\ faults \in 0..MaxFaults

WorkersTyped ==
  /\ worker = [w \in Workers |-> worker[w]]
  /\ \A w \in Workers : Informed(worker[w])

IInv == TablesTyped /\ WorkersTyped

-----------------------------------------------------------------------------
(***************************************************************************)
(* Bookkeeping of the threads                                              *)
(***************************************************************************)
LEMMA RequestHasTurnId ==
  ASSUME IInv, NEW w \in Workers, worker[w].pc # "idle"
  PROVE  Tid(w) \in TurnIds
<1>1. worker[w].s \in Sessions /\ worker[w].k \in Keys /\ worker[w].p \in Payloads
  BY DEF IInv, WorkersTyped, Informed
<1>2. worker[w].e \in 0..MaxEpoch /\ 0 \in 0..MaxEpoch
  BY BoundsAreNatural DEF IInv, WorkersTyped, Informed, WorkerState
<1> QED
  BY <1>1, <1>2, SessionKindsDisjoint DEF Tid, TurnIds

\* A thread that moves to a well-informed state leaves the others as they are.
LEMMA OneThreadMoves ==
  ASSUME IInv, NEW w \in Workers,
         worker' = [worker EXCEPT ![w] = worker'[w]],
         DOMAIN ledger \subseteq (DOMAIN ledger)',
         Informed(worker[w])'
  PROVE  WorkersTyped'
<1>1. \A v \in Workers : v # w => worker'[v] = worker[v]
  BY DEF IInv, WorkersTyped
<1>2. worker' = [v \in Workers |-> worker'[v]]
  BY DEF IInv, WorkersTyped
<1>3. ASSUME NEW v \in Workers, v # w PROVE Informed(worker[v])'
  BY <1>1, <1>3 DEF IInv, WorkersTyped, Informed
<1> QED
  BY <1>2, <1>3 DEF WorkersTyped

LEMMA GoInforms ==
  ASSUME IInv, NEW w \in Workers, NEW pc \in WorkerPCs, Go(w, pc),
         DOMAIN ledger \subseteq (DOMAIN ledger)',
         worker[w].pc # "idle",
         pc \in InStage => worker[w].pc \in InStage,
         pc \in WithAttempt => worker[w].pc \in WithAttempt
  PROVE  WorkersTyped'
<1>1. worker'[w] = [worker[w] EXCEPT !.pc = pc]
  BY DEF Go, IInv, WorkersTyped
<1>2. worker' = [worker EXCEPT ![w] = worker'[w]]
  BY <1>1 DEF Go
<1>3. Informed(worker[w])
  BY DEF IInv, WorkersTyped
<1>4. worker'[w] \in WorkerState
  BY <1>1, <1>3 DEF Informed, WorkerState
<1>5. /\ worker'[w].pc = pc
      /\ worker'[w].s = worker[w].s /\ worker'[w].k = worker[w].k
      /\ worker'[w].p = worker[w].p /\ worker'[w].stage = worker[w].stage
      /\ worker'[w].att = worker[w].att
  BY <1>1, <1>3 DEF Informed, WorkerState
<1>6. Informed(worker[w])'
  BY <1>3, <1>4, <1>5 DEF Informed
<1> QED
  BY <1>2, <1>6, OneThreadMoves

LEMMA CloseInforms ==
  ASSUME IInv, NEW w \in Workers, NEW from \in ActiveStatuses,
         NEW to \in TerminalStatuses, Close(w, from, to),
         DOMAIN ledger \subseteq (DOMAIN ledger)', worker[w].pc # "idle"
  PROVE  WorkersTyped'
<1>1. Informed(worker[w])
  BY DEF IInv, WorkersTyped
<1>2. worker'[w] = [worker[w] EXCEPT !.pc = "terminal", !.from = from, !.to = to]
  BY DEF Close, IInv, WorkersTyped
<1>3. worker' = [worker EXCEPT ![w] = worker'[w]]
  BY <1>2 DEF Close, IInv, WorkersTyped
<1>4. worker'[w] \in WorkerState
  <2>1. worker[w] \in WorkerState
    BY <1>1 DEF Informed
  <2>2. "terminal" \in WorkerPCs
    BY DEF WorkerPCs
  <2> QED BY <1>2, <2>1, <2>2 DEF WorkerState
<1>5. /\ worker'[w].pc = "terminal"
      /\ worker'[w].s = worker[w].s /\ worker'[w].k = worker[w].k
      /\ worker'[w].p = worker[w].p
  BY <1>1, <1>2 DEF Informed, WorkerState
<1>6. Informed(worker[w])'
  BY <1>1, <1>4, <1>5 DEF Informed, InStage, WithAttempt
<1> QED
  BY <1>3, <1>6, OneThreadMoves

LEMMA FinishInforms ==
  ASSUME IInv, NEW w \in Workers, Finish(w),
         DOMAIN ledger \subseteq (DOMAIN ledger)'
  PROVE  WorkersTyped'
<1>1. worker'[w] = IdleWorker /\ worker' = [worker EXCEPT ![w] = worker'[w]]
  BY DEF Finish, IInv, WorkersTyped
<1>2. IdleWorker \in WorkerState
  BY BoundsAreNatural DEF IdleWorker, WorkerState, WorkerPCs
<1>3. Informed(worker[w])'
  BY <1>1, <1>2 DEF Informed, IdleWorker, InStage, WithAttempt
<1> QED
  BY <1>1, <1>3, OneThreadMoves

LEMMA LookupInforms ==
  ASSUME IInv, NEW w \in Workers, NEW back \in {"recover", "select", "reserve"},
         Lookup(w, back), worker[w].pc # "idle",
         DOMAIN ledger \subseteq (DOMAIN ledger)'
  PROVE  WorkersTyped'
<1>1. Informed(worker[w])
  BY DEF IInv, WorkersTyped
<1>2. worker'[w] = [worker[w] EXCEPT !.pc = "lookup", !.back = back]
  BY DEF Lookup, IInv, WorkersTyped
<1>3. worker' = [worker EXCEPT ![w] = worker'[w]]
  BY <1>2 DEF Lookup, IInv, WorkersTyped
<1>4. worker[w] \in WorkerState
  BY <1>1 DEF Informed
<1>5. back \in WorkerPCs /\ "lookup" \in WorkerPCs
  BY DEF WorkerPCs
<1>6. [worker[w] EXCEPT !.pc = "lookup", !.back = back] \in WorkerState
  BY ZenonT(30), <1>4, <1>5 DEF WorkerState
<1>7. worker'[w] \in WorkerState
  BY <1>2, <1>6
<1>8. /\ worker'[w].pc = "lookup"
      /\ worker'[w].s = worker[w].s /\ worker'[w].k = worker[w].k
      /\ worker'[w].p = worker[w].p
  BY <1>2, <1>4 DEF WorkerState
<1>9. Informed(worker[w])'
  BY <1>1, <1>7, <1>8 DEF Informed, InStage, WithAttempt
<1> QED
  BY <1>3, <1>9, OneThreadMoves

\* What follows a provider call whose attempt is recorded.
LEMMA AfterCallInforms ==
  ASSUME IInv, NEW w \in Workers, worker[w].pc \in {"finish", "rb_finish"},
         AfterCall(w), DOMAIN ledger \subseteq (DOMAIN ledger)'
  PROVE  WorkersTyped'
<1>1. worker[w].stage \in Stages /\ Stages \subseteq ActiveStatuses
  BY DEF IInv, WorkersTyped, Informed, InStage, Stages, ActiveStatuses
<1>2. \/ \E from \in ActiveStatuses, to \in TerminalStatuses : Close(w, from, to)
      \/ Go(w, "to_querying") \/ Go(w, "complete")
  BY <1>1, Zenon DEF AfterCall, TerminalStatuses, Stages, ActiveStatuses
<1>3. "to_querying" \in WorkerPCs \ InStage /\ "complete" \in WorkerPCs \ InStage
  BY DEF WorkerPCs, InStage
<1>4. WithAttempt \subseteq InStage
  BY DEF WithAttempt, InStage
<1> QED
  BY <1>2, <1>3, <1>4, GoInforms, CloseInforms

-----------------------------------------------------------------------------
(***************************************************************************)
(* The rows                                                                *)
(***************************************************************************)
LEMMA ReleaseKeepsStatuses ==
  ASSUME NEW w \in Workers, NEW rows \in [TurnIds -> TurnRow]
  PROVE  /\ Released(w, rows) \in [TurnIds -> TurnRow]
         /\ \A t \in TurnIds : Released(w, rows)[t].status = rows[t].status
BY DEF Released, TurnRow

LEMMA MoveClosesOrKeepsOpen ==
  ASSUME IInv, NEW t \in TurnIds, NEW from, NEW to, MayMove(t, from, to)
  PROVE  /\ Moved(t, to) \in [TurnIds -> TurnRow]
         /\ Active(t)
         /\ to \in ActiveStatuses \cup TerminalStatuses
         /\ \A u \in TurnIds : Moved(t, to)[u].status =
                                 IF u = t THEN to ELSE turn[u].status
<1>1. from \in ActiveStatuses /\ to \in ActiveStatuses \cup TerminalStatuses
  BY DEF MayMove, AllowedEdges, ActiveStatuses, TerminalStatuses
<1>2. Active(t)
  BY <1>1 DEF MayMove, Active
<1>3. turn \in [TurnIds -> TurnRow]
  BY DEF IInv, TablesTyped
<1>4. /\ Moved(t, to) \in [TurnIds -> TurnRow]
      /\ \A u \in TurnIds : Moved(t, to)[u].status =
                              IF u = t THEN to ELSE turn[u].status
  BY <1>1, <1>3 DEF Moved, TurnRow
<1> QED
  BY <1>1, <1>2, <1>4

LEMMA RecoveryClosesStaleTurns ==
  ASSUME IInv
  PROVE  /\ RecoveredTurns \in [TurnIds -> TurnRow]
         /\ \A t \in TurnIds :
              RecoveredTurns[t].status =
                IF Stale(t) THEN RecoveredStatus(t) ELSE turn[t].status
         /\ \A t \in TurnIds : RecoveredStatus(t) \in TerminalStatuses
         /\ RecoveredLedger \in Seq(LedgerRow)
         /\ DOMAIN RecoveredLedger = DOMAIN ledger
<1>1. turn \in [TurnIds -> TurnRow]
  BY DEF IInv, TablesTyped
<1>2. \A t \in TurnIds : RecoveredStatus(t) \in TerminalStatuses
  BY DEF RecoveredStatus, TerminalStatuses
<1>3. /\ RecoveredTurns \in [TurnIds -> TurnRow]
      /\ \A t \in TurnIds :
           RecoveredTurns[t].status =
             IF Stale(t) THEN RecoveredStatus(t) ELSE turn[t].status
  BY <1>1, <1>2 DEF RecoveredTurns, TurnRow
<1>4. ledger \in [1..Len(ledger) -> LedgerRow] /\ Len(ledger) \in Nat
  BY DEF IInv, TablesTyped
<1>5. RecoveredLedger \in [1..Len(ledger) -> LedgerRow]
  BY <1>4 DEF RecoveredLedger, LedgerRow
<1> QED
  BY <1>2, <1>3, <1>4, <1>5

-----------------------------------------------------------------------------
(***************************************************************************)
(* The abstract view                                                       *)
(***************************************************************************)
\* A step after which a turn has its status, or was active and still exists.
TurnsAdvance ==
  /\ turn' \in [TurnIds -> TurnRow]
  /\ \A t \in TurnIds :
       \/ turn'[t].status = turn[t].status
       \/ Active(t) /\ turn'[t].status # "absent"

\* Such a step closes some open slots, or none.
LEMMA AdvancingClosesSlots ==
  ASSUME IInv, TurnsAdvance
  PROVE  Abstract!Next
<1> DEFINE done == {t \in TurnIds : Active(t) /\ ~Active(t)'}
<1>1. turn \in [TurnIds -> TurnRow] /\ turn' \in [TurnIds -> TurnRow]
  BY DEF IInv, TablesTyped, TurnsAdvance
<1>2. done \subseteq Abstract!Open
  BY DEF Abstract!Open, Phase, Active, ActiveStatuses
<1>3. Phase' = [t \in TurnIds |-> IF t \in done THEN "closed" ELSE Phase[t]]
  BY <1>1 DEF Phase, Active, TurnsAdvance, TurnRow
<1>4. Abstract!Close(done)
  BY <1>2, <1>3 DEF Abstract!Close
<1> QED
  BY <1>4 DEF Abstract!Next

\* Deleting turns of one session forgets their slots.
LEMMA DeletingForgetsSlots ==
  ASSUME IInv, NEW gone \in SUBSET TurnIds, Delete(gone),
         \A t, u \in gone : t.s = u.s
  PROVE  Abstract!Next
<1>1. \A t \in TurnIds : turn'[t].status =
                           IF t \in gone THEN "absent" ELSE turn[t].status
  BY DEF Delete, AbsentRow
<1>2. Phase' = [t \in TurnIds |-> IF t \in gone THEN "absent" ELSE Phase[t]]
  BY <1>1 DEF Phase, Active, ActiveStatuses
<1>3. Abstract!Forget(gone)
  BY <1>2 DEF Abstract!Forget
<1> QED
  BY <1>3 DEF Abstract!Next

-----------------------------------------------------------------------------
(***************************************************************************)
(* The transactions                                                        *)
(***************************************************************************)
LEMMA FaultIsCounted ==
  ASSUME IInv, NEW o, Fault(o)
  PROVE  faults' \in 0..MaxFaults
BY BoundsAreNatural DEF IInv, TablesTyped, Fault

\* Rows that stay as they are, and a worker that leaves.
LEMMA RowsKept ==
  ASSUME IInv, UNCHANGED turn
  PROVE  TurnsAdvance
BY DEF IInv, TablesTyped, TurnsAdvance

LEMMA LeavingAdvances ==
  ASSUME IInv, NEW w \in Workers, NEW rows \in [TurnIds -> TurnRow],
         Leave(w, rows), DOMAIN ledger \subseteq (DOMAIN ledger)',
         \A t \in TurnIds : \/ rows[t].status = turn[t].status
                            \/ Active(t) /\ rows[t].status # "absent"
  PROVE  TurnsAdvance /\ WorkersTyped'
<1>1. WorkersTyped'
  BY FinishInforms DEF Leave
<1>2. TurnsAdvance
  BY ReleaseKeepsStatuses DEF Leave, TurnsAdvance
<1> QED
  BY <1>1, <1>2

\* What each step of a request shows: the rows advance, and types are kept.
RequestStep == TurnsAdvance /\ IInv'

\* A step that touches no table but the turns, which advance.
LEMMA TurnsOnly ==
  ASSUME IInv, UNCHANGED <<session, attempts, ledger, revision>>,
         faults' \in 0..MaxFaults, TurnsAdvance, WorkersTyped'
  PROVE  RequestStep
BY DEF IInv, TablesTyped, TurnsAdvance, RequestStep

LEMMA SubmitStep ==
  ASSUME IInv, NEW w \in Workers, NEW s \in Sessions, NEW k \in Keys,
         NEW p \in Payloads, Submit(w, s, k, p)
  PROVE  RequestStep
<1>1. worker'[w] = [IdleWorker EXCEPT !.pc = "recover", !.s = s, !.k = k,
                                      !.p = p, !.e = session[s].epoch]
  BY DEF Submit, IInv, WorkersTyped
<1>2. worker' = [worker EXCEPT ![w] = worker'[w]]
  BY <1>1 DEF Submit
<1>3. session[s].epoch \in 0..MaxEpoch
  BY DEF IInv, TablesTyped
<1>4. IdleWorker \in WorkerState
  BY BoundsAreNatural DEF IdleWorker, WorkerState, WorkerPCs
<1>5. worker'[w] = [pc |-> "recover", s |-> s, e |-> session[s].epoch,
                     k |-> k, p |-> p, retried |-> FALSE, back |-> "-",
                     b |-> 0, stage |-> "-", att |-> 0, out |-> "-",
                     from |-> "-", to |-> "-"]
  BY ZenonT(30), <1>1 DEF IdleWorker
<1>6. worker'[w] \in WorkerState
  BY <1>3, <1>5, BoundsAreNatural DEF WorkerState, WorkerPCs
<1>7. Informed(worker[w])'
  BY <1>5, <1>6 DEF Informed, InStage, WithAttempt
<1>8. WorkersTyped'
  BY <1>2, <1>7, OneThreadMoves DEF Submit
<1>9. faults' \in 0..MaxFaults
  BY DEF Submit, IInv, TablesTyped
<1> QED
  BY <1>8, <1>9, RowsKept, TurnsOnly DEF Submit

LEMMA RecoverStep ==
  ASSUME IInv, NEW w \in Workers, NEW o \in Outcomes, Recover(w, o)
  PROVE  RequestStep
<1>1. /\ turn' \in {turn, RecoveredTurns}
      /\ ledger' \in {ledger, RecoveredLedger}
  BY DEF Recover
<1>2. DOMAIN ledger \subseteq (DOMAIN ledger)' /\ ledger' \in Seq(LedgerRow)
      /\ (DOMAIN ledger)' = DOMAIN ledger
  BY <1>1, RecoveryClosesStaleTurns DEF IInv, TablesTyped
<1>3. TurnsAdvance
  BY <1>1, RecoveryClosesStaleTurns
  DEF IInv, TablesTyped, TurnsAdvance, Stale, TerminalStatuses
<1>4. WorkersTyped'
  <2>1. "select" \in WorkerPCs \ InStage /\ WithAttempt \subseteq InStage
    BY DEF WorkerPCs, InStage, WithAttempt
  <2>2. Lookup(w, "recover") \/ Go(w, "select") \/ Finish(w)
    BY DEF Recover
  <2>3. worker[w].pc # "idle"
    BY DEF Recover
  <2> QED
    BY <1>2, <2>1, <2>2, <2>3, LookupInforms, GoInforms, FinishInforms
<1>5. faults' \in 0..MaxFaults
  BY FaultIsCounted DEF Recover
<1> QED
  BY <1>2, <1>3, <1>4, <1>5
  DEF Recover, RequestStep, IInv, TablesTyped, TurnsAdvance

LEMMA SelectStep ==
  ASSUME IInv, NEW w \in Workers, Select(w)
  PROVE  RequestStep
<1>1. WorkersTyped'
  <2>1. CASE Lookup(w, "select")
    BY <2>1, LookupInforms DEF Select
  <2>2. CASE worker' = [worker EXCEPT ![w].pc = "reserve", ![w].b = revision]
    <3>1. Informed(worker[w]) /\ worker[w].pc = "select"
      BY DEF IInv, WorkersTyped, Select
    <3>2. worker'[w] = [worker[w] EXCEPT !.pc = "reserve", !.b = revision]
      BY <2>2 DEF IInv, WorkersTyped
    <3>3. worker' = [worker EXCEPT ![w] = worker'[w]]
      BY <2>2, <3>2 DEF IInv, WorkersTyped
    <3>4. revision \in 0..MaxRevision
      BY BoundsAreNatural DEF IInv, TablesTyped
    <3>5. worker'[w] \in WorkerState
      <4>1. worker[w] \in WorkerState
        BY <3>1 DEF Informed
      <4>2. "reserve" \in WorkerPCs
        BY DEF WorkerPCs
      <4> QED BY <3>2, <3>4, <4>1, <4>2 DEF WorkerState
    <3>6. Informed(worker[w])'
      BY <3>1, <3>2, <3>5 DEF Informed, WorkerState, InStage, WithAttempt
    <3> QED
      BY <3>3, <3>6, OneThreadMoves DEF Select
  <2> QED
    BY <2>1, <2>2 DEF Select
<1>2. faults' \in 0..MaxFaults
  BY DEF Select, IInv, TablesTyped
<1> QED
  BY <1>1, <1>2, RowsKept, TurnsOnly DEF Select

\* The row a reservation inserts.
PlanningRow(w) ==
  [AbsentRow EXCEPT !.status = "planning", !.owner = w,
                    !.binding = worker[w].b]

LEMMA PlanningRowTyped ==
  ASSUME IInv, NEW w \in Workers
  PROVE  PlanningRow(w) \in TurnRow /\ PlanningRow(w).status = "planning"
<1>1. worker[w].b \in 0..MaxRevision
  BY DEF IInv, WorkersTyped, Informed, WorkerState
<1>2. AbsentRow \in TurnRow
  BY BoundsAreNatural DEF AbsentRow, TurnRow
<1> QED
  BY <1>1, <1>2 DEF PlanningRow, TurnRow, ActiveStatuses

\* A reservation that inserts opens a slot that was absent, after the closing
\* of the stale ones; any other reservation only closes some.
InsertsRow(w, o) ==
  /\ o # "fail"
  /\ FoundByKey(worker[w].s, worker[w].k) = {}
  /\ BelowConcurrencyLimit(RecoveredTurns)
  /\ InFlightIndexFree(worker[w].s, RecoveredTurns)
  /\ turn' = [RecoveredTurns EXCEPT ![Tid(w)] = PlanningRow(w)]

LEMMA ReserveRows ==
  ASSUME IInv, NEW w \in Workers, NEW o \in Outcomes, Reserve(w, o)
  PROVE  \/ InsertsRow(w, o)
         \/ turn' \in {turn, RecoveredTurns}
BY DEF Reserve, InsertsRow, PlanningRow

LEMMA ReserveTypes ==
  ASSUME IInv, NEW w \in Workers, NEW o \in Outcomes, Reserve(w, o)
  PROVE  IInv'
<1>1. ledger' \in {ledger, RecoveredLedger}
  BY DEF Reserve
<1>2. DOMAIN ledger \subseteq (DOMAIN ledger)' /\ ledger' \in Seq(LedgerRow)
      /\ (DOMAIN ledger)' = DOMAIN ledger
  BY <1>1, RecoveryClosesStaleTurns DEF IInv, TablesTyped
<1>3. worker[w].pc = "reserve"
  BY DEF Reserve
<1>4. WorkersTyped'
  <2>1. "planning" \in WorkerPCs \ InStage /\ WithAttempt \subseteq InStage
    BY DEF WorkerPCs, InStage, WithAttempt
  <2>2. Lookup(w, "reserve") \/ Go(w, "planning") \/ Finish(w)
    BY DEF Reserve
  <2> QED
    BY <1>2, <1>3, <2>1, <2>2, LookupInforms, GoInforms, FinishInforms
<1>5. turn' \in [TurnIds -> TurnRow]
  <2>1. Tid(w) \in TurnIds
    BY <1>3, RequestHasTurnId
  <2>2. turn \in [TurnIds -> TurnRow]
    BY DEF IInv, TablesTyped
  <2> QED
    BY <2>1, <2>2, ReserveRows, RecoveryClosesStaleTurns, PlanningRowTyped
    DEF InsertsRow
<1>6. faults' \in 0..MaxFaults
  BY FaultIsCounted DEF Reserve
<1> QED
  BY <1>2, <1>4, <1>5, <1>6 DEF Reserve, IInv, TablesTyped

LEMMA ReserveOpensSlot ==
  ASSUME IInv, NEW w \in Workers, NEW o \in Outcomes, Reserve(w, o)
  PROVE  Abstract!Next
<1> DEFINE rows == RecoveredTurns
           new  == Tid(w)
           done == {t \in TurnIds : Stale(t)}
<1>1. CASE turn' \in {turn, rows}
  <2>1. TurnsAdvance
    BY <1>1, RecoveryClosesStaleTurns
    DEF IInv, TablesTyped, TurnsAdvance, Stale, TerminalStatuses
  <2> QED
    BY <2>1, AdvancingClosesSlots
<1>2. CASE InsertsRow(w, o)
  <2>1. new \in TurnIds
    BY RequestHasTurnId DEF Reserve
  <2>2. ~Exists(new)
    BY <1>2, <2>1 DEF InsertsRow, FoundByKey, Tid
  <2>3. \A t \in TurnIds :
          rows[t].status \in ActiveStatuses <=> Active(t) /\ t \notin done
    BY RecoveryClosesStaleTurns
    DEF Stale, Active, TerminalStatuses, ActiveStatuses
  <2>4. Abstract!Open = ActiveTurns
    BY DEF Abstract!Open, Phase, ActiveTurns, Active, ActiveStatuses
  <2>5. Abstract!Open \ done = {t \in TurnIds : rows[t].status \in ActiveStatuses}
    BY <2>3, <2>4 DEF ActiveTurns
  <2>6. Cardinality(Abstract!Open \ done) < MaxConcurrent
    BY <1>2, <2>5 DEF InsertsRow, BelowConcurrencyLimit
  <2>7. \A t \in Abstract!Open \ done : t.s # new.s
    BY <1>2, <2>5 DEF InsertsRow, InFlightIndexFree, Tid
  <2>8. \A t \in TurnIds : turn'[t].status = IF t = new THEN "planning"
                                              ELSE rows[t].status
    BY <1>2, <2>1, RecoveryClosesStaleTurns, PlanningRowTyped DEF InsertsRow
  <2>9. Phase' = [t \in TurnIds |-> IF t = new THEN "open"
                                    ELSE IF t \in done THEN "closed"
                                    ELSE Phase[t]]
    BY <2>8, RecoveryClosesStaleTurns
    DEF Phase, Active, Stale, ActiveStatuses, TerminalStatuses
  <2>10. done \subseteq Abstract!Open
    BY <2>4 DEF Stale, ActiveTurns
  <2>11. Phase[new] = "absent"
    BY <2>1, <2>2 DEF Phase, Exists, Active, ActiveStatuses
  <2> HIDE DEF done, new
  <2>12. Abstract!Cardinality(Abstract!Open \ done) < MaxConcurrent
    BY <2>6 DEF Cardinality, Abstract!Cardinality
  <2>13. Abstract!Open \subseteq TurnIds
    BY DEF Abstract!Open
  <2>14. Abstract!Admit(done, new)
    BY <2>1, <2>7, <2>9, <2>10, <2>11, <2>12, <2>13 DEF Abstract!Admit
  <2> QED
    BY <2>1, <2>10, <2>13, <2>14 DEF Abstract!Next
<1> QED
  BY <1>1, <1>2, ReserveRows

LEMMA LookupReplayStep ==
  ASSUME IInv, NEW w \in Workers, LookupReplay(w)
  PROVE  RequestStep
<1>1. worker[w].pc = "lookup" /\ faults' \in 0..MaxFaults
  BY DEF LookupReplay, IInv, TablesTyped
<1>2. turn \in [TurnIds -> TurnRow]
  BY DEF IInv, TablesTyped
<1>3. CASE Go(w, "planning") /\ UNCHANGED turn
  <2>1. "planning" \in WorkerPCs \ InStage /\ WithAttempt \subseteq InStage
    BY DEF WorkerPCs, InStage, WithAttempt
  <2>2. WorkersTyped'
    BY <1>1, <1>3, <2>1, GoInforms DEF LookupReplay
  <2> QED
    BY <1>1, <1>3, <2>2, RowsKept, TurnsOnly DEF LookupReplay
<1>4. CASE /\ worker' = [worker EXCEPT ![w].pc = "recover", ![w].retried = TRUE]
           /\ UNCHANGED turn
  <2>1. Informed(worker[w])
    BY DEF IInv, WorkersTyped
  <2>2. worker'[w] = [worker[w] EXCEPT !.pc = "recover", !.retried = TRUE]
    BY <1>4 DEF IInv, WorkersTyped
  <2>3. worker' = [worker EXCEPT ![w] = worker'[w]]
    BY <1>4, <2>2 DEF IInv, WorkersTyped
  <2>4. worker'[w] \in WorkerState
    <3>1. worker[w] \in WorkerState
      BY <2>1 DEF Informed
    <3>2. "recover" \in WorkerPCs
      BY DEF WorkerPCs
    <3> QED BY <2>2, <3>1, <3>2 DEF WorkerState
  <2>5. Informed(worker[w])'
    BY <1>1, <2>1, <2>2, <2>4
    DEF Informed, WorkerState, InStage, WithAttempt
  <2>6. WorkersTyped'
    BY <2>3, <2>5, OneThreadMoves DEF LookupReplay
  <2> QED
    BY <1>1, <1>4, <2>6, RowsKept, TurnsOnly DEF LookupReplay
<1>5. CASE Leave(w, turn)
  BY <1>1, <1>2, <1>5, LeavingAdvances, TurnsOnly DEF LookupReplay
<1> QED
  BY <1>3, <1>4, <1>5 DEF LookupReplay

LEMMA TerminalStep ==
  ASSUME IInv, NEW w \in Workers, NEW o \in Outcomes, Terminal(w, o)
  PROVE  RequestStep
<1>1. worker[w].pc = "terminal" /\ faults' \in 0..MaxFaults
  BY FaultIsCounted DEF Terminal
<1>2. Tid(w) \in TurnIds /\ turn \in [TurnIds -> TurnRow]
  BY <1>1, RequestHasTurnId DEF IInv, TablesTyped
<1>3. CASE Leave(w, turn)
  BY <1>1, <1>2, <1>3, LeavingAdvances, TurnsOnly DEF Terminal
<1>4. CASE /\ MayMove(Tid(w), worker[w].from, worker[w].to)
           /\ Leave(w, Moved(Tid(w), worker[w].to))
  <2>1. "absent" \notin ActiveStatuses \cup TerminalStatuses
    BY DEF ActiveStatuses, TerminalStatuses
  <2> QED
    BY <1>1, <1>2, <1>4, <2>1, MoveClosesOrKeepsOpen, LeavingAdvances, TurnsOnly
    DEF Terminal
<1> QED
  BY <1>3, <1>4 DEF Terminal

\* Steps of a request that touch no row at all and move only the thread.
LEMMA ThreadOnly ==
  ASSUME IInv, UNCHANGED <<session, turn, attempts, ledger, revision, faults>>,
         WorkersTyped'
  PROVE  RequestStep
BY RowsKept, TurnsOnly DEF IInv, TablesTyped

\* A thread that picks a stage for its next attempt.
LEMMA BeginStageInforms ==
  ASSUME IInv, NEW w \in Workers, worker[w].pc # "idle", NEW g \in Stages,
         BeginStage(w, g),
         DOMAIN ledger \subseteq (DOMAIN ledger)'
  PROVE  WorkersTyped'
<1>1. Informed(worker[w])
  BY DEF IInv, WorkersTyped
<1>2. worker'[w] = [worker[w] EXCEPT !.pc = "begin", !.stage = g]
  BY DEF BeginStage, IInv, WorkersTyped
<1>3. worker' = [worker EXCEPT ![w] = worker'[w]]
  BY <1>2 DEF BeginStage, IInv, WorkersTyped
<1>4. worker'[w] \in WorkerState
  <2>1. worker[w] \in WorkerState
    BY <1>1 DEF Informed
  <2>2. "begin" \in WorkerPCs /\ g \in Stages \cup {"-"}
    BY DEF WorkerPCs
  <2> QED BY <1>2, <2>1, <2>2 DEF WorkerState
<1>5. /\ worker'[w].pc = "begin" /\ worker'[w].stage = g
      /\ worker'[w].s = worker[w].s /\ worker'[w].k = worker[w].k
      /\ worker'[w].p = worker[w].p
  BY <1>1, <1>2 DEF Informed, WorkerState, Stages
<1>6. Informed(worker[w])'
  BY <1>1, <1>4, <1>5 DEF Informed, InStage, WithAttempt
<1> QED
  BY <1>3, <1>6, OneThreadMoves

LEMMA StartPlanningStep ==
  ASSUME IInv, NEW w \in Workers, StartPlanning(w)
  PROVE  RequestStep
<1>1. worker[w].pc = "planning" /\ UNCHANGED ledger
  BY DEF StartPlanning
<1>2. ASSUME NEW to \in {"unsupported", "clarification_required"},
             Close(w, "planning", to)
      PROVE  WorkersTyped'
  BY <1>1, <1>2, CloseInforms DEF ActiveStatuses, TerminalStatuses
<1>3. ASSUME Go(w, "to_querying") PROVE WorkersTyped'
  BY <1>1, <1>3, GoInforms DEF WorkerPCs, InStage, WithAttempt
<1>4. ASSUME BeginStage(w, "planning") PROVE WorkersTyped'
  BY <1>1, <1>4, BeginStageInforms DEF Stages
<1>5. WorkersTyped'
  BY <1>2, <1>3, <1>4 DEF StartPlanning
<1> QED
  BY <1>5, ThreadOnly DEF StartPlanning

LEMMA ContextMismatchStep ==
  ASSUME IInv, NEW w \in Workers, ContextMismatch(w)
  PROVE  RequestStep
<1>1. WorkersTyped'
  BY CloseInforms DEF ContextMismatch, ActiveStatuses, TerminalStatuses
<1> QED
  BY <1>1, ThreadOnly DEF ContextMismatch

LEMMA RefuseAttemptStep ==
  ASSUME IInv, NEW w \in Workers, RefuseAttempt(w)
  PROVE  RequestStep
<1>1. worker[w].stage \in ActiveStatuses /\ "failed" \in TerminalStatuses
  BY DEF IInv, WorkersTyped, Informed, RefuseAttempt, InStage, Stages,
         ActiveStatuses, TerminalStatuses
<1>2. WorkersTyped'
  BY <1>1, CloseInforms DEF RefuseAttempt
<1> QED
  BY <1>2, ThreadOnly DEF RefuseAttempt

\* A thread that holds a recorded attempt.
LEMMA CallWithInforms ==
  ASSUME IInv, NEW w \in Workers, worker[w].pc \in {"begin", "rb_begin"},
         NEW i \in Nat, i \in (DOMAIN ledger)', CallWith(w, i),
         DOMAIN ledger \subseteq (DOMAIN ledger)'
  PROVE  WorkersTyped'
<1>1. Informed(worker[w])
  BY DEF IInv, WorkersTyped
<1>2. worker'[w] = [worker[w] EXCEPT !.pc = "call", !.att = i]
  BY DEF CallWith, IInv, WorkersTyped
<1>3. worker' = [worker EXCEPT ![w] = worker'[w]]
  BY <1>2 DEF CallWith, IInv, WorkersTyped
<1>4. worker'[w] \in WorkerState
  <2>1. worker[w] \in WorkerState
    BY <1>1 DEF Informed
  <2>2. "call" \in WorkerPCs
    BY DEF WorkerPCs
  <2> QED BY ZenonT(30), <1>2, <2>1, <2>2 DEF WorkerState
<1>5. /\ worker'[w].pc = "call" /\ worker'[w].att = i
      /\ worker'[w].s = worker[w].s /\ worker'[w].k = worker[w].k
      /\ worker'[w].p = worker[w].p /\ worker'[w].stage = worker[w].stage
  BY <1>1, <1>2 DEF Informed, WorkerState
<1>6. Informed(worker[w])'
  BY <1>1, <1>4, <1>5 DEF Informed, InStage, WithAttempt
<1> QED
  BY <1>3, <1>6, OneThreadMoves

LEMMA BeginAttemptStep ==
  ASSUME IInv, NEW w \in Workers, NEW o \in Outcomes, BeginAttempt(w, o)
  PROVE  RequestStep
<1> DEFINE id    == Len(ledger) + 1
           entry == [t |-> Tid(w), stage |-> worker[w].stage, calls |-> 0,
                     status |-> "started"]
<1>1. worker[w].pc = "begin" /\ faults' \in 0..MaxFaults
  BY FaultIsCounted DEF BeginAttempt
<1>2. worker[w].stage \in Stages /\ Tid(w) \in TurnIds
  BY <1>1, RequestHasTurnId DEF IInv, WorkersTyped, Informed, InStage
<1>3. worker[w].stage \in ActiveStatuses /\ "failed" \in TerminalStatuses
  BY <1>2 DEF Stages, ActiveStatuses, TerminalStatuses
<1>4. entry \in LedgerRow
  BY <1>2 DEF LedgerRow
<1>5. ledger \in Seq(LedgerRow) /\ attempts \subseteq DOMAIN ledger
  BY DEF IInv, TablesTyped
<1>6. \/ UNCHANGED <<attempts, ledger>>
      \/ attempts' = attempts \cup {id} /\ ledger' = Append(ledger, entry)
  BY DEF BeginAttempt
<1>7. /\ ledger' \in Seq(LedgerRow) /\ attempts' \subseteq DOMAIN ledger'
      /\ DOMAIN ledger \subseteq (DOMAIN ledger)'
  <2>1. CASE UNCHANGED <<attempts, ledger>>
    BY <1>5, <2>1
  <2>2. CASE attempts' = attempts \cup {id} /\ ledger' = Append(ledger, entry)
    <3> HIDE DEF entry
    <3>1. ledger' \in Seq(LedgerRow) /\ Len(ledger') = id /\ Len(ledger) \in Nat
      BY <1>4, <1>5, <2>2
    <3> QED
      BY <1>5, <2>2, <3>1
  <2> QED
    BY <1>6, <2>1, <2>2
<1>8. \/ CallWith(w, id) /\ ledger' = Append(ledger, entry)
      \/ Close(w, worker[w].stage, "failed")
      \/ Go(w, "rb_begin")
  BY DEF BeginAttempt
<1>9. WorkersTyped'
  <2>1. ASSUME CallWith(w, id), ledger' = Append(ledger, entry)
        PROVE  WorkersTyped'
    <3>1. id \in Nat /\ id \in (DOMAIN ledger)'
      BY <1>5, <2>1
    <3> HIDE DEF id
    <3> QED
      BY <1>1, <1>7, <2>1, <3>1, CallWithInforms
  <2>2. ASSUME Go(w, "rb_begin") PROVE WorkersTyped'
    BY <1>1, <1>7, <2>2, GoInforms DEF WorkerPCs, InStage, WithAttempt
  <2>3. ASSUME Close(w, worker[w].stage, "failed") PROVE WorkersTyped'
    BY <1>1, <1>3, <1>7, <2>3, CloseInforms
  <2> QED
    BY <1>8, <2>1, <2>2, <2>3
<1>10. UNCHANGED <<session, turn, revision>>
  BY DEF BeginAttempt
<1> QED
  BY <1>1, <1>7, <1>9, <1>10, RowsKept DEF RequestStep, IInv, TablesTyped

LEMMA AdoptAttemptStep ==
  ASSUME IInv, NEW w \in Workers, AdoptAttempt(w)
  PROVE  RequestStep
<1>1. /\ worker[w].pc = "rb_begin"
      /\ UNCHANGED <<session, attempts, ledger, revision, faults>>
  BY DEF AdoptAttempt
<1>2. turn \in [TurnIds -> TurnRow] /\ faults \in 0..MaxFaults
  BY DEF IInv, TablesTyped
<1>3. CASE Leave(w, turn)
  BY <1>1, <1>2, <1>3, LeavingAdvances, TurnsOnly
<1>4. CASE /\ \E i \in attempts : CallWith(w, i)
           /\ UNCHANGED turn
  <2>1. attempts \subseteq DOMAIN ledger /\ DOMAIN ledger \subseteq Nat
    BY DEF IInv, TablesTyped
  <2>2. WorkersTyped'
    BY <1>1, <1>4, <2>1, CallWithInforms
  <2> QED
    BY <1>1, <1>4, <2>2, ThreadOnly
<1> QED
  BY <1>3, <1>4 DEF AdoptAttempt, AttemptFor, AttemptsOf

\* Changing one entry of the ledger in place.
LEMMA EntryUpdated ==
  ASSUME IInv, NEW i \in DOMAIN ledger, NEW e \in LedgerRow,
         ledger' = [ledger EXCEPT ![i] = e]
  PROVE  ledger' \in Seq(LedgerRow) /\ (DOMAIN ledger)' = DOMAIN ledger
BY DEF IInv, TablesTyped

LEMMA CallStep ==
  ASSUME IInv, NEW w \in Workers, NEW out \in ProviderOutcomes, Call(w, out)
  PROVE  RequestStep
<1> DEFINE i == worker[w].att
<1>1. /\ worker[w].pc = "call" /\ Informed(worker[w])
      /\ UNCHANGED <<session, turn, attempts, revision, faults>>
  BY DEF Call, IInv, WorkersTyped
<1>2. i \in DOMAIN ledger
  BY <1>1 DEF Informed, WithAttempt
<1>3. ledger' \in Seq(LedgerRow) /\ (DOMAIN ledger)' = DOMAIN ledger
  <2>1. ledger[i] \in LedgerRow
    BY <1>2 DEF IInv, TablesTyped
  <2>2. [ledger[i] EXCEPT !.calls = @ + 1] \in LedgerRow
    BY <2>1 DEF LedgerRow
  <2>3. ledger' = [ledger EXCEPT ![i] = [ledger[i] EXCEPT !.calls = @ + 1]]
    BY DEF Call
  <2> QED
    BY <1>2, <2>2, <2>3, EntryUpdated
<1>4. worker'[w] = [worker[w] EXCEPT !.pc = "finish", !.out = out]
  BY DEF Call, IInv, WorkersTyped
<1>5. worker' = [worker EXCEPT ![w] = worker'[w]]
  BY <1>4 DEF Call, IInv, WorkersTyped
<1>6. worker'[w] \in WorkerState
  <2>1. worker[w] \in WorkerState
    BY <1>1 DEF Informed
  <2>2. "finish" \in WorkerPCs
    BY DEF WorkerPCs
  <2> QED BY <1>4, <2>1, <2>2 DEF WorkerState
<1>7. /\ worker'[w].pc = "finish" /\ worker'[w].att = worker[w].att
      /\ worker'[w].s = worker[w].s /\ worker'[w].k = worker[w].k
      /\ worker'[w].p = worker[w].p /\ worker'[w].stage = worker[w].stage
  BY <1>1, <1>4 DEF Informed, WorkerState
<1>8. Informed(worker[w])'
  BY <1>1, <1>3, <1>6, <1>7 DEF Informed, InStage, WithAttempt
<1>9. WorkersTyped'
  BY <1>3, <1>5, <1>8, OneThreadMoves
<1> QED
  BY <1>1, <1>3, <1>9, RowsKept DEF RequestStep, IInv, TablesTyped

LEMMA FinishAttemptStep ==
  ASSUME IInv, NEW w \in Workers, NEW o \in Outcomes, FinishAttempt(w, o)
  PROVE  RequestStep
<1> DEFINE i == worker[w].att
<1>1. /\ worker[w].pc = "finish" /\ Informed(worker[w])
      /\ UNCHANGED <<session, turn, attempts, revision>>
      /\ faults' \in 0..MaxFaults
  BY FaultIsCounted DEF FinishAttempt, IInv, WorkersTyped
<1>2. i \in DOMAIN ledger /\ worker[w].stage \in Stages
  BY <1>1 DEF Informed, WithAttempt, InStage
<1>3. ledger' \in Seq(LedgerRow) /\ (DOMAIN ledger)' = DOMAIN ledger
  <2>1. ledger[i] \in LedgerRow /\ ledger \in Seq(LedgerRow)
    BY <1>2 DEF IInv, TablesTyped
  <2>2. AttemptResult(worker[w].out) \in {"succeeded", "failed", "outcome_unknown"}
    BY DEF AttemptResult
  <2>3. [ledger[i] EXCEPT !.status = AttemptResult(worker[w].out)] \in LedgerRow
    BY <2>1, <2>2 DEF LedgerRow
  <2>4. \/ ledger' = ledger
        \/ ledger' = [ledger EXCEPT ![i] =
                        [ledger[i] EXCEPT !.status = AttemptResult(worker[w].out)]]
    BY DEF FinishAttempt
  <2> QED
    BY <1>2, <2>1, <2>3, <2>4, EntryUpdated
<1>4. \/ Close(w, worker[w].stage, "failed") \/ AfterCall(w) \/ Go(w, "rb_finish")
  BY DEF FinishAttempt
<1>5. WorkersTyped'
  <2>1. ASSUME Close(w, worker[w].stage, "failed") PROVE WorkersTyped'
    <3>1. worker[w].stage \in ActiveStatuses /\ "failed" \in TerminalStatuses
      BY <1>2 DEF Stages, ActiveStatuses, TerminalStatuses
    <3> QED
      BY <1>1, <1>3, <2>1, <3>1, CloseInforms
  <2>2. ASSUME AfterCall(w) PROVE WorkersTyped'
    BY <1>1, <1>3, <2>2, AfterCallInforms
  <2>3. ASSUME Go(w, "rb_finish") PROVE WorkersTyped'
    BY <1>1, <1>3, <2>3, GoInforms DEF WorkerPCs, InStage, WithAttempt
  <2> QED
    BY <1>4, <2>1, <2>2, <2>3
<1> QED
  BY <1>1, <1>3, <1>5, RowsKept DEF RequestStep, IInv, TablesTyped

LEMMA ConfirmFinishStep ==
  ASSUME IInv, NEW w \in Workers, ConfirmFinish(w)
  PROVE  RequestStep
<1>1. /\ worker[w].pc = "rb_finish"
      /\ UNCHANGED <<session, attempts, ledger, revision, faults>>
  BY DEF ConfirmFinish
<1>2. turn \in [TurnIds -> TurnRow] /\ faults \in 0..MaxFaults
  BY DEF IInv, TablesTyped
<1>3. CASE AfterCall(w) /\ UNCHANGED turn
  <2>1. WorkersTyped'
    BY <1>1, <1>3, AfterCallInforms
  <2> QED
    BY <1>1, <1>3, <2>1, ThreadOnly
<1>4. CASE Leave(w, turn)
  BY <1>1, <1>2, <1>4, LeavingAdvances, TurnsOnly
<1> QED
  BY <1>3, <1>4 DEF ConfirmFinish, GiveUp

LEMMA ToQueryingStep ==
  ASSUME IInv, NEW w \in Workers, NEW o \in Outcomes, ToQuerying(w, o)
  PROVE  RequestStep
<1>1. /\ worker[w].pc = "to_querying" /\ faults' \in 0..MaxFaults
      /\ UNCHANGED <<session, attempts, ledger, revision>>
  BY FaultIsCounted DEF ToQuerying
<1>2. Tid(w) \in TurnIds
  BY <1>1, RequestHasTurnId
<1>3. TurnsAdvance
  <2>1. CASE UNCHANGED turn
    BY <2>1, RowsKept
  <2>2. CASE /\ MayMove(Tid(w), "planning", "querying")
             /\ turn' = Moved(Tid(w), "querying")
    BY <1>2, <2>2, MoveClosesOrKeepsOpen DEF TurnsAdvance
  <2> QED
    BY <2>1, <2>2 DEF ToQuerying
<1>4. Go(w, "execute") \/ Go(w, "rb_querying")
  BY DEF ToQuerying
<1>5. WorkersTyped'
  BY <1>1, <1>4, GoInforms DEF WorkerPCs, InStage, WithAttempt
<1> QED
  BY <1>1, <1>3, <1>5, TurnsOnly

LEMMA ConfirmQueryingStep ==
  ASSUME IInv, NEW w \in Workers, ConfirmQuerying(w)
  PROVE  RequestStep
<1>1. /\ worker[w].pc = "rb_querying"
      /\ UNCHANGED <<session, turn, attempts, ledger, revision, faults>>
      /\ Go(w, "execute") \/ Close(w, "planning", "failed")
  BY DEF ConfirmQuerying
<1>2. ASSUME Go(w, "execute") PROVE WorkersTyped'
  BY <1>1, <1>2, GoInforms DEF WorkerPCs, InStage, WithAttempt
<1>3. ASSUME Close(w, "planning", "failed") PROVE WorkersTyped'
  BY <1>1, <1>3, CloseInforms DEF ActiveStatuses, TerminalStatuses
<1> QED
  BY <1>1, <1>2, <1>3, ThreadOnly

LEMMA ExecuteStep ==
  ASSUME IInv, NEW w \in Workers, NEW out \in QueryOutcomes, Execute(w, out)
  PROVE  RequestStep
<1>1. /\ worker[w].pc = "execute" /\ Informed(worker[w])
      /\ UNCHANGED <<session, turn, attempts, ledger, revision, faults>>
  BY DEF Execute, IInv, WorkersTyped
<1>2. CASE out = "error"
  <2>1. WorkersTyped'
    BY <1>1, <1>2, CloseInforms DEF Execute, ActiveStatuses, TerminalStatuses
  <2> QED
    BY <1>1, <2>1, ThreadOnly
<1>3. CASE out # "error"
  <2>1. worker'[w] = [worker[w] EXCEPT !.pc = "store", !.out = out]
    BY <1>3 DEF Execute, IInv, WorkersTyped
  <2>2. worker' = [worker EXCEPT ![w] = worker'[w]]
    BY <1>3, <2>1 DEF Execute, IInv, WorkersTyped
  <2>3. worker'[w] \in WorkerState
    <3>1. worker[w] \in WorkerState
      BY <1>1 DEF Informed
    <3>2. "store" \in WorkerPCs
      BY DEF WorkerPCs
    <3> QED BY <2>1, <3>1, <3>2 DEF WorkerState
  <2>4. /\ worker'[w].pc = "store"
        /\ worker'[w].s = worker[w].s /\ worker'[w].k = worker[w].k
        /\ worker'[w].p = worker[w].p
    BY <1>1, <2>1 DEF Informed, WorkerState
  <2>5. Informed(worker[w])'
    BY <1>1, <2>3, <2>4 DEF Informed, InStage, WithAttempt
  <2>6. WorkersTyped'
    BY <1>1, <2>2, <2>5, OneThreadMoves
  <2> QED
    BY <1>1, <2>6, ThreadOnly
<1> QED
  BY <1>2, <1>3

\* Setting the tool run of a typed row keeps its status.
LEMMA ToolRunIsTyped ==
  ASSUME NEW rows \in [TurnIds -> TurnRow], NEW t \in TurnIds,
         NEW tool \in {"succeeded", "failed"}, NEW after,
         after = [rows EXCEPT ![t].tool = tool]
  PROVE  /\ after \in [TurnIds -> TurnRow]
         /\ \A u \in TurnIds : after[u].status = rows[u].status
BY DEF TurnRow

\* The two ways to go on after the result is stored.
LEMMA AfterStoreAdvances ==
  ASSUME IInv, NEW w \in Workers, NEW rows \in [TurnIds -> TurnRow],
         worker[w].pc \in {"store", "rb_store"},
         AfterStore(w), turn' = RowsAfterStore(w, rows), UNCHANGED ledger,
         \A t \in TurnIds : \/ rows[t].status = turn[t].status
                            \/ Active(t) /\ rows[t].status # "absent"
  PROVE  TurnsAdvance /\ WorkersTyped'
<1>1. CASE worker[w].out = "facts"
  <2>1. WorkersTyped'
    BY <1>1, BeginStageInforms DEF AfterStore, Stages
  <2>2. TurnsAdvance
    BY <1>1 DEF RowsAfterStore, TurnsAdvance
  <2> QED
    BY <2>1, <2>2
<1>2. CASE worker[w].out # "facts"
  BY <1>2, LeavingAdvances DEF AfterStore, RowsAfterStore, Leave
<1> QED
  BY <1>1, <1>2

LEMMA StoreResultStep ==
  ASSUME IInv, NEW w \in Workers, NEW o \in Outcomes, StoreResult(w, o)
  PROVE  RequestStep
<1> DEFINE t  == Tid(w)
           to == ResultStatus(worker[w].out)
<1>1. /\ worker[w].pc = "store" /\ faults' \in 0..MaxFaults
      /\ UNCHANGED <<session, attempts, ledger, revision>>
  BY FaultIsCounted DEF StoreResult
<1>2. t \in TurnIds /\ turn \in [TurnIds -> TurnRow]
  BY <1>1, RequestHasTurnId DEF IInv, TablesTyped
<1>3. PICK rows :
        /\ \/ rows = turn
           \/ /\ MayMove(t, "querying", to)
              /\ rows = [Moved(t, to) EXCEPT ![t].tool = "succeeded"]
        /\ \/ AfterStore(w) /\ turn' = RowsAfterStore(w, rows)
           \/ Go(w, "rb_store") /\ turn' = rows
  BY DEF StoreResult
<1>4. /\ rows \in [TurnIds -> TurnRow]
      /\ \A u \in TurnIds : \/ rows[u].status = turn[u].status
                            \/ Active(u) /\ rows[u].status # "absent"
  <2>1. CASE rows = turn
    BY <1>2, <2>1
  <2>2. CASE /\ MayMove(t, "querying", to)
             /\ rows = [Moved(t, to) EXCEPT ![t].tool = "succeeded"]
    <3>1. "absent" \notin ActiveStatuses \cup TerminalStatuses
      BY DEF ActiveStatuses, TerminalStatuses
    <3> DEFINE moved == Moved(t, to)
    <3>2. /\ moved \in [TurnIds -> TurnRow]
          /\ to # "absent" /\ Active(t)
          /\ \A u \in TurnIds : moved[u].status =
                                  IF u = t THEN to ELSE turn[u].status
      BY <1>2, <2>2, <3>1, MoveClosesOrKeepsOpen
    <3>3. rows = [moved EXCEPT ![t].tool = "succeeded"]
      BY <2>2
    <3> HIDE DEF moved, to
    <3>4. /\ rows \in [TurnIds -> TurnRow]
          /\ \A u \in TurnIds : rows[u].status = moved[u].status
      BY <1>2, <3>2, <3>3, ToolRunIsTyped
    <3> QED
      BY <3>2, <3>4
  <2> QED
    BY <1>3, <2>1, <2>2
<1>5. CASE AfterStore(w) /\ turn' = RowsAfterStore(w, rows)
  BY <1>1, <1>4, <1>5, AfterStoreAdvances, TurnsOnly
<1>6. CASE Go(w, "rb_store") /\ turn' = rows
  <2>1. WorkersTyped'
    BY <1>1, <1>6, GoInforms DEF WorkerPCs, InStage, WithAttempt
  <2>2. TurnsAdvance
    BY <1>4, <1>6 DEF TurnsAdvance
  <2> QED
    BY <1>1, <2>1, <2>2, TurnsOnly
<1> QED
  BY <1>3, <1>5, <1>6

LEMMA ConfirmStoreStep ==
  ASSUME IInv, NEW w \in Workers, ConfirmStore(w)
  PROVE  RequestStep
<1>1. /\ worker[w].pc = "rb_store"
      /\ UNCHANGED <<session, attempts, ledger, revision, faults>>
  BY DEF ConfirmStore
<1>2. turn \in [TurnIds -> TurnRow] /\ faults \in 0..MaxFaults
  BY DEF IInv, TablesTyped
<1>3. CASE AfterStore(w) /\ turn' = RowsAfterStore(w, turn)
  BY <1>1, <1>2, <1>3, AfterStoreAdvances, TurnsOnly
<1>4. CASE Close(w, "querying", "failed") /\ UNCHANGED turn
  <2>1. WorkersTyped'
    BY <1>1, <1>4, CloseInforms DEF ActiveStatuses, TerminalStatuses
  <2> QED
    BY <1>1, <1>4, <2>1, ThreadOnly
<1> QED
  BY <1>3, <1>4 DEF ConfirmStore

LEMMA RecordQueryFailureStep ==
  ASSUME IInv, NEW w \in Workers, NEW o \in Outcomes, RecordQueryFailure(w, o)
  PROVE  RequestStep
<1>1. /\ worker[w].pc = "store" /\ faults' \in 0..MaxFaults
      /\ UNCHANGED <<session, attempts, ledger, revision>>
      /\ Close(w, "querying", "failed")
      /\ \/ UNCHANGED turn
         \/ turn' = [turn EXCEPT ![Tid(w)].tool = "failed"]
  BY FaultIsCounted DEF RecordQueryFailure
<1>2. Tid(w) \in TurnIds /\ turn \in [TurnIds -> TurnRow]
  BY <1>1, RequestHasTurnId DEF IInv, TablesTyped
<1>3. WorkersTyped'
  BY <1>1, CloseInforms DEF ActiveStatuses, TerminalStatuses
<1>4. TurnsAdvance
  <2>1. ASSUME turn' = [turn EXCEPT ![Tid(w)].tool = "failed"]
        PROVE  TurnsAdvance
    <3>1. /\ turn' \in [TurnIds -> TurnRow]
          /\ \A u \in TurnIds : turn'[u].status = turn[u].status
      BY <1>2, <2>1, ToolRunIsTyped
    <3> QED
      BY <3>1 DEF TurnsAdvance
  <2> QED
    BY <1>1, <2>1, RowsKept
<1> QED
  BY <1>1, <1>3, <1>4, TurnsOnly

LEMMA CompleteStep ==
  ASSUME IInv, NEW w \in Workers, NEW o \in Outcomes, Complete(w, o)
  PROVE  RequestStep
<1> DEFINE t == Tid(w)
           done == [Moved(t, "answered") EXCEPT ![t].evidence = TRUE]
<1>1. /\ worker[w].pc = "complete" /\ faults' \in 0..MaxFaults
      /\ UNCHANGED <<session, attempts, ledger, revision>>
      /\ \/ Leave(w, turn)
         \/ MayMove(t, "answering", "answered") /\ Leave(w, done)
  BY FaultIsCounted DEF Complete
<1>2. t \in TurnIds /\ turn \in [TurnIds -> TurnRow]
  BY <1>1, RequestHasTurnId DEF IInv, TablesTyped
<1>3. CASE Leave(w, turn)
  BY <1>1, <1>2, <1>3, LeavingAdvances, TurnsOnly
<1>4. CASE MayMove(t, "answering", "answered") /\ Leave(w, done)
  <2>1. /\ done \in [TurnIds -> TurnRow]
        /\ \A u \in TurnIds : \/ done[u].status = turn[u].status
                              \/ Active(u) /\ done[u].status # "absent"
    <3> DEFINE moved == Moved(t, "answered")
    <3>1. /\ moved \in [TurnIds -> TurnRow] /\ Active(t)
          /\ \A u \in TurnIds : moved[u].status =
                                  IF u = t THEN "answered" ELSE turn[u].status
      BY <1>2, <1>4, MoveClosesOrKeepsOpen
    <3>2. done = [moved EXCEPT ![t].evidence = TRUE]
      OBVIOUS
    <3> HIDE DEF moved, done
    <3>3. /\ done \in [TurnIds -> TurnRow]
          /\ \A u \in TurnIds : done[u].status = moved[u].status
      <4> DEFINE row == [moved[t] EXCEPT !.evidence = TRUE]
      <4>1. moved[t] \in TurnRow
        BY <1>2, <3>1
      <4>2. row \in TurnRow /\ row.status = moved[t].status
        BY <4>1 DEF TurnRow
      <4>3. done = [moved EXCEPT ![t] = row]
        BY <3>2
      <4> HIDE DEF row
      <4> QED
        BY <1>2, <3>1, <4>2, <4>3
    <3> QED
      BY <3>1, <3>3
  <2> HIDE DEF done
  <2> QED
    BY <1>1, <1>4, <2>1, LeavingAdvances, TurnsOnly
<1> QED
  BY <1>1, <1>3, <1>4

LEMMA CrashStep ==
  ASSUME IInv, NEW w \in Workers, Crash(w)
  PROVE  RequestStep
<1>1. /\ UNCHANGED <<session, attempts, ledger, revision>>
      /\ faults' \in 0..MaxFaults /\ Leave(w, turn)
  BY FaultIsCounted DEF Crash
<1>2. turn \in [TurnIds -> TurnRow]
  BY DEF IInv, TablesTyped
<1> QED
  BY <1>1, <1>2, LeavingAdvances, TurnsOnly

\* Every step of a request thread.
LEMMA EveryRequestStep ==
  ASSUME IInv, NEW w \in Workers, Request(w) \/ Step(w) \/ Crash(w)
  PROVE  IInv' /\ Abstract!Next
<1>1. CASE \E o \in Outcomes : Reserve(w, o)
  BY <1>1, ReserveTypes, ReserveOpensSlot
<1>2. CASE ~\E o \in Outcomes : Reserve(w, o)
  <2>1. RequestStep
    BY <1>2, SubmitStep, RecoverStep, SelectStep, LookupReplayStep, TerminalStep,
       StartPlanningStep, ContextMismatchStep, RefuseAttemptStep,
       BeginAttemptStep, AdoptAttemptStep, CallStep, FinishAttemptStep,
       ConfirmFinishStep, ToQueryingStep, ConfirmQueryingStep, ExecuteStep,
       StoreResultStep, ConfirmStoreStep, RecordQueryFailureStep,
       CompleteStep, CrashStep
    DEF Request, Step, Transaction
  <2> QED
    BY <2>1, AdvancingClosesSlots DEF RequestStep
<1> QED
  BY <1>1, <1>2

-----------------------------------------------------------------------------
(***************************************************************************)
(* Everything else that touches the tables                                 *)
(***************************************************************************)
\* The threads keep what they know when the ledger keeps its entries.
LEMMA ThreadsKept ==
  ASSUME IInv, UNCHANGED <<worker, ledger>>
  PROVE  WorkersTyped'
BY DEF IInv, WorkersTyped, Informed

LEMMA LapseStep ==
  ASSUME IInv, NEW t \in TurnIds, Lapse(t)
  PROVE  IInv' /\ Abstract!Next
<1>1. turn \in [TurnIds -> TurnRow]
  BY DEF IInv, TablesTyped
<1>2. /\ turn' \in [TurnIds -> TurnRow]
      /\ \A u \in TurnIds : turn'[u].status = turn[u].status
  BY ZenonT(30), <1>1 DEF Lapse, TurnRow
<1>3. RequestStep
  BY <1>2, ThreadsKept, TurnsOnly DEF Lapse, TurnsAdvance, IInv, TablesTyped
<1> QED
  BY <1>3, AdvancingClosesSlots DEF RequestStep

LEMMA KeepAnswerStep ==
  ASSUME IInv, NEW t \in TurnIds, KeepAnswer(t)
  PROVE  IInv' /\ Abstract!Next
<1>1. turn \in [TurnIds -> TurnRow]
  BY DEF IInv, TablesTyped
<1>2. /\ turn' \in [TurnIds -> TurnRow]
      /\ \A u \in TurnIds : turn'[u].status = turn[u].status
  BY ZenonT(30), <1>1 DEF KeepAnswer, TurnRow
<1>3. RequestStep
  BY <1>2, ThreadsKept, TurnsOnly DEF KeepAnswer, TurnsAdvance, IInv, TablesTyped
<1> QED
  BY <1>3, AdvancingClosesSlots DEF RequestStep

\* Deleting rows keeps the types.
LEMMA DeletingKeepsTypes ==
  ASSUME IInv, NEW gone \in SUBSET TurnIds, Delete(gone),
         UNCHANGED <<ledger, revision, worker, faults>>,
         session' \in [Sessions -> [state : {"live", "expired", "ended"},
                                    epoch : 0..MaxEpoch]]
  PROVE  IInv'
<1>1. AbsentRow \in TurnRow
  BY BoundsAreNatural DEF AbsentRow, TurnRow
<1>2. turn' \in [TurnIds -> TurnRow] /\ attempts' \subseteq DOMAIN ledger'
  BY <1>1 DEF IInv, TablesTyped, Delete
<1> QED
  BY <1>2, ThreadsKept DEF IInv, TablesTyped

LEMMA DeleteDemoChatStep ==
  ASSUME IInv, NEW s \in Sessions, DeleteDemoChat(s)
  PROVE  IInv' /\ Abstract!Next
<1> DEFINE gone == {t \in TurnIds : t.s = s}
<1>1. session' \in [Sessions -> [state : {"live", "expired", "ended"},
                                 epoch : 0..MaxEpoch]]
  BY BoundsAreNatural DEF DeleteDemoChat, IInv, TablesTyped
<1>2. Delete(gone) /\ gone \in SUBSET TurnIds /\ \A t, u \in gone : t.s = u.s
  BY DEF DeleteDemoChat
<1> HIDE DEF gone
<1> QED
  BY <1>1, <1>2, DeletingKeepsTypes, DeletingForgetsSlots DEF DeleteDemoChat

LEMMA EndSessionStep ==
  ASSUME IInv, NEW s \in Sessions, EndSession(s)
  PROVE  IInv' /\ Abstract!Next
<1> DEFINE gone == {t \in TurnIds : t.s = s /\ ~turn[t].kept}
<1>1. session' \in [Sessions -> [state : {"live", "expired", "ended"},
                                 epoch : 0..MaxEpoch]]
  BY DEF EndSession, IInv, TablesTyped
<1>2. Delete(gone) /\ gone \in SUBSET TurnIds /\ \A t, u \in gone : t.s = u.s
  BY DEF EndSession
<1> HIDE DEF gone
<1> QED
  BY <1>1, <1>2, DeletingKeepsTypes, DeletingForgetsSlots DEF EndSession

\* Steps that touch neither a turn, an attempt nor a thread.
LEMMA OtherStep ==
  ASSUME IInv, RotateCredential \/ \E s \in Sessions : Expire(s)
  PROVE  IInv' /\ Abstract!Next
<1>1. UNCHANGED <<turn, attempts, ledger, worker, faults>>
  BY DEF RotateCredential, Expire
<1>2. /\ revision' \in 1..MaxRevision
      /\ session' \in [Sessions -> [state : {"live", "expired", "ended"},
                                    epoch : 0..MaxEpoch]]
  BY SMTT(20), BoundsAreNatural DEF RotateCredential, Expire, IInv, TablesTyped
<1>3. IInv'
  BY <1>1, <1>2, ThreadsKept DEF IInv, TablesTyped
<1> QED
  BY <1>1, <1>3, RowsKept, AdvancingClosesSlots

-----------------------------------------------------------------------------
(***************************************************************************)
(* The theorems                                                            *)
(***************************************************************************)
LEMMA InitialState ==
  ASSUME Init
  PROVE  IInv /\ Abstract!Init
<1>1. IdleWorker \in WorkerState /\ IdleWorker.pc = "idle"
  BY BoundsAreNatural DEF IdleWorker, WorkerState, WorkerPCs
<1>2. WorkersTyped
  BY <1>1 DEF Init, WorkersTyped, Informed, InStage, WithAttempt
<1>3. AbsentRow \in TurnRow /\ AbsentRow.status = "absent"
  BY BoundsAreNatural DEF AbsentRow, TurnRow
<1>4. TablesTyped
  BY <1>3, BoundsAreNatural DEF Init, TablesTyped
<1>5. Abstract!Init
  BY <1>3 DEF Init, Abstract!Init, Phase, Active, ActiveStatuses
<1> QED
  BY <1>2, <1>4, <1>5 DEF IInv

LEMMA NextStep ==
  ASSUME IInv, [Next]_vars
  PROVE  IInv' /\ [Abstract!Next]_Phase
<1>1. CASE \E w \in Workers : Request(w) \/ Step(w) \/ Crash(w)
  BY <1>1, EveryRequestStep
<1>2. CASE \E t \in TurnIds : Lapse(t) \/ KeepAnswer(t)
  BY <1>2, LapseStep, KeepAnswerStep
<1>3. CASE \E s \in Sessions : DeleteDemoChat(s) \/ Expire(s) \/ EndSession(s)
  BY <1>3, DeleteDemoChatStep, EndSessionStep, OtherStep
<1>4. CASE RotateCredential
  BY <1>4, OtherStep
<1>5. CASE UNCHANGED vars
  <2>1. IInv'
    BY <1>5, ThreadsKept DEF vars, IInv, TablesTyped
  <2>2. TurnsAdvance
    BY <1>5, RowsKept DEF vars
  <2> QED
    BY <2>1, <2>2, AdvancingClosesSlots
<1> QED
  BY <1>1, <1>2, <1>3, <1>4, <1>5 DEF Next, Environment

\* The inductive invariant is stronger than the type invariant.
LEMMA IInvImpliesTypeOK ==
  ASSUME IInv
  PROVE  TypeOK
<1>1. \A w \in Workers : worker[w].pc # "idle" => Tid(w) \in TurnIds
  BY RequestHasTurnId
<1> QED
  BY <1>1 DEF IInv, TablesTyped, WorkersTyped, Informed, WorkerState, TypeOK,
             WithAttempt

\* Rows, ledger and thread states keep their types in every reachable state,
\* whatever is lost, cleared, recovered or crashes.
THEOREM TypeCorrect == Spec => []TypeOK
<1>1. Init => IInv
  BY InitialState
<1>2. IInv /\ [Next]_vars => IInv'
  BY NextStep
<1>3. IInv => TypeOK
  BY IInvImpliesTypeOK
<1> QED
  BY <1>1, <1>2, <1>3, PTL DEF Spec

\* The reservations, moves, recoveries and deletions of the service together
\* implement the abstract slots.
THEOREM SlotsImplemented == Spec => ImplementsSlots
<1>1. Init => IInv /\ Abstract!Init
  BY InitialState
<1>2. IInv /\ [Next]_vars => IInv' /\ [Abstract!Next]_Phase
  BY NextStep
<1> QED
  BY <1>1, <1>2, PTL DEF Spec, ImplementsSlots, Abstract!Spec

-----------------------------------------------------------------------------
(***************************************************************************)
(* The limits of the abstract slots, and of the turns that implement them  *)
(***************************************************************************)
SlotsInv == Abstract!SlotsRespected /\ Abstract!OneOpenPerSession

\* The counting of the abstract specification is that of this one.
LEMMA SlotsAreCounted ==
  Abstract!SlotsRespected <=>
    IsFiniteSet(Abstract!Open) /\ Cardinality(Abstract!Open) <= MaxConcurrent
BY DEF Abstract!SlotsRespected, Abstract!Cardinality, Cardinality,
       Abstract!IsFiniteSet, IsFiniteSet

\* What is left open after a closing stays within the limits.
LEMMA FewerOpen ==
  ASSUME Abstract!SlotsRespected, NEW S \in SUBSET Abstract!Open
  PROVE  IsFiniteSet(S) /\ Cardinality(S) \in Nat /\ Cardinality(S) <= MaxConcurrent
<1>1. IsFiniteSet(Abstract!Open) /\ Cardinality(Abstract!Open) <= MaxConcurrent
  BY SlotsAreCounted
<1>2. IsFiniteSet(S) /\ Cardinality(S) <= Cardinality(Abstract!Open)
  BY <1>1, FS_Subset
<1>3. Cardinality(S) \in Nat /\ Cardinality(Abstract!Open) \in Nat
  BY <1>1, <1>2, FS_CardinalityType
<1> QED
  BY <1>1, <1>2, <1>3, ConcurrencyLimitPositive

\* A step that only closes or removes turns keeps the limits.
LEMMA ShrinkingKeepsSlots ==
  ASSUME SlotsInv, Abstract!Open' \subseteq Abstract!Open
  PROVE  SlotsInv'
<1>1. IsFiniteSet(Abstract!Open') /\ Cardinality(Abstract!Open') <= MaxConcurrent
  BY FewerOpen DEF SlotsInv
<1>2. Abstract!SlotsRespected'
  BY <1>1 DEF Abstract!SlotsRespected, Abstract!Cardinality, Cardinality,
              Abstract!IsFiniteSet, IsFiniteSet
<1>3. Abstract!OneOpenPerSession'
  BY DEF SlotsInv, Abstract!OneOpenPerSession
<1> QED
  BY <1>2, <1>3 DEF SlotsInv

LEMMA AdmitKeepsSlots ==
  ASSUME SlotsInv, NEW done \in SUBSET TurnIds, NEW new \in TurnIds,
         Abstract!Admit(done, new)
  PROVE  SlotsInv'
<1>1. PICK rest \in SUBSET Abstract!Open : rest = Abstract!Open \ done
  OBVIOUS
<1>2. Abstract!Open' = rest \cup {new}
  BY <1>1 DEF Abstract!Open, Abstract!Admit
<1>3. /\ IsFiniteSet(rest) /\ Cardinality(rest) \in Nat
      /\ Cardinality(rest) < MaxConcurrent
  <2>1. Cardinality(rest) < MaxConcurrent
    BY <1>1 DEF Abstract!Admit, Abstract!Cardinality, Cardinality
  <2> QED
    BY <2>1, FewerOpen DEF SlotsInv
<1>4. /\ IsFiniteSet(rest \cup {new})
      /\ Cardinality(rest \cup {new}) =
           IF new \in rest THEN Cardinality(rest) ELSE Cardinality(rest) + 1
  BY <1>3, FS_AddElement
<1>5. /\ IsFiniteSet(Abstract!Open')
      /\ Cardinality(Abstract!Open') <= MaxConcurrent
  BY <1>2, <1>3, <1>4, ConcurrencyLimitPositive
<1>6. Abstract!SlotsRespected'
  BY <1>5 DEF Abstract!SlotsRespected, Abstract!Cardinality, Cardinality,
              Abstract!IsFiniteSet, IsFiniteSet
<1>7. \A t \in rest : t.s # new.s
  BY <1>1 DEF Abstract!Admit, Abstract!Open
<1>8. \A t, u \in rest : t.s = u.s => t = u
  BY <1>1 DEF SlotsInv, Abstract!OneOpenPerSession, Abstract!Open
<1>9. \A t, u \in rest \cup {new} : t.s = u.s => t = u
  BY <1>7, <1>8
<1>10. Abstract!OneOpenPerSession'
  BY <1>1, <1>2, <1>9 DEF Abstract!OneOpenPerSession, Abstract!Open
<1> QED
  BY <1>6, <1>10 DEF SlotsInv

\* A specification that opens turns as the abstract slots do keeps their
\* limits: the concurrency check and the in-flight index of the reservation
\* are enough.
THEOREM SlotsSafe ==
  Abstract!Spec => [](Abstract!SlotsRespected /\ Abstract!OneOpenPerSession)
<1>1. Abstract!Init => SlotsInv
  <2> SUFFICES ASSUME Abstract!Init PROVE SlotsInv
    OBVIOUS
  <2>1. Abstract!Open = {}
    BY DEF Abstract!Init, Abstract!Open
  <2> QED
    BY <2>1, FS_EmptySet, SlotsAreCounted, ConcurrencyLimitPositive
    DEF SlotsInv, Abstract!OneOpenPerSession
<1>2. SlotsInv /\ [Abstract!Next]_Phase => SlotsInv'
  <2> SUFFICES ASSUME SlotsInv, [Abstract!Next]_Phase PROVE SlotsInv'
    OBVIOUS
  <2>1. ASSUME NEW set \in SUBSET TurnIds,
               Abstract!Close(set) \/ Abstract!Forget(set)
        PROVE  SlotsInv'
    <3>1. Abstract!Open' \subseteq Abstract!Open
      BY <2>1 DEF Abstract!Open, Abstract!Close, Abstract!Forget
    <3> QED
      BY <3>1, ShrinkingKeepsSlots
  <2>2. CASE UNCHANGED Phase
    <3>1. Abstract!Open' \subseteq Abstract!Open
      BY <2>2 DEF Abstract!Open
    <3> QED
      BY <3>1, ShrinkingKeepsSlots
  <2> QED
    BY <2>1, <2>2, AdmitKeepsSlots DEF Abstract!Next
<1> QED
  BY <1>1, <1>2, PTL DEF Abstract!Spec, SlotsInv

LEMMA OpenSlotsAreActiveTurns == Abstract!Open = ActiveTurns
BY DEF Abstract!Open, ActiveTurns, Phase, Active, ActiveStatuses

\* However requests, recoveries, crashes and session ends interleave, never
\* more than max_concurrent_turns turns are in flight.
THEOREM InFlightLimitHolds == Spec => []CapacityRespected
<1>1. Abstract!SlotsRespected => CapacityRespected
  BY OpenSlotsAreActiveTurns, SlotsAreCounted DEF CapacityRespected
<1> QED
  BY <1>1, SlotsImplemented, SlotsSafe, PTL DEF ImplementsSlots

\* OneInFlightPerSession: a session never has two turns in flight, also when a
\* lapsed one was recovered in the transaction that admitted the next.
THEOREM SessionsAskOneAtATime == Spec => []OneInFlightPerSession
<1>1. Abstract!OneOpenPerSession => OneInFlightPerSession
  BY OpenSlotsAreActiveTurns
  DEF Abstract!OneOpenPerSession, OneInFlightPerSession, ActiveTurns
<1> QED
  BY <1>1, SlotsImplemented, SlotsSafe, PTL DEF ImplementsSlots
=============================================================================
