---------------------------- MODULE AIKeyControl ----------------------------
(***************************************************************************)
(* The administrator's two mutations of ai_control_state:                  *)
(* AIControlService.set_channels and OpenAIKeyRotationService.rotate.      *)
(*                                                                         *)
(* A mutation locks the control row without waiting and keeps it locked    *)
(* while it calls the secret store and the provider.  The row, the audit   *)
(* event and the idempotency receipt change in one commit, the secret      *)
(* store in calls of its own: a rotation that fails after its write puts   *)
(* the previous value back, and one whose commit fails looks at the row    *)
(* first.  A commit whose connection is lost may have happened, may be     *)
(* rolled back, or may be decided later by the server.                     *)
(*                                                                         *)
(* A key is its value (its fingerprint, an HMAC of it, tells values        *)
(* apart); a version of the secret store is its number.                    *)
(***************************************************************************)
EXTENDS Integers, Sequences, FiniteSets

CONSTANTS
  Workers,      \* request threads
  Secrets,      \* candidate keys
  Keys,         \* idempotency keys of the administrator's browser
  NoSecret,     \* no key
  NoWorker,     \* nobody holds the row
  Server,       \* the server still decides a commit whose client is gone
  MaxRequests,  \* bound: mutations
  MaxFaults     \* bound: failed calls, lost connections and crashes

ASSUME NullAssumption ==
  NoSecret \notin Secrets /\ NoWorker \notin Workers /\ Server \notin Workers
    /\ NoWorker # Server
ASSUME KeyBoundsAssumption == MaxRequests \in Nat /\ MaxFaults \in Nat

VARIABLES
  control,   \* ai_control_state, the row of the workspace
  lock,      \* who has it FOR UPDATE
  receipts,  \* idempotency_receipts of the two operations
  audit,     \* admin_audit_events, in the order of their commits
  vault,     \* versions of the secret, the newest last
  doubt,     \* transaction whose commit the server still decides
  request,   \* local state of each request thread
  history,   \* ghost: the row at each revision, from revision 0
  answers,   \* ghost: what was answered so far
  qualified, \* ghost: versions whose stored value the provider accepted
  gap,       \* ghost: a previous value could not be put back, or too late
  started,   \* bound: mutations so far
  faults     \* bound: faults so far

vars == <<control, lock, receipts, audit, vault, doubt, request, history,
          answers, qualified, gap, started, faults>>

Control ==
  [operator : BOOLEAN, demo : BOOLEAN, version : Nat,
   secret : Secrets \cup {NoSecret}, revision : Nat]

\* get_or_create: both channels off, no key.
Unconfigured ==
  [operator |-> FALSE, demo |-> FALSE, version |-> 0, secret |-> NoSecret,
   revision |-> 0]

Configured(row) == row.version # 0

Rotations == [kind : {"rotate"}, key : Keys, expected : Nat, secret : Secrets]
Switches ==
  [kind : {"channels"}, key : Keys, expected : Nat, operator : BOOLEAN,
   demo : BOOLEAN]
Mutations == Rotations \cup Switches
Kinds == {"rotate", "channels"}

\* What the API may return of a row.
Projection(row) ==
  [revision |-> row.revision, operator |-> row.operator, demo |-> row.demo,
   secret |-> row.secret]

None == "none"
Failures == {"key_rejected", "validation_unknown", "secret_unavailable",
             "reconciliation_required"}

Receipt(mutation, code, row) ==
  [mutation |-> mutation, code |-> code, projection |-> Projection(row)]

Event(mutation, code, prior, row, checked) ==
  [mutation |-> mutation, code |-> code, prior |-> prior.revision,
   resulting |-> row.revision, checked |-> checked]

\* Where the receipt of a mutation is found: operation and idempotency key.
Slot(mutation) == <<mutation.kind, mutation.key>>

NoReceipt == [code |-> "missing"]
NoTx == [row |-> Unconfigured, receipt |-> NoReceipt, events |-> <<>>]
Idle == [pc |-> "idle"]
Stages == {"lock", "previous", "validate", "write", "readback", "revalidate",
           "compensate", "qualify", "record", "commit", "reconcile", "restore"}

Init ==
  /\ control = Unconfigured
  /\ lock = NoWorker
  /\ receipts = [o \in Kinds \X Keys |-> NoReceipt]
  /\ audit = <<>>
  /\ vault = <<>>
  /\ doubt = NoTx
  /\ request = [w \in Workers |-> Idle]
  /\ history = <<Unconfigured>>
  /\ answers = {}
  /\ qualified = {}
  /\ gap = FALSE
  /\ started = 0
  /\ faults = 0

-----------------------------------------------------------------------------
(***************************************************************************)
(* Frames.  Every step of a request is one of: it goes on, it answers, it  *)
(* commits.                                                                *)
(***************************************************************************)
At(w, pc) == request[w].pc = pc
Set(w, r) == request' = [request EXCEPT ![w] = r]
Rotating(w) == request[w].mutation.kind = "rotate"

\* The thread goes on at pc.
Goto(w, pc) == Set(w, [request[w] EXCEPT !.pc = pc])
\* The thread goes on at pc with the failure code.
FailAt(w, pc, code) == Set(w, [request[w] EXCEPT !.pc = pc, !.code = code])

Answer(w, code, projection) ==
  /\ Set(w, Idle)
  /\ answers' = answers \cup
       {[mutation |-> request[w].mutation, code |-> code,
         projection |-> projection]}

Refuse(w, code) == Answer(w, code, Projection(Unconfigured))

Fault ==
  /\ faults < MaxFaults
  /\ faults' = faults + 1

Database == <<control, receipts, audit, history>>

-----------------------------------------------------------------------------
(***************************************************************************)
(* Under the row lock                                                      *)
(***************************************************************************)

\* update_channels and rotate_key: a form filled in at some revision.
Begin(w) ==
  /\ At(w, "idle")
  /\ started < MaxRequests
  /\ \E mutation \in [kind : {"rotate"}, key : Keys,
                      expected : 0..control.revision, secret : Secrets]
            \cup [kind : {"channels"}, key : Keys,
                  expected : 0..control.revision, operator : BOOLEAN,
                  demo : BOOLEAN] :
       Set(w, [pc |-> "lock", mutation |-> mutation, prior |-> Unconfigured,
               previous |-> NoSecret, wrote |-> FALSE, version |-> 0,
               code |-> None, checked |-> 0, tx |-> NoTx])
  /\ started' = started + 1
  /\ UNCHANGED <<Database, lock, vault, doubt, answers, qualified, gap, faults>>

\* SELECT FOR UPDATE NOWAIT on a row that somebody has.
Busy(w) ==
  /\ At(w, "lock")
  /\ lock # NoWorker
  /\ Refuse(w, "busy")
  /\ UNCHANGED <<Database, lock, vault, doubt, qualified, gap, started, faults>>

ReceiptOf_NotKept(w) == NoReceipt   \* mutant: receipts are not looked up

ReceiptOf(w) == receipts[Slot(request[w].mutation)]

\* A receipt answers, with the same projection, or shows that the key was used
\* for another mutation.
Replay(w) ==
  /\ At(w, "lock")
  /\ lock = NoWorker
  /\ LET receipt == ReceiptOf(w)
     IN  /\ receipt # NoReceipt
         /\ IF \/ receipt.mutation # request[w].mutation
               \/ /\ receipt.projection.secret # NoSecret
                  /\ receipt.code = None
                  /\ ~Configured(control)
            THEN Refuse(w, "conflict")
            ELSE Answer(w, receipt.code, receipt.projection)
  /\ UNCHANGED <<Database, lock, vault, doubt, qualified, gap, started, faults>>

Stale(w) ==
  /\ At(w, "lock")
  /\ lock = NoWorker
  /\ ReceiptOf(w) = NoReceipt
  /\ control.revision # request[w].mutation.expected
  /\ Refuse(w, "conflict")
  /\ UNCHANGED <<Database, lock, vault, doubt, qualified, gap, started, faults>>

\* A channel that was off is to be on.
TurnsOn_FirstOnly(mutation, row) ==   \* mutant: only when both were off
  (mutation.operator \/ mutation.demo) /\ ~row.operator /\ ~row.demo

TurnsOn(mutation, row) ==
  (mutation.operator /\ ~row.operator) \/ (mutation.demo /\ ~row.demo)

\* The row is locked at the expected revision: what comes next.
Lock(w) ==
  /\ At(w, "lock")
  /\ lock = NoWorker
  /\ ReceiptOf(w) = NoReceipt
  /\ control.revision = request[w].mutation.expected
  /\ lock' = w
  /\ LET mutation == request[w].mutation
         next(pc, code) ==
           Set(w, [request[w] EXCEPT !.pc = pc, !.code = code,
                                     !.prior = control])
     IN  IF mutation.kind = "rotate"
         THEN next(IF Configured(control) THEN "previous" ELSE "validate", None)
         ELSE IF (mutation.operator \/ mutation.demo) /\ ~Configured(control)
         THEN next("record", "secret_unavailable")
         ELSE next(IF TurnsOn(mutation, control) THEN "qualify" ELSE "record", None)
  /\ UNCHANGED <<Database, vault, doubt, answers, qualified, gap, started, faults>>

\* rotate reads the value it may have to put back.
ReadPrevious(w) ==
  /\ At(w, "previous")
  /\ \/ /\ Set(w, [request[w] EXCEPT !.pc = "validate",
                                     !.previous = vault[request[w].prior.version]])
        /\ UNCHANGED faults
     \/ Fault /\ FailAt(w, "record", "secret_unavailable")
  /\ UNCHANGED <<Database, lock, vault, doubt, answers, qualified, gap, started>>

\* The provider's verdict on a key: verified, rejected or no answer.
Verdicts == {None, "key_rejected", "validation_unknown"}

Validate(w) ==
  /\ At(w, "validate")
  /\ \E code \in Verdicts :
       FailAt(w, IF code = None THEN "write" ELSE "record", code)
  /\ UNCHANGED <<Database, lock, vault, doubt, answers, qualified, gap, started,
                 faults>>

\* The secret store has one version more.
Store(value) == vault' = Append(vault, value)

\* A write that raises may have stored the value.
Write(w) ==
  /\ At(w, "write")
  /\ \/ /\ Store(request[w].mutation.secret)
        /\ Set(w, [request[w] EXCEPT !.pc = "readback", !.wrote = TRUE,
                                     !.version = Len(vault) + 1])
        /\ UNCHANGED faults
     \/ /\ Fault
        /\ Store(request[w].mutation.secret) \/ UNCHANGED vault
        /\ Set(w, [request[w] EXCEPT !.pc = "compensate", !.wrote = TRUE,
                                     !.code = "secret_unavailable"])
  /\ UNCHANGED <<Database, lock, doubt, answers, qualified, gap, started>>

ReadBack_Trusted(w) ==   \* mutant: what was written is not validated again
  /\ At(w, "readback")
  /\ Goto(w, "record")
  /\ UNCHANGED <<Database, lock, vault, doubt, answers, qualified, gap, started,
                 faults>>

ReadBack(w) ==
  /\ At(w, "readback")
  /\ \/ Goto(w, "revalidate") /\ UNCHANGED faults
     \/ Fault /\ FailAt(w, "compensate", "secret_unavailable")
  /\ UNCHANGED <<Database, lock, vault, doubt, answers, qualified, gap, started>>

Revalidate(w) ==
  /\ At(w, "revalidate")
  /\ \E code \in Verdicts :
       IF code = None
       THEN /\ Goto(w, "record")
            /\ qualified' = qualified \cup {request[w].version}
       ELSE FailAt(w, "compensate", code) /\ UNCHANGED qualified
  /\ UNCHANGED <<Database, lock, vault, doubt, answers, gap, started, faults>>

\* set_channels asks the provider about the stored value of the bound version.
Qualify(w) ==
  /\ At(w, "qualify")
  /\ \/ \E code \in Verdicts :
          /\ Set(w, [request[w] EXCEPT !.pc = "record", !.code = code,
                       !.checked = IF code = None
                                   THEN request[w].prior.version ELSE 0])
          /\ UNCHANGED faults
     \/ Fault /\ FailAt(w, "record", "secret_unavailable")
  /\ UNCHANGED <<Database, lock, vault, doubt, answers, qualified, gap, started>>

-----------------------------------------------------------------------------
(***************************************************************************)
(* Compensation                                                            *)
(***************************************************************************)

\* _compensate, once: there is a previous value and its write is answered, or
\* it is not.  It comes too late when the row is no longer w's.
PutBack(w, alone, restored, failed) ==
  LET r == request[w]
  IN  \/ /\ r.previous = NoSecret
         /\ failed
         /\ gap' = TRUE
         /\ UNCHANGED <<vault, faults>>
      \/ /\ r.previous # NoSecret
         /\ Store(r.previous)
         /\ restored
         /\ gap' = (gap \/ ~alone)
         /\ UNCHANGED faults
      \/ /\ r.previous # NoSecret
         /\ Fault
         /\ Store(r.previous) \/ UNCHANGED vault
         /\ failed
         /\ gap' = TRUE

\* Before the failure is recorded, the row still locked.
Compensate(w) ==
  /\ At(w, "compensate")
  /\ PutBack(w, lock = w, Goto(w, "record"),
             FailAt(w, "record", IF request[w].previous = NoSecret
                                 THEN "reconciliation_required"
                                 ELSE "secret_unavailable"))
  /\ UNCHANGED <<Database, lock, doubt, answers, qualified, started>>

\* After a transaction that is known to be rolled back.
Restore(w) ==
  /\ At(w, "restore")
  /\ LET refuse == Refuse(w, IF request[w].previous = NoSecret
                             THEN "reconciliation_required"
                             ELSE "secret_unavailable")
     IN  PutBack(w, lock = NoWorker /\ control = request[w].prior, refuse, refuse)
  /\ UNCHANGED <<Database, lock, doubt, qualified, started>>

-----------------------------------------------------------------------------
(***************************************************************************)
(* The transaction's writes and its commit                                 *)
(***************************************************************************)

\* activate_key or set_channels, with the revision moved on.
Changed(r) ==
  IF r.mutation.kind = "rotate"
  THEN [r.prior EXCEPT !.version = r.version, !.secret = r.mutation.secret,
                       !.revision = @ + 1]
  ELSE [r.prior EXCEPT !.operator = r.mutation.operator,
                       !.demo = r.mutation.demo, !.revision = @ + 1]

\* A failed rotation leaves an audit event, a failed switch only its receipt.
Transaction_RotationsAudited(r) ==   \* mutant: a switch leaves no audit event
  LET row == IF r.code = None THEN Changed(r) ELSE r.prior
  IN  [row |-> row,
       receipt |-> Receipt(r.mutation, r.code, row),
       events |-> IF r.mutation.kind = "channels" THEN <<>>
                  ELSE <<Event(r.mutation, r.code, r.prior, row, r.checked)>>]

Transaction(r) ==
  LET row == IF r.code = None THEN Changed(r) ELSE r.prior
      silent == r.code # None /\ r.mutation.kind = "channels"
  IN  [row |-> row,
       receipt |-> Receipt(r.mutation, r.code, row),
       events |-> IF silent THEN <<>>
                  ELSE <<Event(r.mutation, r.code, r.prior, row, r.checked)>>]

Unlock(w) == lock' = IF lock = w THEN NoWorker ELSE lock

\* The exception after a rollback: a rotation that had written and not yet
\* compensated puts the previous value back.
RolledBack_NotRestored(w) ==   \* mutant: the written key stays the newest
  Refuse(w, "secret_unavailable")

RolledBack(w) ==
  IF Rotating(w) /\ request[w].code = None
  THEN Goto(w, "restore") /\ UNCHANGED answers
  ELSE Refuse(w, IF request[w].code = None \/ ~Rotating(w)
                 THEN "secret_unavailable" ELSE request[w].code)

Record(w) ==
  /\ At(w, "record")
  /\ lock = w
  /\ Set(w, [request[w] EXCEPT !.pc = "commit", !.tx = Transaction(request[w])])
  /\ UNCHANGED <<Database, lock, vault, doubt, answers, qualified, gap, started,
                 faults>>

\* A statement fails, or the connection is found to be gone.
RecordFails(w) ==
  /\ At(w, "record")
  /\ IF lock = w THEN Fault ELSE UNCHANGED faults
  /\ Unlock(w)
  /\ RolledBack(w)
  /\ UNCHANGED <<Database, vault, doubt, qualified, gap, started>>

Apply(tx) ==
  /\ control' = tx.row
  /\ receipts' = [receipts EXCEPT
       ![Slot(tx.receipt.mutation)] = tx.receipt]
  /\ audit' = audit \o tx.events
  /\ history' = IF tx.row = control THEN history ELSE Append(history, tx.row)

Commit(w) ==
  /\ At(w, "commit")
  /\ lock = w
  /\ Apply(request[w].tx)
  /\ lock' = NoWorker
  /\ Answer(w, request[w].code, Projection(request[w].tx.row))
  /\ UNCHANGED <<vault, doubt, qualified, gap, started, faults>>

\* The transaction body was complete: a rotation looks at the row.
AfterLostCommit(w) ==
  IF Rotating(w) /\ request[w].code = None
  THEN Goto(w, "reconcile") /\ UNCHANGED answers
  ELSE Refuse(w, IF Rotating(w) THEN request[w].code ELSE "secret_unavailable")

CommitFails(w) ==
  /\ At(w, "commit")
  /\ IF lock = w THEN Fault ELSE UNCHANGED faults
  /\ AfterLostCommit(w)
  /\ \/ Unlock(w) /\ UNCHANGED <<Database, doubt>>
     \/ lock = w /\ Apply(request[w].tx) /\ lock' = NoWorker /\ UNCHANGED doubt
     \/ lock = w /\ doubt' = request[w].tx /\ lock' = Server /\ UNCHANGED Database
  /\ UNCHANGED <<vault, qualified, gap, started>>

\* The server finishes, or drops, the commit nobody waits for.
Decide ==
  /\ lock = Server
  /\ lock' = NoWorker
  /\ doubt' = NoTx
  /\ Apply(doubt) \/ UNCHANGED Database
  /\ UNCHANGED <<vault, request, answers, qualified, gap, started, faults>>

\* _reconcile_binding: the row after a failed commit.
Activated_ByRevision(r) ==   \* mutant: the binding is not compared
  control.revision = r.prior.revision + 1

Activated(r) ==
  /\ control.revision = r.prior.revision + 1
  /\ control.version = r.version
  /\ control.secret = r.mutation.secret
  /\ control.operator = r.prior.operator
  /\ control.demo = r.prior.demo

Reconcile(w) ==
  /\ At(w, "reconcile")
  /\ LET r == request[w]
         unknown == Refuse(w, "secret_unavailable") /\ gap' = TRUE
     IN  \/ /\ Activated(r)
            /\ Answer(w, None, Projection(control))
            /\ UNCHANGED <<gap, faults>>
         \/ /\ control = r.prior
            /\ Goto(w, "restore")
            /\ UNCHANGED <<answers, gap, faults>>
         \/ /\ ~Activated(r) /\ control # r.prior
            /\ unknown
            /\ UNCHANGED faults
         \/ Fault /\ unknown
  /\ UNCHANGED <<Database, lock, vault, doubt, qualified, started>>

-----------------------------------------------------------------------------
(***************************************************************************)
(* What else happens to a request                                          *)
(***************************************************************************)

\* The database connection of a transaction is lost while the thread waits for
\* the secret store or the provider: the server lets go of the row.
LoseConnection(w) ==
  /\ lock = w
  /\ Fault
  /\ lock' = NoWorker
  /\ UNCHANGED <<Database, vault, doubt, request, answers, qualified, gap, started>>

\* The process dies.
Crash(w) ==
  /\ ~At(w, "idle")
  /\ Fault
  /\ Set(w, Idle)
  /\ Unlock(w)
  /\ gap' = (gap \/ request[w].wrote)
  /\ UNCHANGED <<Database, vault, doubt, answers, qualified, started>>

Next ==
  \/ Decide
  \/ \E w \in Workers :
       \/ Begin(w) \/ Busy(w) \/ Replay(w) \/ Stale(w) \/ Lock(w)
       \/ ReadPrevious(w) \/ Validate(w) \/ Write(w) \/ ReadBack(w)
       \/ Revalidate(w) \/ Qualify(w) \/ Compensate(w) \/ Restore(w)
       \/ Record(w) \/ RecordFails(w) \/ Commit(w) \/ CommitFails(w)
       \/ Reconcile(w) \/ LoseConnection(w) \/ Crash(w)

Spec == Init /\ [][Next]_vars
-----------------------------------------------------------------------------
(***************************************************************************)
(* Properties                                                              *)
(***************************************************************************)
Transactions ==
  [row : Control,
   receipt : {NoReceipt} \cup [mutation : Mutations, code : {None} \cup Failures,
                          projection : [revision : Nat, operator : BOOLEAN,
                            demo : BOOLEAN, secret : Secrets \cup {NoSecret}]],
   events : Seq([mutation : Mutations, code : {None} \cup Failures,
                 prior : Nat, resulting : Nat, checked : Nat])]

Running ==
  [pc : Stages, mutation : Mutations, prior : Control,
   previous : Secrets \cup {NoSecret}, wrote : BOOLEAN, version : Nat,
   code : {None} \cup Failures, checked : Nat, tx : Transactions]

\* The row, its lock, the store and the threads have the values the code knows.
KeyTypeOK ==
  /\ control \in Control
  /\ lock \in Workers \cup {NoWorker, Server}
  /\ vault \in Seq(Secrets)
  /\ doubt \in Transactions
  /\ request \in [Workers -> Running \cup {Idle}]
  /\ history \in Seq(Control)
  /\ qualified \subseteq 1..Len(vault)
  /\ gap \in BOOLEAN
  /\ started \in 0..MaxRequests /\ faults \in 0..MaxFaults

\* Whatever fails between the two stores, the version the row names exists, holds
\* the value of the row's fingerprint, and was read back and accepted by the
\* provider; without such a key both channels are off.
BoundKeyIsQualified ==
  IF Configured(control)
  THEN /\ control.version \in qualified
       /\ vault[control.version] = control.secret
  ELSE ~control.operator /\ ~control.demo

\* Each revision of the row was made by one audited mutation, recorded under one
\* idempotency key with the projection of that revision.
RevisionsAreAccountedFor ==
  \A r \in 1..control.revision :
    \E i \in DOMAIN audit, o \in DOMAIN receipts :
      /\ \A j \in DOMAIN audit :
           audit[j].code = None /\ audit[j].resulting = r <=> j = i
      /\ audit[i].prior = r - 1
      /\ receipts[o] # NoReceipt
      /\ receipts[o].code = None
      /\ receipts[o].mutation = audit[i].mutation
      /\ receipts[o].projection = Projection(history[r + 1])

\* What the mutation asks for is what happened from one revision to the next, and
\* the other half of the row stayed as it was.
Did(mutation, old, new) ==
  IF mutation.kind = "rotate"
  THEN /\ new.secret = mutation.secret
       /\ new.operator = old.operator /\ new.demo = old.demo
  ELSE /\ new.operator = mutation.operator /\ new.demo = mutation.demo
       /\ new.version = old.version /\ new.secret = old.secret

\* A success that was answered, at once, after a reconciliation or as a replay,
\* names a revision at which the mutation was done.
SuccessIsTrue ==
  \A a \in answers : a.code = None =>
    LET r == a.projection.revision
    IN  /\ r \in 1..control.revision
        /\ a.projection = Projection(history[r + 1])
        /\ Did(a.mutation, history[r], history[r + 1])

\* However often a browser repeats a mutation under its key, the successes name
\* one revision.
KeyIsSpentOnce ==
  \A a, b \in answers :
    a.code = None /\ b.code = None
      /\ a.mutation.kind = b.mutation.kind /\ a.mutation.key = b.mutation.key
        => a = b

\* A channel went on at a revision only after the provider accepted, in the same
\* transaction, the version that was bound.
ChannelsStartOnCheckedKey ==
  \A i \in DOMAIN audit :
    audit[i].code = None =>
      LET old == history[audit[i].resulting]
          new == history[audit[i].resulting + 1]
      IN  (new.operator /\ ~old.operator) \/ (new.demo /\ ~old.demo) =>
            audit[i].checked = new.version /\ new.version # 0

\* When nothing runs and every restoring write was made in time, the newest
\* version of the secret holds the bound key: a rotation that failed after its
\* write has put the previous value back.
LatestIsBound ==
  lock = NoWorker /\ (\A w \in Workers : At(w, "idle")) /\ ~gap /\ vault # <<>>
    => vault[Len(vault)] = control.secret

\* The provider has the last word: what serves, and what the newest version holds
\* when everything is at rest, is a key it accepted.
ServedKeyIsChecked == ChannelsStartOnCheckedKey /\ LatestIsBound
=============================================================================
