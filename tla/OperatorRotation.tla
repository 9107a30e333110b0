-------------------------- MODULE OperatorRotation --------------------------
(***************************************************************************)
(* The change of the operator's password: run_operator_rotation drives a   *)
(* maintenance job in the cloud, a new revision of the application and the *)
(* four items of a local keychain, in this order.  It never retries and    *)
(* never undoes: when it stops, the operator goes on from the code it      *)
(* printed, with the same package or with an inverse one.                  *)
(*                                                                         *)
(* The operator runs one tool at a time.  Every deployment may be applied  *)
(* although it is reported as failed, and the job may change the database  *)
(* although its start, its end or its result is never learned.             *)
(*                                                                         *)
(* A hash stands for the one password it was made of.  What the operator   *)
(* does by hand is in the guards of Prepare, Discard, PromoteByHand and    *)
(* StartRun: the pending pair is left alone while a rotation is open, and  *)
(* nothing is run while an execution of the job is.                        *)
(***************************************************************************)
EXTENDS Integers, Sequences, FiniteSets

CONSTANTS
  Hashes,             \* password hashes
  FirstHash,          \* the one the workspace was bootstrapped with
  Missing,            \* an absent keychain item
  MaxExecutions,      \* bound: starts of the job
  MaxPackages,        \* bound: packages written
  MaxRotationFaults   \* bound: failed calls and crashes

ASSUME HashAssumption == FirstHash \in Hashes /\ Missing \notin Hashes
ASSUME RotationBoundsAssumption ==
  MaxExecutions \in Nat /\ MaxPackages \in Nat /\ MaxRotationFaults \in Nat

VARIABLES
  keychain,       \* current and pending: password and hash
  database,       \* operator_accounts.password_hash
  sessions,       \* hashes the live operator sessions were verified against
  login,          \* a login that verified a hash and has no session yet
  app,            \* the Container App: image, latest revision, its hash
  job,            \* the rotation job as it is deployed
  executions,     \* its executions, in the order of their starts
  packages,       \* authority files
  tool,           \* the controller
  stopped,        \* the reason it printed last
  open,           \* a job was started and its rotation is not finished
  rotated,        \* receipts
  rotationFaults  \* bound: faults so far

rotationVars ==
  <<keychain, database, sessions, login, app, job, executions, packages, tool,
    stopped, open, rotated, rotationFaults>>

PairOf(h) == [password |-> h, hash |-> h]

\* _load_pair: both items are there and the hash verifies the password.
ValidPair(pair) == pair.password # Missing /\ pair.password = pair.hash

NoJob == [enabled |-> FALSE]

NoTool == [pc |-> "idle"]

RotationInit ==
  /\ keychain = [current |-> PairOf(FirstHash), pending |-> PairOf(Missing)]
  /\ database = FirstHash
  /\ sessions = {}
  /\ login = Missing
  /\ app = [image |-> "serving", revision |-> 0, hash |-> FirstHash]
  /\ job = NoJob
  /\ executions = <<>>
  /\ packages = {}
  /\ tool = NoTool
  /\ stopped = "none"
  /\ open = FALSE
  /\ rotated = {}
  /\ rotationFaults = 0

-----------------------------------------------------------------------------
RotationFault ==
  /\ rotationFaults < MaxRotationFaults
  /\ rotationFaults' = rotationFaults + 1

ToolAt(pc) == tool.pc = pc
Proceed(pc) == tool' = [tool EXCEPT !.pc = pc]
Stop(code) == tool' = NoTool /\ stopped' = code

Quiet == \A i \in DOMAIN executions : executions[i].result # "running"

\* ready of the foundation: the revision's hash is the stored one.
AppReady == app.hash = database

Cloud == <<database, sessions, login, app, job, executions>>
Local == <<keychain, packages, rotated>>

-----------------------------------------------------------------------------
(***************************************************************************)
(* operator_rotation_keychain and generate_operator_rotation_authority     *)
(***************************************************************************)

\* prepare_pending writes the password and then its hash.
Prepare(h) ==
  /\ ToolAt("idle") /\ Quiet
  /\ ~open
  /\ \/ keychain' = [keychain EXCEPT !.pending = PairOf(h)]
        /\ UNCHANGED rotationFaults
     \/ RotationFault
        /\ keychain' = [keychain EXCEPT !.pending.password = h]
  /\ UNCHANGED <<Cloud, packages, tool, stopped, open, rotated>>

Discard ==
  /\ ToolAt("idle") /\ Quiet
  /\ ~open
  /\ \/ keychain' = [keychain EXCEPT !.pending = PairOf(Missing)]
        /\ UNCHANGED rotationFaults
     \/ RotationFault
        /\ keychain' = [keychain EXCEPT !.pending.password = Missing]
  /\ UNCHANGED <<Cloud, packages, tool, stopped, open, rotated>>

DistinctPairs ==
  /\ ValidPair(keychain.current) /\ ValidPair(keychain.pending)
  /\ keychain.current.password # keychain.pending.password

\* build_rotation_authority on what is there now; rebuilt by _fresh_preflight.
ForwardPackage ==
  [kind |-> "forward", old |-> keychain.current.hash,
   new |-> keychain.pending.hash, revision |-> app.revision]

ForwardAccepted == DistinctPairs /\ AppReady

GenerateForward ==
  /\ ToolAt("idle") /\ Quiet
  /\ ForwardAccepted
  /\ Cardinality(packages) < MaxPackages
  /\ packages' = packages \cup {ForwardPackage}
  /\ UNCHANGED <<Cloud, keychain, tool, stopped, open, rotated, rotationFaults>>

\* build_inverse_rotation_authority: the failed application may be unready, but
\* it has to run the image of the package.
InversePackage(p) ==
  [kind |-> "inverse", old |-> p.new, new |-> p.old, revision |-> app.revision]

InverseAccepted(old, new) ==
  /\ DistinctPairs
  /\ keychain.current.hash = new
  /\ keychain.pending.hash = old
  /\ app.image = "candidate"

GenerateInverse(p) ==
  /\ ToolAt("idle") /\ Quiet
  /\ p.kind = "forward"
  /\ InverseAccepted(p.new, p.old)
  /\ Cardinality(packages) < MaxPackages
  /\ packages' = packages \cup {InversePackage(p)}
  /\ UNCHANGED <<Cloud, keychain, tool, stopped, open, rotated, rotationFaults>>

-----------------------------------------------------------------------------
(***************************************************************************)
(* The job                                                                 *)
(***************************************************************************)

\* rotate_active_password_hash under the row lock; sessions are revoked in the
\* same transaction.  A login that has verified its password does not hold the
\* row: its session is inserted after the commit.
Rotate(p) ==
  IF database = p.old /\ database # p.new
  THEN database' = p.new /\ sessions' = {}
  ELSE UNCHANGED <<database, sessions>>

RotationResult(p) ==
  IF database = p.new THEN "already_rotated"
  ELSE IF database = p.old THEN "rotated"
  ELSE "failed"

\* The replica dies before its commit, after it, or not at all.
Execute(i) ==
  /\ executions[i].result = "running"
  /\ LET p == executions[i].package
         result(r) == executions' = [executions EXCEPT ![i].result = r]
     IN  \/ Rotate(p) /\ result(RotationResult(p)) /\ UNCHANGED rotationFaults
         \/ /\ RotationFault
            /\ result("failed")
            /\ Rotate(p) \/ UNCHANGED <<database, sessions>>
  /\ UNCHANGED <<Local, login, app, job, tool, stopped, open>>

\* OperatorAuthService.login: the stored hash is read without a lock, the session
\* inserted at the end of the same transaction.
VerifyLogin ==
  /\ login = Missing
  /\ AppReady
  /\ login' = database
  /\ UNCHANGED <<Local, database, sessions, app, job, executions, tool,
                 stopped, open, rotationFaults>>

IssueSession ==
  /\ login # Missing
  /\ sessions' = sessions \cup {login}
  /\ login' = Missing
  /\ UNCHANGED <<Local, database, app, job, executions, tool, stopped,
                 open, rotationFaults>>

-----------------------------------------------------------------------------
(***************************************************************************)
(* run_operator_rotation                                                   *)
(***************************************************************************)

\* The package is approved and rebuilt, or revalidated, from what is there now.
StartRun(p) ==
  /\ ToolAt("idle") /\ Quiet
  /\ CASE p.kind = "forward" -> ForwardAccepted /\ ForwardPackage = p
       [] p.kind = "inverse" -> InverseAccepted(p.old, p.new)
                                  /\ app.revision = p.revision
  /\ tool' = [pc |-> "stage", package |-> p, exec |-> 0, hand |-> FALSE,
              kept |-> keychain.current, taken |-> keychain.pending]
  /\ UNCHANGED <<Cloud, Local, stopped, open, rotationFaults>>

StageJob ==
  /\ ToolAt("stage")
  /\ LET applied == job' = [enabled |-> TRUE, package |-> tool.package]
     IN  \/ applied /\ Proceed("start") /\ UNCHANGED <<stopped, rotationFaults>>
         \/ /\ RotationFault
            /\ applied \/ UNCHANGED job
            /\ Stop("rotation_infrastructure_apply_failed")
  /\ UNCHANGED <<Local, database, sessions, login, app, executions, open>>

\* run_job_to_completion starts once; a start that is not answered may have been.
StartJob ==
  /\ ToolAt("start")
  /\ Len(executions) < MaxExecutions
  /\ LET begun == executions' = Append(executions,
                    [package |-> job.package, result |-> "running"])
     IN  \/ /\ begun
            /\ tool' = [tool EXCEPT !.pc = "await", !.exec = Len(executions) + 1]
            /\ UNCHANGED <<stopped, rotationFaults>>
         \/ /\ RotationFault
            /\ begun \/ UNCHANGED executions
            /\ Stop("forward_job_outcome_unknown")
  /\ open' = TRUE
  /\ UNCHANGED <<Local, database, sessions, login, app, job>>

\* It polls that one execution and reads its log; a timeout, a failed status or
\* an unreadable status leave the outcome unknown.
AwaitJob ==
  /\ ToolAt("await")
  /\ LET result == executions[tool.exec].result
     IN  \/ /\ result \in {"rotated", "already_rotated"}
            /\ Proceed("activate")
            /\ UNCHANGED <<stopped, rotationFaults>>
         \/ /\ result = "failed"
            /\ Stop("forward_job_outcome_unknown")
            /\ UNCHANGED rotationFaults
         \/ /\ RotationFault
            /\ Stop(IF result \in {"rotated", "already_rotated"}
                    THEN "forward_job_result_unavailable"
                    ELSE "forward_job_outcome_unknown")
  /\ UNCHANGED <<Cloud, Local, open>>

CommittedCode ==
  IF tool.package.kind = "forward"
  THEN "forward_committed_manual_inverse_required"
  ELSE "inverse_committed_manual_intervention_required"

ActivateApp ==
  /\ ToolAt("activate")
  /\ LET applied == app' = [image |-> "candidate", revision |-> app.revision + 1,
                            hash |-> tool.package.new]
     IN  \/ applied /\ Proceed("verify") /\ UNCHANGED <<stopped, rotationFaults>>
         \/ /\ RotationFault
            /\ applied \/ UNCHANGED app
            /\ Stop(CommittedCode)
  /\ UNCHANGED <<Local, database, sessions, login, job, executions, open>>

\* The exact revision answers /health/ready.
VerifyApp ==
  /\ ToolAt("verify")
  /\ \/ AppReady /\ Proceed("smoke") /\ UNCHANGED <<stopped, rotationFaults>>
     \/ ~AppReady /\ Stop(CommittedCode) /\ UNCHANGED rotationFaults
     \/ RotationFault /\ Stop(CommittedCode)
  /\ UNCHANGED <<Cloud, Local, open>>

\* The new password logs in and out again.
SmokeLogin ==
  /\ ToolAt("smoke")
  /\ \/ database = tool.package.new /\ Proceed("cleanup")
        /\ UNCHANGED <<stopped, rotationFaults>>
     \/ database # tool.package.new /\ Stop(CommittedCode)
        /\ UNCHANGED rotationFaults
     \/ RotationFault /\ Stop(CommittedCode)
  /\ UNCHANGED <<Cloud, Local, open>>

AfterCleanup == IF tool.package.kind = "forward" THEN "load" ELSE "receipt"

RemoveMaterial_ErrorIgnored ==   \* mutant: a failed deployment is not noticed
  /\ ToolAt("cleanup")
  /\ \/ job' = NoJob /\ UNCHANGED rotationFaults
     \/ RotationFault /\ UNCHANGED job
  /\ Proceed(AfterCleanup)
  /\ open' = (tool.package.kind = "forward")
  /\ UNCHANGED <<Local, database, sessions, login, app, executions,
                 stopped>>

RemoveMaterial ==
  /\ ToolAt("cleanup")
  /\ \/ /\ job' = NoJob
        /\ Proceed(AfterCleanup)
        /\ open' = (tool.package.kind = "forward")
        /\ UNCHANGED <<stopped, rotationFaults>>
     \/ /\ RotationFault
        /\ job' = NoJob \/ UNCHANGED job
        /\ Stop("rotation_cleanup_failed")
        /\ UNCHANGED open
  /\ UNCHANGED <<Local, database, sessions, login, app, executions>>

-----------------------------------------------------------------------------
(***************************************************************************)
(* promote_pending, one keychain item at a time                            *)
(***************************************************************************)
PromotionFails == Stop("rotation_local_promotion_failed")

\* The operator promotes by hand after a promotion that failed.
PromoteByHand ==
  /\ ToolAt("idle") /\ Quiet
  /\ stopped = "rotation_local_promotion_failed"
  /\ tool' = [pc |-> "load", exec |-> 0, hand |-> TRUE,
              kept |-> keychain.current, taken |-> keychain.pending]
  /\ UNCHANGED <<Cloud, Local, stopped, open, rotationFaults>>

\* Both pairs are read again.
LoadPairs ==
  /\ ToolAt("load")
  /\ IF ValidPair(keychain.current) /\ ValidPair(keychain.pending)
     THEN /\ tool' = [tool EXCEPT !.pc = "password", !.kept = keychain.current,
                                  !.taken = keychain.pending]
          /\ UNCHANGED stopped
     ELSE PromotionFails
  /\ UNCHANGED <<Cloud, Local, open, rotationFaults>>

\* An item is written, or the call raises and leaves it.
WriteItem(item, next, otherwise) ==
  /\ \/ keychain' = item /\ next /\ UNCHANGED rotationFaults
     \/ RotationFault /\ otherwise /\ UNCHANGED keychain
  /\ UNCHANGED <<Cloud, packages, rotated>>

PromotePassword_ErrorIgnored ==   \* mutant: a failed write is not noticed
  /\ ToolAt("password")
  /\ LET go == Proceed("hash") /\ UNCHANGED stopped
     IN  WriteItem([keychain EXCEPT !.current.password = tool.taken.password], go, go)
  /\ UNCHANGED open

PromotePassword ==
  /\ ToolAt("password")
  /\ WriteItem([keychain EXCEPT !.current.password = tool.taken.password],
           Proceed("hash") /\ UNCHANGED stopped,
           Proceed("restore") /\ UNCHANGED stopped)
  /\ UNCHANGED open

PromoteHash ==
  /\ ToolAt("hash")
  /\ WriteItem([keychain EXCEPT !.current.hash = tool.taken.hash],
           Proceed("clear_password") /\ UNCHANGED stopped,
           Proceed("restore") /\ UNCHANGED stopped)
  /\ UNCHANGED open

\* The password and the hash are written back; the first or the second may fail.
RestoreCurrent ==
  /\ ToolAt("restore")
  /\ PromotionFails
  /\ \/ keychain' = [keychain EXCEPT !.current = tool.kept]
        /\ UNCHANGED rotationFaults
     \/ /\ RotationFault
        /\ \/ UNCHANGED keychain
           \/ keychain' = [keychain EXCEPT !.current.password = tool.kept.password]
  /\ UNCHANGED <<Cloud, packages, rotated, open>>

ClearPassword ==
  /\ ToolAt("clear_password")
  /\ WriteItem([keychain EXCEPT !.pending.password = Missing],
           Proceed("clear_hash") /\ UNCHANGED stopped, PromotionFails)
  /\ UNCHANGED open

ClearHash ==
  /\ ToolAt("clear_hash")
  /\ WriteItem([keychain EXCEPT !.pending.hash = Missing],
           IF tool.hand THEN Stop("finished")
           ELSE Proceed("receipt") /\ UNCHANGED stopped,
           PromotionFails)
  /\ open' = (open /\ keychain'.pending.hash # Missing)

\* _write_receipt creates the file.
WriteReceipt ==
  /\ ToolAt("receipt")
  /\ \/ /\ rotated' = rotated \cup {tool.package}
        /\ Stop("finished")
        /\ UNCHANGED rotationFaults
     \/ /\ RotationFault
        /\ Stop("rotation_receipt_write_failed")
        /\ UNCHANGED rotated
  /\ UNCHANGED <<Cloud, keychain, packages, open>>

CrashTool ==
  /\ ~ToolAt("idle")
  /\ RotationFault
  /\ Stop("crashed")
  /\ UNCHANGED <<Cloud, Local, open>>

RotationRun ==
  \/ StageJob \/ StartJob \/ AwaitJob \/ ActivateApp \/ VerifyApp \/ SmokeLogin
  \/ RemoveMaterial \/ LoadPairs \/ PromotePassword \/ PromoteHash
  \/ RestoreCurrent \/ ClearPassword \/ ClearHash \/ WriteReceipt \/ CrashTool

RotationNext ==
  \/ RotationRun
  \/ Discard \/ GenerateForward \/ PromoteByHand \/ VerifyLogin \/ IssueSession
  \/ \E h \in Hashes : Prepare(h)
  \/ \E p \in packages : GenerateInverse(p) \/ StartRun(p)
  \/ \E i \in DOMAIN executions : Execute(i)

RotationSpec == RotationInit /\ [][RotationNext]_rotationVars
-----------------------------------------------------------------------------
(***************************************************************************)
(* Properties                                                              *)
(***************************************************************************)

\* Wherever the controller stops or dies, and whatever the cloud did without its
\* knowledge, the password in force is in the keychain: the operator is never
\* locked out.
PasswordInForceIsHeld ==
  database \in {keychain.current.password, keychain.pending.password}

\* A receipt is written only when the stored hash, the application's hash and the
\* keychain's current pair are the package's new one and the job has lost its
\* material.
ReceiptIsTrue ==
  [][\A p \in rotated' \ rotated :
       /\ database = p.new /\ app.hash = p.new
       /\ keychain.current = PairOf(p.new)
       /\ job = NoJob]_rotationVars

\* Once a rotation has its receipt, and as long as its password is in force, no session
\* is left that another password opened.  The plan counts this among the conditions of
\* success (2026-08-17-operator-password-rotation.md:517); a login that verifies its
\* password before the job commits, and inserts its session after, escapes.
OldSessionsEnd ==
  \A p \in rotated : database = p.new => sessions \subseteq {p.new}
=============================================================================
