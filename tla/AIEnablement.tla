---------------------------- MODULE AIEnablement ----------------------------
(***************************************************************************)
(* The release that turns the AI on: execute_ai_enablement walks through   *)
(* STATE_ORDER, and run_ai_disabled_recovery, run by hand, turns the AI    *)
(* off again when a run stopped at its first rehearsal.                    *)
(*                                                                         *)
(* Every state of the order is one or more calls: a PATCH of the Container *)
(* App, the reconciliation that follows it, a check in a browser, a write  *)
(* of the secret.  A PATCH and a write may take effect although they are   *)
(* reported as failed; the next revision becomes ready in its own time.    *)
(* A rehearsal enables the AI, looks, and disables it again even if it     *)
(* failed, unless it was interrupted.  From the attempt to write the real  *)
(* key on, a failure disables the AI and overwrites the key, once.         *)
(*                                                                         *)
(* A revision is named by the label of the PATCH that made it.             *)
(***************************************************************************)
EXTENDS Integers, Sequences

CONSTANT MaxEnablementFaults   \* bound: failed calls and deaths of a process

ASSUME EnablementBoundAssumption == MaxEnablementFaults \in Nat

VARIABLES
  revision,     \* of the Container App: the latest and the latest ready one
  secret,       \* value of openai-api-key
  runner,       \* run_ai_enablement
  receipt,      \* its receipt
  observed,     \* its observation file is written
  recovery,     \* run_ai_disabled_recovery
  enablementFaults  \* bound: faults so far

enablementVars ==
  <<revision, secret, runner, receipt, observed, recovery, enablementFaults>>


\* STATE_ORDER, each state by the calls it makes.
Plan ==
  << <<"call", "publish">>,
     <<"patch", "ai-off">>, <<"reconcile", "ai-off">>, <<"browser", "ai-off">>,
     <<"call", "resources">>,
     <<"patch", "budget">>, <<"reconcile", "budget">>, <<"browser", "budget">>,
     <<"patch", "recover-b">>, <<"reconcile", "recover-b">>,
     <<"write", "placeholder">>,
     <<"patch", "provider">>, <<"reconcile", "provider">>,
     <<"browser", "provider">>,
     <<"patch", "recover-p">>, <<"reconcile", "recover-p">>,
     <<"call", "qualification">>,
     <<"write", "real">>,
     <<"patch", "ai-on">>, <<"reconcile", "ai-on">>, <<"browser", "ai-on">>,
     <<"observe", "observation">>, <<"finalize", "receipt">> >>

\* The calls of the two rehearsals between their enabling PATCH and its recovery.
BudgetRehearsal == 6..8
ProviderRehearsal == 12..14

EnablementInit ==
  /\ revision = [latest |-> "rollback", ready |-> "rollback"]
  /\ secret \in {"absent", "placeholder"}
  /\ runner = [pc |-> "idle", step |-> 1, known |-> "rollback",
               before |-> "rollback", attempted |-> FALSE, finalized |-> FALSE,
               broken |-> FALSE, paid |-> 0, result |-> "none"]
  /\ receipt = "none"
  /\ observed = FALSE
  /\ recovery = [pc |-> "idle", receipt |-> "none"]
  /\ enablementFaults = 0

-----------------------------------------------------------------------------
EnablementFault ==
  /\ enablementFaults < MaxEnablementFaults
  /\ enablementFaults' = enablementFaults + 1

Hosted == <<revision, secret>>
RunnerAt(pc) == runner.pc = pc
Doing(call) == RunnerAt("plan") /\ Plan[runner.step][1] = call
Label == Plan[runner.step][2]
Go(r) == runner' = r

Advanced(r) == [r EXCEPT !.step = @ + 1]
ToHandler(r) == [r EXCEPT !.pc = "handler"]

\* An exception: a rehearsal goes on with its recovery, any other state fails.
Raised(r) ==
  CASE r.step \in BudgetRehearsal -> [r EXCEPT !.step = 9, !.broken = TRUE]
    [] r.step \in ProviderRehearsal -> [r EXCEPT !.step = 15, !.broken = TRUE]
    [] OTHER -> ToHandler(r)

\* The call fails, or the operator interrupts it: only the latter skips the
\* recovery of a rehearsal.
Fails(r) == EnablementFault /\ (Go(Raised(r)) \/ Go(ToHandler(r)))

\* The Container App takes a PATCH: the revision is the latest at once.
Patched(label) == revision' = [revision EXCEPT !.latest = label]

\* reconcile_ai_transition: the target is announced, ready and healthy.
Converged_Announced(target) ==   \* mutant: readiness is not awaited
  revision.latest = target

Converged(target) ==
  revision.latest = target /\ revision.ready = target

\* A revision that is neither the predecessor nor the target.
Drifted(before, target) ==
  ~({revision.latest, revision.ready} \subseteq {before, target})

-----------------------------------------------------------------------------
(***************************************************************************)
(* execute_ai_enablement                                                   *)
(***************************************************************************)

\* Every local and read-only gate, then the receipt, exclusively: a package runs
\* once.
Reserve ==
  /\ RunnerAt("idle")
  /\ receipt = "none" /\ ~observed
  /\ revision = [latest |-> "rollback", ready |-> "rollback"]
  /\ Go([runner EXCEPT !.pc = "plan"])
  /\ receipt' = "started"
  /\ UNCHANGED <<Hosted, observed, recovery, enablementFaults>>

\* Publishing the image, deploying resources, the paid qualification.
RunCall ==
  /\ Doing("call")
  /\ \/ /\ Go([Advanced(runner) EXCEPT
                 !.paid = IF Label = "qualification" THEN @ + 12 ELSE @])
        /\ UNCHANGED enablementFaults
     \/ Fails(runner)
  /\ UNCHANGED <<Hosted, receipt, observed, recovery>>

\* _apply_revision: one PATCH, never repeated; the controller knows of the new
\* revision only when it is acknowledged.
ApplyRevision ==
  /\ Doing("patch")
  /\ \/ /\ Patched(Label)
        /\ Go([Advanced(runner) EXCEPT !.before = runner.known, !.known = Label])
        /\ UNCHANGED enablementFaults
     \/ /\ Patched(Label) \/ UNCHANGED revision
        /\ Fails(runner)
  /\ UNCHANGED <<secret, receipt, observed, recovery>>

\* After the recovery of a rehearsal its own failure is raised.
AfterReconcile(r) ==
  IF r.broken THEN ToHandler(r) ELSE Advanced(r)

ReconcileRevision ==
  /\ Doing("reconcile")
  /\ \/ /\ Converged(Label)
        /\ Go(AfterReconcile(runner))
        /\ UNCHANGED enablementFaults
     \/ /\ Drifted(runner.before, Label)
        /\ Go(Raised(runner))
        /\ UNCHANGED enablementFaults
     \/ Fails(runner)
  /\ UNCHANGED <<Hosted, receipt, observed, recovery>>

\* The browser sees the profile, and a paid answer, of the ready revision.
BrowserGate ==
  /\ Doing("browser")
  /\ \/ /\ revision.ready = Label
        /\ Label = "ai-on" => secret = "real"
        /\ Label = "provider" => secret # "real"
        /\ Go([Advanced(runner) EXCEPT !.paid = IF Label = "ai-on" THEN @ + 1 ELSE @])
        /\ UNCHANGED enablementFaults
     \/ Fails(runner)
  /\ UNCHANGED <<Hosted, receipt, observed, recovery>>

\* real_secret_write_attempted is set before the call.
WriteSecret_FlaggedAfter ==   \* mutant: it is set after the call
  /\ Doing("write")
  /\ \/ /\ secret' = Label
        /\ Go([Advanced(runner) EXCEPT !.attempted = (Label = "real")])
        /\ UNCHANGED enablementFaults
     \/ /\ secret' \in {secret, Label}
        /\ Fails(runner)
  /\ UNCHANGED <<revision, receipt, observed, recovery>>

WriteSecret ==
  /\ Doing("write")
  /\ LET r == [runner EXCEPT !.attempted = (Label = "real")]
     IN  \/ /\ secret' = Label
            /\ Go(Advanced(r))
            /\ UNCHANGED enablementFaults
         \/ /\ secret' \in {secret, Label}
            /\ Fails(r)
  /\ UNCHANGED <<revision, receipt, observed, recovery>>

\* Thirteen paid calls and the final revision are required.  A file that could not
\* be written is removed.
WriteObservation ==
  /\ Doing("observe")
  /\ \/ /\ runner.paid = 13
        /\ observed' = TRUE
        /\ Go(Advanced(runner))
        /\ UNCHANGED enablementFaults
     \/ Fails(runner) /\ UNCHANGED observed
  /\ UNCHANGED <<Hosted, receipt, recovery>>

\* Whether the receipt reached the disk is not known when its write fails.
FinalizeReceipt ==
  /\ Doing("finalize")
  /\ LET r == [runner EXCEPT !.finalized = TRUE]
     IN  \/ /\ receipt' = "completed"
            /\ Go([r EXCEPT !.pc = "ended", !.result = "completed"])
            /\ UNCHANGED enablementFaults
         \/ /\ receipt' \in {"torn", "completed"}
            /\ Fails(r)
  /\ UNCHANGED <<Hosted, observed, recovery>>

-----------------------------------------------------------------------------
(***************************************************************************)
(* Failure                                                                 *)
(***************************************************************************)
Handle ==
  /\ RunnerAt("handler")
  /\ Go([runner EXCEPT !.pc = IF runner.attempted THEN "abort_patch" ELSE "receipt",
                       !.broken = FALSE, !.result = "failed"])
  /\ UNCHANGED <<Hosted, receipt, observed, recovery, enablementFaults>>

\* _recover_disabled: an unacknowledged PATCH is not reconciled, and whatever fails
\* the key is overwritten.
AbortPatch ==
  /\ RunnerAt("abort_patch")
  /\ \/ /\ Patched("abort")
        /\ Go([runner EXCEPT !.pc = "abort_reconcile", !.before = runner.known,
                             !.known = "abort"])
        /\ UNCHANGED enablementFaults
     \/ /\ EnablementFault
        /\ Patched("abort") \/ UNCHANGED revision
        /\ Go([runner EXCEPT !.pc = "abort_write", !.broken = TRUE])
  /\ UNCHANGED <<secret, receipt, observed, recovery>>

AbortReconcile ==
  /\ RunnerAt("abort_reconcile")
  /\ \/ /\ Converged("abort")
        /\ Go([runner EXCEPT !.pc = "abort_write"])
        /\ UNCHANGED enablementFaults
     \/ /\ \/ Drifted(runner.before, "abort") /\ UNCHANGED enablementFaults
           \/ EnablementFault
        /\ Go([runner EXCEPT !.pc = "abort_write", !.broken = TRUE])
  /\ UNCHANGED <<Hosted, receipt, observed, recovery>>

AbortWrite ==
  /\ RunnerAt("abort_write")
  /\ LET close(failed) ==
           Go([runner EXCEPT !.pc = "receipt",
                 !.result = IF failed THEN "emergency_disable_failed" ELSE "failed"])
     IN  \/ secret' = "placeholder" /\ close(runner.broken)
            /\ UNCHANGED enablementFaults
         \/ EnablementFault /\ secret' \in {secret, "placeholder"} /\ close(TRUE)
  /\ UNCHANGED <<revision, receipt, observed, recovery>>

\* A receipt whose finalization was attempted is not written again.
WriteFailedReceipt ==
  /\ RunnerAt("receipt")
  /\ Go([runner EXCEPT !.pc = "ended", !.finalized = TRUE])
  /\ \/ /\ receipt' = IF runner.finalized THEN receipt ELSE runner.result
        /\ UNCHANGED enablementFaults
     \/ /\ ~runner.finalized
        /\ EnablementFault
        /\ receipt' \in {"torn", runner.result}
  /\ UNCHANGED <<Hosted, observed, recovery>>

\* The process dies.
RunnerDies ==
  /\ runner.pc \notin {"idle", "ended", "dead"}
  /\ EnablementFault
  /\ Go([runner EXCEPT !.pc = "dead"])
  /\ UNCHANGED <<Hosted, receipt, observed, recovery>>

-----------------------------------------------------------------------------
(***************************************************************************)
(* run_ai_disabled_recovery, for a run that left the budget rehearsal on   *)
(***************************************************************************)
RecoveryAt(pc) == recovery.pc = pc
RecoveryFails ==
  /\ EnablementFault
  /\ recovery' \in [pc : {"ended"}, receipt : {"failed", "started"}]

StartRecovery ==
  /\ runner.pc \in {"ended", "dead"}
  /\ RecoveryAt("idle")
  /\ revision = [latest |-> "budget", ready |-> "budget"]
  /\ recovery' = [pc |-> "patch", receipt |-> "started"]
  /\ UNCHANGED <<Hosted, runner, receipt, observed, enablementFaults>>

PatchRecovery ==
  /\ RecoveryAt("patch")
  /\ \/ /\ Patched("r9-disable")
        /\ recovery' = [recovery EXCEPT !.pc = "reconcile"]
        /\ UNCHANGED enablementFaults
     \/ /\ Patched("r9-disable") \/ UNCHANGED revision
        /\ RecoveryFails
  /\ UNCHANGED <<secret, runner, receipt, observed>>

\* Reconciliation, the check in a browser, observation and receipt.
CompleteRecovery ==
  /\ RecoveryAt("reconcile")
  /\ \/ /\ Converged("r9-disable")
        /\ recovery' = [pc |-> "ended", receipt |-> "completed"]
        /\ UNCHANGED enablementFaults
     \/ RecoveryFails
  /\ UNCHANGED <<Hosted, runner, receipt, observed>>

\* The latest revision becomes ready.
BecomeReady ==
  /\ revision.ready # revision.latest
  /\ revision' = [revision EXCEPT !.ready = revision.latest]
  /\ UNCHANGED <<secret, runner, receipt, observed, recovery, enablementFaults>>

EnablementNext ==
  \/ Reserve \/ RunCall \/ ApplyRevision \/ ReconcileRevision \/ BrowserGate
  \/ WriteSecret \/ WriteObservation \/ FinalizeReceipt
  \/ Handle \/ AbortPatch \/ AbortReconcile \/ AbortWrite \/ WriteFailedReceipt
  \/ RunnerDies \/ StartRecovery \/ PatchRecovery \/ CompleteRecovery \/ BecomeReady

EnablementSpec == EnablementInit /\ [][EnablementNext]_enablementVars
-----------------------------------------------------------------------------
(***************************************************************************)
(* Properties                                                              *)
(***************************************************************************)

\* A run that reports success serves the enabled revision with the real key, after
\* thirteen paid calls; a recovery that reports success serves the disabled one.
SuccessIsServed ==
  /\ runner.result = "completed" =>
       /\ revision = [latest |-> "ai-on", ready |-> "ai-on"]
       /\ secret = "real"
       /\ runner.paid = 13 /\ observed /\ receipt = "completed"
  /\ recovery.receipt = "completed" =>
       revision = [latest |-> "r9-disable", ready |-> "r9-disable"]

\* From the attempt to write the real key on, a failure that is not reported as a
\* failed emergency leaves a ready AI-disabled revision and no real key; before it,
\* there never was one.
FailureIsInert ==
  RunnerAt("ended") /\ runner.result = "failed" =>
    /\ secret # "real"
    /\ runner.attempted => revision = [latest |-> "abort", ready |-> "abort"]

\* What run_ai_enablement and run_ai_disabled_recovery report is what is served.
ReportsAreTrue == SuccessIsServed /\ FailureIsInert
=============================================================================
