----------------------------- MODULE AnalysisRun -----------------------------
(***************************************************************************)
(* One analysis of one dataset version: AnalysisService.run and the        *)
(* recovery of the service, over repositories/analyses.py.                 *)
(*                                                                         *)
(* The plan names the run, and the evidence is a function of the plan, so  *)
(* all attempts at it share one row and one final object key.  An attempt  *)
(* claims the row for the time of a lease, stages the evidence, promotes   *)
(* it, records the final object as a temporary one, and then adopts that   *)
(* object and completes the run in one transaction.  After an exception it *)
(* reads the run back, cleans up what it may, and gives the row up.        *)
(* Attempts exclude each other by an advisory lock on a connection of its  *)
(* own, which can be lost while the attempt goes on.                       *)
(***************************************************************************)
EXTENDS Naturals, FiniteSets

CONSTANTS
  Runners,      \* request threads
  MaxAttempts,  \* bound: attempts at the run
  MaxRunFaults  \* bound: failed calls, crashes, lost locks, untimely restarts

ASSUME AttemptsAreNatural == MaxAttempts \in Nat /\ MaxRunFaults \in Nat

VARIABLES
  run,          \* analysis_runs, with the object of analysis_artifacts
  object,       \* storage_objects
  stagings,     \* attempts whose staging blob exists
  evidence,     \* etag of the blob under the final key, 0 if there is none
  evidenceTags, \* etags given to that blob so far
  attempts,     \* attempts so far; the number names the staging key
  runner,       \* local state of each request thread
  lockLost,     \* whether an attempt has ever lost its lock
  runFaults     \* faults injected so far

analysisVars ==
  <<run, object, stagings, evidence, evidenceTags, attempts, runner, lockLost,
    runFaults>>

Attempts == 1..MaxAttempts
StagingOf(n) == <<"staging", n>>
EvidenceOf(n) == <<"evidence", n>>
EvidenceIds == {EvidenceOf(n) : n \in Attempts}
ObjectIds == EvidenceIds \cup {StagingOf(n) : n \in Attempts}
NoObject == <<"none", 0>>

\* The etag of a staging blob never changes and is 1.
NoRecord == [state |-> "absent", purpose |-> "temporary", etag |-> 0]
TemporaryRow(state, etag) ==
  [state |-> state, purpose |-> "temporary", etag |-> etag]

\* done: the attempt knows that it has published.  cleaned: _cleanup_staged is
\* over.  known: the id of the staging row is in a variable.
NoAttempt ==
  [at |-> "idle", n |-> 0, id |-> NoObject, etag |-> 0, known |-> FALSE,
   done |-> FALSE, cleaned |-> FALSE, deleted |-> FALSE, locked |-> FALSE]

AnalysisInit ==
  /\ run = [status |-> "absent", leased |-> FALSE, artifact |-> NoObject]
  /\ object = [x \in ObjectIds |-> NoRecord]
  /\ stagings = {}
  /\ evidence = 0
  /\ evidenceTags = 0
  /\ attempts = 0
  /\ runner = [w \in Runners |-> NoAttempt]
  /\ lockLost = FALSE
  /\ runFaults = 0

-----------------------------------------------------------------------------
(***************************************************************************)
(* Rows, outcomes                                                          *)
(***************************************************************************)
\* The row that holds the final key: the key is unique, and mark_deleted renames
\* that of a deleted row.
EvidenceRow ==
  {x \in EvidenceIds : object[x].state \notin {"absent", "deleted"}}

\* What mark_deleted and mark_cleanup_pending accept.
Discardable_AnyPurpose(x) ==   \* mutant: the purpose is not checked
  object[x].state \in {"staging", "quarantined", "available"}
Discardable(x) ==
  /\ object[x].purpose = "temporary"
  /\ object[x].state \in {"staging", "quarantined"}

\* _matches_cleanup_record
MatchesCleanup(x, etag) == Discardable(x) /\ object[x].etag = etag

IsEvidence(x) ==
  object[x].purpose = "evidence" /\ object[x].state = "available"

RunFault(o) ==
  \/ o = "ok" /\ UNCHANGED runFaults
  \/ o # "ok" /\ runFaults < MaxRunFaults /\ runFaults' = runFaults + 1

\* lost: the change was made, but the caller sees an exception.
Results == {"ok", "lost", "fail"}
Landed(o) == o # "fail"
ReadResults == {"ok", "fail"}

Become(w, local) == runner' = [runner EXCEPT ![w] = local]
Step(w, at) == runner' = [runner EXCEPT ![w].at = at]
Return(w) == runner' = [runner EXCEPT ![w] = NoAttempt]

-----------------------------------------------------------------------------
(***************************************************************************)
(* The claim                                                               *)
(***************************************************************************)
RunLockFree == \A w \in Runners : ~runner[w].locked

\* A completed run is answered from its snapshot, one with a lease is refused as
\* busy: neither changes anything.
Claimable_ForGood ==   \* mutant: a running run is never taken over
  run.status \in {"absent", "failed"}
Claimable ==
  \/ run.status \in {"absent", "failed"}
  \/ run.status = "running" /\ ~run.leased

BeginAttempt(w) ==
  /\ runner[w].at = "idle"
  /\ RunLockFree
  /\ Claimable
  /\ attempts < MaxAttempts
  /\ attempts' = attempts + 1
  /\ Become(w, [NoAttempt EXCEPT !.at = "insert", !.n = attempts', !.locked = TRUE])
  /\ UNCHANGED <<run, object, stagings, evidence, evidenceTags, lockLost, runFaults>>

\* insert_running: another's lease is taken for the own.
InsertRunning(w, o) ==
  /\ runner[w].at = "insert"
  /\ RunFault(o)
  /\ run' = IF Claimable /\ Landed(o)
            THEN [run EXCEPT !.status = "running", !.leased = TRUE] ELSE run
  /\ \/ o # "ok" /\ Step(w, "check_start")
     \/ o = "ok" /\ run.status = "completed" /\ Return(w)
     \/ o = "ok" /\ run.status # "completed" /\ Step(w, "stage")
  /\ UNCHANGED <<object, stagings, evidence, evidenceTags, attempts, lockLost>>

CheckStart(w, o) ==
  /\ runner[w].at = "check_start"
  /\ RunFault(o)
  /\ IF o = "ok" /\ run.status = "running" /\ run.leased
     THEN Step(w, "stage") ELSE Return(w)
  /\ UNCHANGED <<run, object, stagings, evidence, evidenceTags, attempts, lockLost>>

-----------------------------------------------------------------------------
(***************************************************************************)
(* Staging and promotion                                                   *)
(***************************************************************************)
\* The calculation and put_staging; when they fail, nothing is known of a blob.
StageEvidence(w, o) ==
  /\ runner[w].at = "stage"
  /\ RunFault(o)
  /\ stagings' = IF Landed(o) THEN stagings \cup {runner[w].n} ELSE stagings
  /\ Step(w, IF o = "ok" THEN "record_staged" ELSE "outcome")
  /\ UNCHANGED <<run, object, evidence, evidenceTags, attempts, lockLost>>

\* _record_staged_cleanup
RecordStaged(w, o) ==
  /\ runner[w].at = "record_staged"
  /\ RunFault(o)
  /\ object' = IF Landed(o)
               THEN [object EXCEPT ![StagingOf(runner[w].n)] = TemporaryRow("staging", 1)]
               ELSE object
  /\ Become(w, [runner[w] EXCEPT !.at = IF o = "ok" THEN "promote" ELSE "check_staged",
                                 !.known = o = "ok"])
  /\ UNCHANGED <<run, stagings, evidence, evidenceTags, attempts, lockLost>>

CheckStaged(w, o) ==
  LET found == o = "ok" /\ Discardable(StagingOf(runner[w].n)) IN
  /\ runner[w].at = "check_staged"
  /\ RunFault(o)
  /\ Become(w, [runner[w] EXCEPT !.at = IF found THEN "promote" ELSE "drop_staged",
                                 !.known = found])
  /\ UNCHANGED <<run, object, stagings, evidence, evidenceTags, attempts, lockLost>>

PromoteEvidence(w, o) ==
  LET creates == evidence = 0 /\ Landed(o) IN
  /\ runner[w].at = "promote"
  /\ RunFault(o)
  /\ evidenceTags' = IF creates THEN evidenceTags + 1 ELSE evidenceTags
  /\ evidence' = IF creates THEN evidenceTags + 1 ELSE evidence
  /\ IF o = "ok"
     THEN Become(w, [runner[w] EXCEPT !.at = "find_final", !.etag = evidence'])
     ELSE Step(w, "drop_staged")
  /\ UNCHANGED <<run, object, stagings, attempts, lockLost>>

\* _record_available_for_publish returns or raises: to run, or to the clean-up that
\* needs a row for a blob it may not be able to delete.
Recorded(w, x) ==
  Become(w, [runner[w] EXCEPT !.id = x,
               !.at = IF runner[w].cleaned THEN "drop_final" ELSE "publish"])
NotRecorded(w) ==
  Step(w, IF runner[w].cleaned THEN "drop_final" ELSE "drop_staged")

FindFinal(w, o) ==
  LET matching == {x \in EvidenceRow : MatchesCleanup(x, runner[w].etag)} IN
  /\ runner[w].at = "find_final"
  /\ RunFault(o)
  /\ \/ o = "ok" /\ \E x \in matching : Recorded(w, x)
     \/ o = "ok" /\ EvidenceRow = {} /\ Step(w, "create_final")
     \/ /\ \/ o # "ok"
           \/ EvidenceRow # {} /\ matching = {}
        /\ NotRecorded(w)
  /\ UNCHANGED <<run, object, stagings, evidence, evidenceTags, attempts, lockLost>>

\* create_available and mark_quarantined in one transaction.
CreateFinal(w, o) ==
  LET x == EvidenceOf(runner[w].n) IN
  /\ runner[w].at = "create_final"
  /\ RunFault(o)
  /\ object' = IF EvidenceRow = {} /\ Landed(o)
               THEN [object EXCEPT ![x] = TemporaryRow("quarantined", runner[w].etag)]
               ELSE object
  /\ IF EvidenceRow = {} /\ o = "ok" THEN Recorded(w, x) ELSE Step(w, "check_final")
  /\ UNCHANGED <<run, stagings, evidence, evidenceTags, attempts, lockLost>>

CheckFinal(w, o) ==
  LET matching == {x \in EvidenceRow : MatchesCleanup(x, runner[w].etag)} IN
  /\ runner[w].at = "check_final"
  /\ RunFault(o)
  /\ \/ o = "ok" /\ \E x \in matching : Recorded(w, x)
     \/ (o # "ok" \/ matching = {}) /\ NotRecorded(w)
  /\ UNCHANGED <<run, object, stagings, evidence, evidenceTags, attempts, lockLost>>

-----------------------------------------------------------------------------
(***************************************************************************)
(* Publication                                                             *)
(***************************************************************************)
\* adopt_quarantined_available and complete, in one transaction; a trigger keeps
\* completed runs as they are.
Publishable(w) ==
  /\ object[runner[w].id] = TemporaryRow("quarantined", runner[w].etag)
  /\ run.status = "running"

Publish(w, o) ==
  LET x == runner[w].id
      written == Publishable(w) /\ Landed(o)
  IN
  /\ runner[w].at = "publish"
  /\ RunFault(o)
  /\ object' = IF written
               THEN [object EXCEPT ![x].purpose = "evidence", ![x].state = "available"]
               ELSE object
  /\ run' = IF written
            THEN [status |-> "completed", leased |-> FALSE, artifact |-> x] ELSE run
  /\ IF written /\ o = "ok"
     THEN Become(w, [runner[w] EXCEPT !.at = "drop_staged", !.done = TRUE])
     ELSE Step(w, "read_back")
  /\ UNCHANGED <<stagings, evidence, evidenceTags, attempts, lockLost>>

\* What the handler in _publish reads.  When it cannot, the final object is kept.
OwnPublication_NotRead(w) == FALSE   \* mutant: clean up without reading back
OwnPublication(w) ==
  /\ run.status = "completed"
  /\ run.artifact = runner[w].id
  /\ IsEvidence(runner[w].id)

ReadBack(w, o) ==
  /\ runner[w].at = "read_back"
  /\ RunFault(o)
  /\ \/ o # "ok" /\ Step(w, "drop_staged")
     \/ /\ o = "ok" /\ OwnPublication(w)
        /\ Become(w, [runner[w] EXCEPT !.at = "drop_staged", !.done = TRUE])
     \/ o = "ok" /\ ~OwnPublication(w) /\ Step(w, "drop_final")
  /\ UNCHANGED <<run, object, stagings, evidence, evidenceTags, attempts, lockLost>>

-----------------------------------------------------------------------------
(***************************************************************************)
(* Clean-up and the end of the attempt                                     *)
(***************************************************************************)
\* A blob that was written anew is a conflict, and stays.
DropFinal(w, o) ==
  LET matches == evidence \in {0, runner[w].etag} IN
  /\ runner[w].at = "drop_final"
  /\ RunFault(o)
  /\ evidence' = IF matches /\ Landed(o) THEN 0 ELSE evidence
  /\ Become(w, [runner[w] EXCEPT !.at = "mark_final", !.deleted = matches /\ o = "ok"])
  /\ UNCHANGED <<run, object, stagings, evidenceTags, attempts, lockLost>>

\* mark_deleted after a deletion and mark_cleanup_pending without, whose
\* exceptions are noted.
MarkObject(x, deleted, o) ==
  object' = IF x # NoObject /\ Discardable(x) /\ Landed(o)
            THEN [object EXCEPT ![x] = IF deleted THEN TemporaryRow("deleted", 0)
                                       ELSE TemporaryRow("quarantined", @.etag)]
            ELSE object

MarkFinal(w, o) ==
  /\ runner[w].at = "mark_final"
  /\ RunFault(o)
  /\ MarkObject(runner[w].id, runner[w].deleted, o)
  /\ Step(w, IF runner[w].cleaned THEN "outcome" ELSE "drop_staged")
  /\ UNCHANGED <<run, stagings, evidence, evidenceTags, attempts, lockLost>>

DropStaging(w, o) ==
  /\ runner[w].at = "drop_staged"
  /\ RunFault(o)
  /\ stagings' = IF Landed(o) THEN stagings \ {runner[w].n} ELSE stagings
  /\ Become(w, [runner[w] EXCEPT !.at = "mark_staged", !.deleted = o = "ok"])
  /\ UNCHANGED <<run, object, evidence, evidenceTags, attempts, lockLost>>

\* _cleanup_record_id raises: after a publication into the handler of run, which
\* knows the row, and otherwise out of run, so that the run keeps its lease.
CannotResolve(w) ==
  /\ runner[w].at = "drop_staged"
  /\ runner[w].done \/ ~runner[w].known
  /\ RunFault("fail")
  /\ IF runner[w].done THEN Become(w, [runner[w] EXCEPT !.done = FALSE]) ELSE Return(w)
  /\ UNCHANGED <<run, object, stagings, evidence, evidenceTags, attempts, lockLost>>

\* A blob that stays gets a row if it has none.  A published attempt has its answer;
\* one that does not know the row of its final object looks for it first.
MarkStaging(w, o) ==
  LET x == StagingOf(runner[w].n) IN
  /\ runner[w].at = "mark_staged"
  /\ RunFault(o)
  /\ IF object[x].state = "absent" /\ ~runner[w].deleted /\ Landed(o)
     THEN object' = [object EXCEPT ![x] = TemporaryRow("quarantined", 1)]
     ELSE MarkObject(x, runner[w].deleted, o)
  /\ IF runner[w].done THEN Return(w)
     ELSE Become(w, [runner[w] EXCEPT !.cleaned = TRUE,
                       !.at = IF runner[w].etag # 0 /\ runner[w].id = NoObject
                              THEN "leftover" ELSE "outcome"])
  /\ UNCHANGED <<run, stagings, evidence, evidenceTags, attempts, lockLost>>

\* _cleanup_available without an id.
FindLeftover(w, o) ==
  /\ runner[w].at = "leftover"
  /\ RunFault(o)
  /\ \/ o # "ok" /\ Return(w)
     \/ o = "ok" /\ \E x \in EvidenceRow : Recorded(w, x)
     \/ o = "ok" /\ EvidenceRow = {} /\ Step(w, "find_final")
  /\ UNCHANGED <<run, object, stagings, evidence, evidenceTags, attempts, lockLost>>

\* The run is read back once more; when it cannot be, it keeps its lease.
Outcome(w, o) ==
  /\ runner[w].at = "outcome"
  /\ RunFault(o)
  /\ IF o = "ok" /\ run.status # "completed" THEN Step(w, "fail") ELSE Return(w)
  /\ UNCHANGED <<run, object, stagings, evidence, evidenceTags, attempts, lockLost>>

\* fail gives up whatever attempt is running; so does recover_running.
FailedRun == [run EXCEPT !.status = "failed", !.leased = FALSE]

GiveUp == run.status = "running"

FailRun(w, o) ==
  /\ runner[w].at = "fail"
  /\ RunFault(o)
  /\ run' = IF GiveUp /\ Landed(o) THEN FailedRun ELSE run
  /\ Return(w)
  /\ UNCHANGED <<object, stagings, evidence, evidenceTags, attempts, lockLost>>

-----------------------------------------------------------------------------
(***************************************************************************)
(* Around the attempts                                                     *)
(***************************************************************************)
CrashRunner(w) ==
  /\ runner[w].at # "idle"
  /\ RunFault("crash")
  /\ Return(w)
  /\ UNCHANGED <<run, object, stagings, evidence, evidenceTags, attempts, lockLost>>

\* The connection of the lock goes away, and the attempt does not notice.
LoseLock(w) ==
  /\ runner[w].locked
  /\ RunFault("lock")
  /\ runner' = [runner EXCEPT ![w].locked = FALSE]
  /\ lockLost' = TRUE
  /\ UNCHANGED <<run, object, stagings, evidence, evidenceTags, attempts>>

\* ANALYSIS_LEASE has passed.
LeaseExpires ==
  /\ run.leased
  /\ run' = [run EXCEPT !.leased = FALSE]
  /\ UNCHANGED <<object, stagings, evidence, evidenceTags, attempts, runner, lockLost,
                 runFaults>>

\* A service is constructed; a fault if that ends an attempt that is only slow.
RecoverRunning ==
  /\ GiveUp /\ ~run.leased
  /\ RunFault(IF \A w \in Runners : runner[w].at = "idle" THEN "ok" ELSE "restart")
  /\ run' = FailedRun
  /\ UNCHANGED <<object, stagings, evidence, evidenceTags, attempts, runner, lockLost>>

Attempt(w) ==
  \/ \E o \in Results :
       \/ InsertRunning(w, o) \/ StageEvidence(w, o) \/ RecordStaged(w, o)
       \/ PromoteEvidence(w, o) \/ CreateFinal(w, o) \/ Publish(w, o)
       \/ DropFinal(w, o) \/ MarkFinal(w, o)
       \/ DropStaging(w, o) \/ MarkStaging(w, o) \/ FailRun(w, o)
  \/ \E o \in ReadResults :
       \/ CheckStart(w, o) \/ CheckStaged(w, o) \/ FindFinal(w, o)
       \/ CheckFinal(w, o) \/ ReadBack(w, o) \/ FindLeftover(w, o)
       \/ Outcome(w, o)

AnalysisNext ==
  \/ \E w \in Runners :
       \/ BeginAttempt(w) \/ Attempt(w) \/ CannotResolve(w)
       \/ CrashRunner(w) \/ LoseLock(w)
  \/ LeaseExpires
  \/ RecoverRunning

AnalysisSpec == AnalysisInit /\ [][AnalysisNext]_analysisVars

\* Threads go on, time passes, and somebody asks for the analysis again; no service
\* need be restarted.
FairAnalysis ==
  /\ \A w \in Runners : WF_analysisVars(Attempt(w))
  /\ WF_analysisVars(LeaseExpires)
  /\ WF_analysisVars(\E w \in Runners : BeginAttempt(w))

-----------------------------------------------------------------------------
(***************************************************************************)
(* Properties                                                              *)
(***************************************************************************)
\* The evidence of a completed run can be read (get_snapshot), whatever fails and
\* however often, as long as no attempt has lost its lock: the final object is
\* dropped only by an attempt that knows it has not published.
CompletedOpens ==
  run.status = "completed" /\ ~lockLost =>
    IsEvidence(run.artifact) /\ object[run.artifact].etag = evidence

\* A completed run stays as it is, and its evidence is never taken for a temporary
\* object, by attempts that have lost their lock either.
EvidenceIsKept ==
  [][run.status = "completed" =>
       run' = run /\ object'[run.artifact] = object[run.artifact]]_analysisVars

\* No failure leaves a run that can never be completed: neither a lease nobody
\* holds, nor a row or a blob that an earlier attempt left under the final key.
AnalysisCompletes == <>(run.status = "completed")
=============================================================================
