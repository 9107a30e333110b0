--------------------------- MODULE ImportWorkflow ---------------------------
(***************************************************************************)
(* The operator's import: upload files to a workflow, recognize and map    *)
(* them, standardize each into a candidate, and commit all of them as the  *)
(* next dataset version (services/import_service.py), while the hourly job *)
(* scripts/maintain_storage.py expires and inventories storage objects.    *)
(*                                                                         *)
(* PostgreSQL rows and Blob objects change in separate steps.  A request   *)
(* stages a blob first, then writes its rows in one transaction; after an  *)
(* exception it reads the rows back and drops what it staged.  A storage   *)
(* object is named by what it is for, so "blobs" says which recorded blobs *)
(* exist; a staged blob without a row is held by the worker that staged it *)
(* and forgotten with it: no code looks for such a blob, except to list it *)
(* in a report.                                                            *)
(***************************************************************************)
EXTENDS Naturals, Sequences, FiniteSets

CONSTANTS
  Workflows,    \* import workflows that may be created
  Files,        \* contents an operator may upload
  Keys,         \* client idempotency keys
  Workers,      \* request threads
  MaxMappings,  \* bound: how often one upload is mapped
  MaxFaults,    \* bound: failed transactions and storage calls, and crashes
  Maintained    \* whether the hourly maintenance job is deployed

ASSUME BoundsAreNatural == MaxMappings \in Nat /\ MaxFaults \in Nat
ASSUME MaintainedIsBoolean == Maintained \in BOOLEAN

VARIABLES
  workflow,  \* import_workflows
  upload,    \* upload_records, with their idempotency receipts
  versions,  \* dataset_versions of the series, with their commit receipts
  row,       \* storage_objects: the state of each object's row
  blobs,     \* objects whose blob exists
  expired,   \* objects whose expires_at has passed
  lock,      \* holder of the advisory lock import-commit
  worker,    \* local state of each request thread
  job,       \* local state of the maintenance job
  faults     \* faults injected so far

tables == <<workflow, upload, versions>>
storage == <<row, blobs, expired>>
vars == <<tables, storage, lock, worker, job, faults>>

\* upload_id = uuid5(workflow, key hash).
UploadIds == Workflows \X Keys
Mappings == 1..MaxMappings

\* A standardized file: its content depends on the mapping.
Candidates == Files \X Mappings
Contents == SUBSET Candidates

\* The storage objects.  The final one is named by the version, which is named
\* by the workflow and the commit's key, and by the digest; a spare is the row
\* that a failed request writes for a blob it could not drop.
Original(u) == <<"original", u>>
Candidate(u, m) == <<"candidate", u, m>>
Final(f, k, content) == <<"final", f, k, content>>
Spare(n) == <<"spare", n>>

Objects ==
  {Original(u) : u \in UploadIds}
    \cup {Candidate(u, m) : u \in UploadIds, m \in Mappings}
    \cup {Final(f, k, c) : f \in Workflows, k \in Keys, c \in Contents}
    \cup {Spare(n) : n \in 1..MaxFaults}

Absent == "absent"
NoFile == "no file"
NoWorker == "no worker"
NoId == "no id"

ASSUME NobodyIsNoWorker == NoWorker \notin Workers

\* holds: the request has staged a blob that no row records yet.
IdleWorker ==
  [pc |-> "idle", f |-> NoId, k |-> NoId, rev |-> 0, file |-> NoFile, map |-> 0,
   holds |-> FALSE, content |-> {}, created |-> FALSE, todo |-> {}, cur |-> NoId,
   ok |-> TRUE]
IdleJob == [pc |-> "idle", todo |-> {}, cur |-> NoId, ok |-> TRUE, seen |-> {}]

Init ==
  /\ workflow = [f \in Workflows |-> [status |-> Absent, rev |-> 0, base |-> 0]]
  /\ upload = [u \in UploadIds |-> [status |-> Absent, file |-> NoFile,
                                    map |-> 0, cand |-> 0]]
  /\ versions = <<>>
  /\ row = [x \in Objects |-> Absent]
  /\ blobs = {}
  /\ expired = {}
  /\ lock = NoWorker
  /\ worker = [w \in Workers |-> IdleWorker]
  /\ job = IdleJob
  /\ faults = 0

-----------------------------------------------------------------------------
(***************************************************************************)
(* Reading the tables                                                      *)
(***************************************************************************)
UploadsOf(f) == {u \in UploadIds : u[1] = f /\ upload[u].status # Absent}
HasFile(f, file) == \E u \in UploadsOf(f) : upload[u].file = file

ContentOf(n) == IF n = 0 THEN {} ELSE versions[n].content
VersionOf(f) == {n \in DOMAIN versions : versions[n].f = f}
FinalOf(n) == Final(versions[n].f, versions[n].k, versions[n].content)
CandidateOf(u) == Candidate(u, upload[u].cand)
StandardizedFile(u) == <<upload[u].file, upload[u].cand>>

\* purpose = 'temporary_upload': everything but the artifact of a version.
Temporary(x) == \A n \in DOMAIN versions : x # FinalOf(n)

\* The states in which mark_deleted and mark_cleanup_pending accept a row.
Disposable(x) == Temporary(x) /\ row[x] \in {"staging", "quarantined"}

\* The worker's own upload id and objects.
Uid(w) == <<worker[w].f, worker[w].k>>
MyCandidate(w) == Candidate(Uid(w), worker[w].map)
MyFinal(w) == Final(worker[w].f, worker[w].k, worker[w].content)

Fault(o) ==
  \/ o = "ok" /\ UNCHANGED faults
  \/ o # "ok" /\ faults < MaxFaults /\ faults' = faults + 1

\* lost: the change was made, but the caller sees an exception.
Outcomes == {"ok", "lost", "fail"}
Done(o) == o # "fail"

Go(w, pc) == worker' = [worker EXCEPT ![w].pc = pc]

\* The request ends, in whatever way; a lock it holds is released.
Leave(w) ==
  /\ worker' = [worker EXCEPT ![w] = IdleWorker]
  /\ lock' = IF lock = w THEN NoWorker ELSE lock

Advance(f, status) ==
  workflow' = [workflow EXCEPT ![f].status = status, ![f].rev = @ + 1]

RevisionHolds_NotChecked(w) == TRUE   \* mutant: no expected_revision
RevisionHolds(w) == workflow[worker[w].f].rev = worker[w].rev

-----------------------------------------------------------------------------
(***************************************************************************)
(* Workflow, upload, recognition, mapping                                  *)
(***************************************************************************)
CreateWorkflow(f) ==
  /\ workflow[f].status = Absent
  /\ workflow' = [workflow EXCEPT ![f].status = "created",
                                  ![f].base = Len(versions)]
  /\ UNCHANGED <<upload, versions, storage, lock, worker, job, faults>>

AcceptsUploads(f) ==
  workflow[f].status \notin {Absent, "committing", "committed", "rejected",
                             "cancelled"}

\* The checks of upload, then the staged blob.  Requests with the same key
\* wait for each other (_operation_lock).
StartUpload(w, f, k, file) ==
  /\ worker[w].pc = "idle"
  /\ AcceptsUploads(f)
  /\ upload[<<f, k>>].status = Absent
  /\ ~HasFile(f, file)
  /\ \A v \in Workers :
       ~(worker[v].pc \in {"upload", "check_upload"} /\ Uid(v) = <<f, k>>)
  /\ worker' = [worker EXCEPT ![w] = [IdleWorker EXCEPT
                  !.pc = "upload", !.f = f, !.k = k, !.file = file, !.holds = TRUE]]
  /\ UNCHANGED <<tables, storage, lock, job, faults>>

\* What the constraints of upload_records leave to the transaction: the status
\* of the workflow is not looked at again.
UploadInsertable(w) ==
  /\ upload[Uid(w)].status = Absent
  /\ ~HasFile(worker[w].f, worker[w].file)

SaveUpload(w, o) ==
  /\ worker[w].pc = "upload"
  /\ Fault(o)
  /\ IF UploadInsertable(w) /\ Done(o)
     THEN /\ upload' = [upload EXCEPT ![Uid(w)].status = "staged",
                                      ![Uid(w)].file = worker[w].file]
          /\ row' = [row EXCEPT ![Original(Uid(w))] = "staging"]
          /\ blobs' = blobs \cup {Original(Uid(w))}
          /\ Advance(worker[w].f, "uploading")
     ELSE UNCHANGED <<upload, row, blobs, workflow>>
  /\ IF UploadInsertable(w) /\ o = "ok"
     THEN Leave(w)
     ELSE /\ worker' = [worker EXCEPT ![w].pc = "check_upload",
                          ![w].holds = ~(UploadInsertable(w) /\ Done(o))]
          /\ UNCHANGED lock
  /\ UNCHANGED <<versions, expired, job>>

\* _committed_upload: the request's own row is there or nothing is.
CheckUpload(w, o) ==
  /\ worker[w].pc = "check_upload"
  /\ o # "lost"
  /\ Fault(o)
  /\ IF o = "ok" /\ worker[w].holds
     THEN Go(w, "drop") /\ UNCHANGED lock
     ELSE Leave(w)
  /\ UNCHANGED <<tables, row, blobs, expired, job>>

\* The request read the original, and its transaction found the revision it
\* expected: the two are one step.
Recognize(u) ==
  /\ upload[u].status = "staged"
  /\ Original(u) \in blobs
  /\ upload' = [upload EXCEPT ![u].status = "recognized"]
  /\ Advance(u[1], "recognized")
  /\ UNCHANGED <<versions, storage, lock, worker, job, faults>>

ConfirmMapping(u) ==
  /\ upload[u].status = "recognized"
  /\ upload[u].map < MaxMappings
  /\ Original(u) \in blobs
  /\ upload' = [upload EXCEPT ![u].map = @ + 1]
  /\ Advance(u[1], "recognized")
  /\ UNCHANGED <<versions, storage, lock, worker, job, faults>>

-----------------------------------------------------------------------------
(***************************************************************************)
(* Standardization                                                         *)
(***************************************************************************)
\* A request for an upload that is already accepted stages its blob as well:
\* only set_candidate looks at the status.
StartStandardize(w, u) ==
  /\ worker[w].pc = "idle"
  /\ upload[u].status # Absent
  /\ upload[u].map > 0
  /\ Original(u) \in blobs
  /\ worker' = [worker EXCEPT ![w] = [IdleWorker EXCEPT
                  !.pc = "standardize", !.f = u[1], !.k = u[2],
                  !.rev = workflow[u[1]].rev, !.map = upload[u].map,
                  !.holds = TRUE]]
  /\ UNCHANGED <<tables, storage, lock, job, faults>>

AllAccepted(uploads) == \A u \in uploads : upload[u].status = "accepted"

CandidateInsertable(w) ==
  /\ RevisionHolds(w)
  /\ row[MyCandidate(w)] = Absent
  /\ upload[Uid(w)].status = "recognized"

\* all_ready is computed after set_candidate.
SaveCandidate(w, o) ==
  /\ worker[w].pc = "standardize"
  /\ Fault(o)
  /\ IF CandidateInsertable(w) /\ Done(o)
     THEN /\ upload' = [upload EXCEPT ![Uid(w)].status = "accepted",
                                      ![Uid(w)].cand = worker[w].map]
          /\ row' = [row EXCEPT ![MyCandidate(w)] = "staging"]
          /\ blobs' = blobs \cup {MyCandidate(w)}
          /\ Advance(worker[w].f,
                     IF AllAccepted(UploadsOf(worker[w].f) \ {Uid(w)})
                     THEN "ready" ELSE "recognized")
     ELSE UNCHANGED <<upload, row, blobs, workflow>>
  /\ IF CandidateInsertable(w) /\ o = "ok"
     THEN Leave(w)
     ELSE /\ worker' = [worker EXCEPT ![w].pc = "check_candidate",
                          ![w].holds = ~(CandidateInsertable(w) /\ Done(o))]
          /\ UNCHANGED lock
  /\ UNCHANGED <<versions, expired, job>>

\* _committed_standardization: nothing was written, or the very candidate is
\* recorded, by this request or another.  Anything else is a mismatch.
CandidateUnwritten(w) ==
  /\ upload[Uid(w)].status = "recognized"
  /\ row[MyCandidate(w)] = Absent
CandidateRecorded(w) ==
  /\ upload[Uid(w)].status = "accepted"
  /\ upload[Uid(w)].cand = worker[w].map
  /\ row[MyCandidate(w)] = "staging"

CheckCandidate(w, o) ==
  /\ worker[w].pc = "check_candidate"
  /\ o # "lost"
  /\ Fault(o)
  /\ IF /\ o = "ok"
        /\ worker[w].holds
        /\ CandidateUnwritten(w) \/ CandidateRecorded(w)
     THEN Go(w, "drop") /\ UNCHANGED lock
     ELSE Leave(w)
  /\ UNCHANGED <<tables, row, blobs, expired, job>>

\* _delete_or_schedule_staged: the blob is deleted, or recorded as expired, or
\* neither succeeds and the exception ends the request.  (A row for a blob that
\* was deleted after all changes nothing else.)
DropOutcomes == {"ok", "recorded", "fail"}

DropStaged(w, o) ==
  /\ worker[w].pc \in {"drop", "drop_committed"}
  /\ Fault(o)
  /\ IF o = "recorded"
     THEN /\ row' = [row EXCEPT ![Spare(faults')] = "quarantined"]
          /\ blobs' = blobs \cup {Spare(faults')}
          /\ expired' = expired \cup {Spare(faults')}
     ELSE UNCHANGED <<row, blobs, expired>>
  /\ IF o # "fail" /\ worker[w].pc = "drop_committed"
     THEN /\ worker' = [worker EXCEPT ![w].pc = "delete_candidate",
                                      ![w].holds = FALSE]
          /\ UNCHANGED lock
     ELSE Leave(w)
  /\ UNCHANGED <<tables, job>>

-----------------------------------------------------------------------------
(***************************************************************************)
(* Commit                                                                  *)
(***************************************************************************)
CommitLockFree == lock = NoWorker

OpenCommit(w, f, k) ==
  /\ worker[w].pc = "idle"
  /\ CommitLockFree
  /\ workflow[f].status # Absent
  /\ VersionOf(f) = {}
  /\ lock' = w
  /\ worker' = [worker EXCEPT ![w] = [IdleWorker EXCEPT
                  !.pc = "assemble", !.f = f, !.k = k, !.rev = workflow[f].rev]]
  /\ UNCHANGED <<tables, storage, job, faults>>

BaseIsCurrent_NotChecked(f) == TRUE   \* mutant: _require_current_base dropped
BaseIsCurrent(f) == workflow[f].base = Len(versions)

ContentIsNew(content) ==
  \A n \in DOMAIN versions : versions[n].content # content

\* _assembly_for accepts only recorded candidates and an available base.
Assemblable(f) ==
  /\ UploadsOf(f) # {}
  /\ AllAccepted(UploadsOf(f))
  /\ \A u \in UploadsOf(f) :
       row[CandidateOf(u)] = "staging" /\ CandidateOf(u) \in blobs
  /\ workflow[f].base > 0 =>
       /\ row[FinalOf(workflow[f].base)] = "available"
       /\ FinalOf(workflow[f].base) \in blobs

\* Records that are all in the base again give the base's content.
Assembled(f) ==
  ContentOf(workflow[f].base) \cup {StandardizedFile(u) : u \in UploadsOf(f)}

Assemble(w) ==
  LET f == worker[w].f IN
  /\ worker[w].pc = "assemble"
  /\ Assemblable(f)
  /\ BaseIsCurrent(f)
  /\ ContentIsNew(Assembled(f))
  /\ worker' = [worker EXCEPT ![w].pc = "promote", ![w].content = Assembled(f),
                              ![w].todo = UploadsOf(f), ![w].holds = TRUE]
  /\ UNCHANGED <<tables, storage, lock, job, faults>>

\* One of the checks of Assemble fails, or rows conflict, or a table is invalid.
RefuseCommit(w) ==
  /\ worker[w].pc = "assemble"
  /\ Leave(w)
  /\ UNCHANGED <<tables, storage, job, faults>>

\* created: this call wrote the final blob.
Promote(w, o) ==
  /\ worker[w].pc = "promote"
  /\ Fault(o)
  /\ blobs' = IF Done(o) THEN blobs \cup {MyFinal(w)} ELSE blobs
  /\ worker' = [worker EXCEPT
       ![w].pc = IF o = "ok" THEN "save_version" ELSE "check_commit",
       ![w].created = o = "ok" /\ MyFinal(w) \notin blobs]
  /\ UNCHANGED <<tables, row, expired, lock, job>>

\* _commit_database, with the unique keys of dataset_versions and of
\* storage_objects (a deleted row gives its object key up).
VersionInsertable(w) ==
  /\ RevisionHolds(w)
  /\ BaseIsCurrent(worker[w].f)
  /\ VersionOf(worker[w].f) = {}
  /\ ContentIsNew(worker[w].content)
  /\ row[MyFinal(w)] \in {Absent, "deleted"}

SaveVersion(w, o) ==
  LET f == worker[w].f IN
  /\ worker[w].pc = "save_version"
  /\ Fault(o)
  /\ IF VersionInsertable(w) /\ Done(o)
     THEN /\ versions' = Append(versions, [f |-> f, k |-> worker[w].k,
                                           content |-> worker[w].content])
          /\ row' = [row EXCEPT ![MyFinal(w)] = "available"]
          /\ expired' = expired \ {MyFinal(w)}
          /\ Advance(f, "committed")
     ELSE UNCHANGED <<versions, row, expired, workflow>>
  /\ Go(w, IF VersionInsertable(w) /\ o = "ok" THEN "drop_committed"
                                               ELSE "check_commit")
  /\ UNCHANGED <<upload, blobs, lock, job>>

\* _committed_version: the workflow has no version, or this request's, or
\* another one, which is a mismatch.
OwnVersion(w) ==
  \E n \in VersionOf(worker[w].f) :
    versions[n].k = worker[w].k /\ versions[n].content = worker[w].content

AfterFailedCommit_AlwaysUndo(w) == "compensate"   \* mutant: no look at the tables
AfterFailedCommit(w) ==
  IF OwnVersion(w) THEN "drop_committed" ELSE "compensate"

CheckCommit(w, o) ==
  /\ worker[w].pc = "check_commit"
  /\ o # "lost"
  /\ Fault(o)
  /\ IF o = "ok" /\ (OwnVersion(w) \/ VersionOf(worker[w].f) = {})
     THEN Go(w, AfterFailedCommit(w)) /\ UNCHANGED lock
     ELSE Leave(w)
  /\ UNCHANGED <<tables, row, blobs, expired, job>>

\* _compensate_merged: a blob that this call did not create stays.  The row for
\* a later deletion is written unless the key has one; the id of a deleted row
\* cannot be used again, and this exception is only noted.
Compensate(w, o) ==
  /\ worker[w].pc = "compensate"
  /\ worker[w].created \/ o = "ok"
  /\ Fault(o)
  /\ blobs' = IF worker[w].created /\ o = "ok" THEN blobs \ {MyFinal(w)} ELSE blobs
  /\ IF o = "recorded" /\ row[MyFinal(w)] = Absent
     THEN /\ row' = [row EXCEPT ![MyFinal(w)] = "quarantined"]
          /\ expired' = expired \cup {MyFinal(w)}
     ELSE UNCHANGED <<row, expired>>
  /\ Go(w, "drop")
  /\ UNCHANGED <<tables, lock, job>>

\* _cleanup_committed_originals: for each assembled upload the candidate, then
\* the original.  An exception in one of the small transactions ends the
\* request, which the tables cannot tell from a crash.
DeleteCandidate(w, o) ==
  /\ worker[w].pc = "delete_candidate"
  /\ Fault(o)
  /\ \E u \in worker[w].todo :
       /\ blobs' = IF Done(o) THEN blobs \ {CandidateOf(u)} ELSE blobs
       /\ worker' = [worker EXCEPT ![w].pc = "mark_candidate", ![w].ok = o = "ok",
                                   ![w].cur = u, ![w].todo = @ \ {u}]
  /\ UNCHANGED <<tables, row, expired, lock, job>>

\* mark_deleted or mark_cleanup_pending.
MarkCandidate(w) ==
  LET x == CandidateOf(worker[w].cur) IN
  /\ worker[w].pc = "mark_candidate"
  /\ IF Disposable(x)
     THEN /\ row' = [row EXCEPT ![x] = IF worker[w].ok THEN "deleted"
                                                       ELSE "quarantined"]
          /\ expired' = IF worker[w].ok THEN expired \ {x} ELSE expired \cup {x}
          /\ Go(w, "delete_original")
          /\ UNCHANGED lock
     ELSE Leave(w) /\ UNCHANGED <<row, expired>>
  /\ UNCHANGED <<tables, blobs, job, faults>>

DeleteOriginal(w, o) ==
  /\ worker[w].pc = "delete_original"
  /\ Fault(o)
  /\ blobs' = IF Done(o) THEN blobs \ {Original(worker[w].cur)} ELSE blobs
  /\ worker' = [worker EXCEPT ![w].pc = "mark_original", ![w].ok = o = "ok"]
  /\ UNCHANGED <<tables, row, expired, lock, job>>

\* mark_deleted, or mark_quarantined, which keeps expires_at.
Markable(x, ok) == IF ok THEN Disposable(x) ELSE row[x] # "deleted"

MarkOriginal(w) ==
  LET u == worker[w].cur
      x == Original(u)
  IN
  /\ worker[w].pc = "mark_original"
  /\ IF Markable(x, worker[w].ok)
     THEN /\ row' = [row EXCEPT ![x] = IF worker[w].ok THEN "deleted"
                                                       ELSE "quarantined"]
          /\ expired' = IF worker[w].ok THEN expired \ {x} ELSE expired
          /\ upload' = IF worker[w].ok
                       THEN [upload EXCEPT ![u].status = "deleted"] ELSE upload
     ELSE UNCHANGED <<row, expired, upload>>
  /\ IF Markable(x, worker[w].ok) /\ worker[w].todo # {}
     THEN Go(w, "delete_candidate") /\ UNCHANGED lock
     ELSE Leave(w)
  /\ UNCHANGED <<workflow, versions, blobs, job, faults>>

\* The process ends: its connections close, which releases the lock.
Crash(w) ==
  /\ worker[w].pc # "idle"
  /\ Fault("crash")
  /\ Leave(w)
  /\ UNCHANGED <<tables, row, blobs, expired, job>>

-----------------------------------------------------------------------------
(***************************************************************************)
(* The maintenance job: expire, then orphan_inventory                      *)
(***************************************************************************)
\* Two hours have passed since the row was written.
Expire(x) ==
  /\ Maintained
  /\ row[x] \in {"staging", "quarantined"}
  /\ Temporary(x)
  /\ x \notin expired
  /\ expired' = expired \cup {x}
  /\ UNCHANGED <<tables, row, blobs, lock, worker, job, faults>>

Listed_OnlyStaging(x) == Temporary(x) /\ row[x] = "staging"   \* mutant
Listed(x) == Disposable(x)

StartJob ==
  /\ Maintained
  /\ job.pc = "idle"
  /\ job' = [job EXCEPT !.pc = "expire",
                        !.todo = {x \in expired : Listed(x)}]
  /\ UNCHANGED <<tables, storage, lock, worker, faults>>

DeleteExpired(o) ==
  /\ job.pc = "expire"
  /\ Fault(o)
  /\ \E x \in job.todo :
       /\ blobs' = IF Done(o) THEN blobs \ {x} ELSE blobs
       /\ job' = [job EXCEPT !.pc = "mark", !.cur = x, !.ok = o = "ok",
                             !.todo = @ \ {x}]
  /\ UNCHANGED <<tables, row, expired, lock, worker>>

\* An exception of mark_deleted or mark_quarantined ends the job.
MarkExpired ==
  /\ job.pc = "mark"
  /\ IF Markable(job.cur, job.ok)
     THEN /\ row' = [row EXCEPT ![job.cur] =
                       IF job.ok THEN "deleted" ELSE "quarantined"]
          /\ expired' = IF job.ok THEN expired \ {job.cur} ELSE expired
          /\ job' = [IdleJob EXCEPT !.pc = "expire", !.todo = job.todo]
     ELSE job' = IdleJob /\ UNCHANGED <<row, expired>>
  /\ UNCHANGED <<tables, blobs, lock, worker, faults>>

ListBlobs ==
  /\ job.pc = "expire"
  /\ job.todo = {}
  /\ job' = [job EXCEPT !.pc = "compare", !.seen = blobs]
  /\ UNCHANGED <<tables, storage, lock, worker, faults>>

\* list_live.
Live(x) == row[x] \notin {Absent, "deleted"}

CompareRows ==
  /\ job.pc = "compare"
  /\ job' = [IdleJob EXCEPT !.pc = "quarantine",
                            !.todo = {x \in Objects : Live(x)} \ job.seen]
  /\ UNCHANGED <<tables, storage, lock, worker, faults>>

\* One transaction for all of them, which a deleted row rolls back.
QuarantineMissing ==
  /\ job.pc = "quarantine"
  /\ row' = IF \A x \in job.todo : row[x] # "deleted"
            THEN [x \in Objects |-> IF x \in job.todo THEN "quarantined" ELSE row[x]]
            ELSE row
  /\ job' = IdleJob
  /\ UNCHANGED <<tables, blobs, expired, lock, worker, faults>>

CrashJob ==
  /\ job.pc # "idle"
  /\ Fault("crash")
  /\ job' = IdleJob
  /\ UNCHANGED <<tables, storage, lock, worker>>

-----------------------------------------------------------------------------
Request(w) ==
  \/ \E f \in Workflows, k \in Keys :
       \/ \E file \in Files : StartUpload(w, f, k, file)
       \/ StartStandardize(w, <<f, k>>)
       \/ OpenCommit(w, f, k)
  \/ \E o \in Outcomes :
       \/ SaveUpload(w, o)
       \/ CheckUpload(w, o)
       \/ SaveCandidate(w, o)
       \/ CheckCandidate(w, o)
       \/ Promote(w, o)
       \/ SaveVersion(w, o)
       \/ CheckCommit(w, o)
       \/ DeleteCandidate(w, o)
       \/ DeleteOriginal(w, o)
  \/ \E o \in DropOutcomes : DropStaged(w, o) \/ Compensate(w, o)
  \/ Assemble(w)
  \/ RefuseCommit(w)
  \/ MarkCandidate(w)
  \/ MarkOriginal(w)
  \/ Crash(w)

Maintenance ==
  \/ StartJob
  \/ \E o \in Outcomes : DeleteExpired(o)
  \/ MarkExpired
  \/ ListBlobs
  \/ CompareRows
  \/ QuarantineMissing

Next ==
  \/ \E f \in Workflows : CreateWorkflow(f)
  \/ \E u \in UploadIds : Recognize(u) \/ ConfirmMapping(u)
  \/ \E w \in Workers : Request(w)
  \/ \E x \in Objects : Expire(x)
  \/ Maintenance
  \/ CrashJob

Spec == Init /\ [][Next]_vars

\* cron starts the job again and again, and time passes; nothing is assumed of
\* the requests.
FairSpec ==
  /\ Spec
  /\ WF_vars(Maintenance)
  /\ \A x \in Objects : WF_vars(Expire(x))

-----------------------------------------------------------------------------
(***************************************************************************)
(* Properties                                                              *)
(***************************************************************************)
Statuses == {Absent, "created", "uploading", "recognized", "ready", "committed"}
UploadStatuses == {Absent, "staged", "recognized", "accepted", "deleted"}
RowStates == {Absent, "staging", "available", "quarantined", "deleted"}

WorkflowRow == [status : Statuses, rev : Nat, base : Nat]
UploadRow == [status : UploadStatuses, file : Files \cup {NoFile},
              map : 0..MaxMappings, cand : 0..MaxMappings]
Versions == [f : Workflows, k : Keys, content : Contents]

\* The steps of a commit.
CommitSteps ==
  {"assemble", "promote", "save_version", "check_commit", "compensate",
   "drop_committed", "delete_candidate", "mark_candidate", "delete_original",
   "mark_original"}

\* Each variable holds values of its column or local variable, and one request
\* thread at most is between taking and releasing the commit lock.
TypeOK ==
  /\ workflow \in [Workflows -> WorkflowRow]
  /\ upload \in [UploadIds -> UploadRow]
  /\ versions \in Seq(Versions)
  /\ \A f \in Workflows : workflow[f].base <= Len(versions)
  /\ row \in [Objects -> RowStates]
  /\ blobs \subseteq Objects
  /\ expired \subseteq Objects
  /\ lock \in Workers \cup {NoWorker}
  /\ \A w \in Workers : worker[w].pc \in CommitSteps => lock = w
  /\ faults \in 0..MaxFaults

\* The chain of versions, without the keys that name their artifacts.
Lineage == [n \in DOMAIN versions |-> [source |-> versions[n].f,
                                      content |-> versions[n].content]]

\* Commits are appended to one chain, each on top of the version that was the
\* last when its workflow was created, none twice (_commit_serialized and
\* _commit_database), whatever interleaves, fails or is retried.
History ==
  INSTANCE DatasetHistory WITH
    Sources <- Workflows,
    Records <- Candidates,
    history <- Lineage
ImplementsHistory == History!Spec

\* A version takes what its workflow held at the moment of the commit: all of
\* its uploads were accepted, and none was added or replaced after the rows
\* were assembled (the revision check of _commit_database).
CommitTakesAllUploads ==
  [][\A f \in Workflows :
       VersionOf(f) = {} /\ (VersionOf(f) # {})' =>
         /\ AllAccepted(UploadsOf(f))
         /\ versions'[Len(versions')].content = Assembled(f)]_vars

\* The candidate of an accepted upload was standardized under the mapping the
\* operator confirmed last, although it is read before the blob is written and
\* recorded after (standardize).
CandidateFollowsMapping ==
  \A u \in UploadIds :
    upload[u].status \in {"accepted", "deleted"} => upload[u].cand = upload[u].map

\* The artifact of a version is there, whatever a failed or repeated commit
\* undid (_compensate_merged after _committed_version).  The hourly job can only
\* quarantine its row, unless it meets a blob that a compensation failed to delete.
ArtifactHasBlob ==
  \A n \in DOMAIN versions :
    /\ FinalOf(n) \in blobs
    /\ \/ row[FinalOf(n)] = "available"
       \/ Maintained /\ row[FinalOf(n)] = "quarantined"

\* An uploaded original does not stay for good, whatever fails or crashes
\* between its upload and the end of its workflow (expire).
RawUploadsGo ==
  \A u \in UploadIds : (Original(u) \in blobs) ~> (Original(u) \notin blobs)

\* "commits all active files or none": a version has every file of its workflow.
AllFilesOrNone ==
  \A n \in DOMAIN versions : \A u \in UploadsOf(versions[n].f) :
    StandardizedFile(u) \in versions[n].content
=============================================================================
