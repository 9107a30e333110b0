---------------------------- MODULE ActionExport ----------------------------
(***************************************************************************)
(* The export of an approved action card (ActionService.export), next to   *)
(* the hourly job scripts/maintain_storage.py.  The card cannot change any *)
(* more and its workbook is a function of the card, so that all exports of *)
(* the card have one final object key.  A request stages the workbook,     *)
(* reserves the final key with a temporary row, promotes the blob, records *)
(* what was promoted, and then adopts the row and writes the export in one *)
(* transaction.  After an exception it reads the export back and cleans up *)
(* what it may.                                                            *)
(***************************************************************************)
EXTENDS Naturals, FiniteSets

CONSTANTS
  Keys,         \* client idempotency keys
  Workers,      \* request threads
  MaxRequests,  \* bound: requests that stage a workbook
  MaxFaults     \* bound: failed transactions, reads and storage calls, and crashes

ASSUME BoundsAreNatural == MaxRequests \in Nat /\ MaxFaults \in Nat

VARIABLES
  maintained,  \* whether the job is deployed
  exports,     \* action_exports: the storage object of each key's export
  row,         \* storage_objects
  expired,     \* rows whose expires_at has passed
  staged,      \* requests whose staging blob exists
  final,       \* etag of the blob under the final key, 0 if there is none
  etags,       \* etags given to that blob so far
  requests,    \* requests so far; the number names the staging key
  worker,      \* local state of each request thread
  job,         \* local state of the job
  faults       \* faults injected so far

tables == <<exports, row, expired>>
blobs == <<staged, final, etags>>
vars == <<maintained, tables, blobs, requests, worker, job, faults>>

Requests == 1..MaxRequests
\* A request can write three rows: its staging row has a key of its own, the
\* others carry the final key.
Staged(n) == <<"staged", n>>
Reserved(n) == <<"reserved", n>>
Promoted(n) == <<"promoted", n>>
FinalIds == {Reserved(n) : n \in Requests} \cup {Promoted(n) : n \in Requests}
Ids == FinalIds \cup {Staged(n) : n \in Requests}
NoId == <<"none", 0>>

\* Etag 0 is NULL; the etag of a staging blob never changes and is 1.
NoRow == [state |-> "absent", purpose |-> "temporary", etag |-> 0]
Temporary(state, etag) == [state |-> state, purpose |-> "temporary", etag |-> etag]

IdleWorker ==
  [pc |-> "idle", key |-> "no key", n |-> 0, id |-> NoId, etag |-> 0,
   adopt |-> FALSE, cleanup |-> FALSE, ok |-> TRUE]
IdleJob == [pc |-> "idle", todo |-> {}, cur |-> NoId, ok |-> TRUE, seen |-> {}]

Init ==
  /\ maintained \in BOOLEAN
  /\ exports = [k \in Keys |-> NoId]
  /\ row = [x \in Ids |-> NoRow]
  /\ expired = {}
  /\ staged = {}
  /\ final = 0
  /\ etags = 0
  /\ requests = 0
  /\ worker = [w \in Workers |-> IdleWorker]
  /\ job = IdleJob
  /\ faults = 0

-----------------------------------------------------------------------------
(***************************************************************************)
(* Rows, outcomes                                                          *)
(***************************************************************************)
Live(x) == row[x].state \notin {"absent", "deleted"}

\* The row that holds the final key: the key is unique, and a deleted row has
\* given it up.
FinalRow == {x \in FinalIds : Live(x)}

\* What mark_deleted, mark_cleanup_pending and list_expired_temporary accept.
Disposable_AnyPurpose(x) ==   \* mutant: the purpose is not checked
  row[x].state \in {"staging", "quarantined"}
Disposable(x) ==
  row[x].purpose = "temporary" /\ row[x].state \in {"staging", "quarantined"}

IsExport(x) == row[x].purpose = "export" /\ row[x].state = "available"

\* _matches_final_reservation, _matches_temporary, _matches_available_export and
\* _matches_promotion_reservation.
HoldsReservation(x) == Disposable(x) \/ IsExport(x)
HoldsTemporary(x, etag) == Disposable(x) /\ row[x].etag = etag
HoldsExport(x, etag) == IsExport(x) /\ row[x].etag = etag
AwaitsPromotion(x) ==
  row[x].purpose = "temporary" /\ row[x].state = "staging" /\ row[x].etag = 0

Fault(o) ==
  \/ o = "ok" /\ UNCHANGED faults
  \/ o # "ok" /\ faults < MaxFaults /\ faults' = faults + 1

\* lost: the change was made, but the caller sees an exception.
Outcomes == {"ok", "lost", "fail"}
Done(o) == o # "fail"
ReadOutcomes == {"ok", "fail"}

Update(w, local) == worker' = [worker EXCEPT ![w] = local]
Go(w, pc) == worker' = [worker EXCEPT ![w].pc = pc]
Leave(w) == worker' = [worker EXCEPT ![w] = IdleWorker]

\* The row the request goes on with.
Continue(w, x, adopt) ==
  Update(w, [worker[w] EXCEPT !.pc = "save", !.id = x, !.adopt = adopt,
                              !.cleanup = adopt])

-----------------------------------------------------------------------------
(***************************************************************************)
(* Staging and reservation                                                 *)
(***************************************************************************)
LockFree_NotHeld == TRUE   \* mutant: exports of one card are not serialized
LockFree == \A w \in Workers : worker[w].pc = "idle"

\* Until put_staging; when it fails, nothing is known of the blob.
Start(w, k, o) ==
  /\ worker[w].pc = "idle"
  /\ LockFree
  /\ exports[k] = NoId
  /\ requests < MaxRequests
  /\ Fault(o)
  /\ requests' = requests + 1
  /\ staged' = IF Done(o) THEN staged \cup {requests'} ELSE staged
  /\ IF o = "ok"
     THEN Update(w, [IdleWorker EXCEPT !.pc = "record_staging", !.key = k,
                                       !.n = requests'])
     ELSE Leave(w)
  /\ UNCHANGED <<maintained, tables, final, etags, job>>

RecordStaging(w, o) ==
  /\ worker[w].pc = "record_staging"
  /\ Fault(o)
  /\ row' = IF Done(o)
            THEN [row EXCEPT ![Staged(worker[w].n)] = Temporary("staging", 1)]
            ELSE row
  /\ Go(w, IF o = "ok" THEN "find_reservation" ELSE "check_staging")
  /\ UNCHANGED <<maintained, exports, expired, blobs, requests, job>>

CheckStaging(w, o) ==
  /\ worker[w].pc = "check_staging"
  /\ Fault(o)
  /\ Go(w, IF o = "ok" /\ Disposable(Staged(worker[w].n))
           THEN "find_reservation" ELSE "authority")
  /\ UNCHANGED <<maintained, tables, blobs, requests, job>>

\* _record_promotion_reservation reads, inserts, and reads again when the insert
\* has failed.
ReadReservation(w, o, otherwise) ==
  LET found == {x \in FinalRow : HoldsReservation(x)} IN
  IF o = "ok" /\ found # {}
  THEN \E x \in found : Update(w, [worker[w] EXCEPT !.pc = "promote", !.id = x])
  ELSE Go(w, IF o = "ok" THEN otherwise ELSE "authority")

FindReservation(w, o) ==
  /\ worker[w].pc = "find_reservation"
  /\ Fault(o)
  /\ ReadReservation(w, o, "reserve")
  /\ UNCHANGED <<maintained, tables, blobs, requests, job>>

Reserve(w, o) ==
  LET x == Reserved(worker[w].n) IN
  /\ worker[w].pc = "reserve"
  /\ Fault(o)
  /\ row' = IF FinalRow = {} /\ Done(o)
            THEN [row EXCEPT ![x] = Temporary("staging", 0)] ELSE row
  /\ IF FinalRow = {} /\ o = "ok"
     THEN Update(w, [worker[w] EXCEPT !.pc = "promote", !.id = x])
     ELSE Go(w, "check_reservation")
  /\ UNCHANGED <<maintained, exports, expired, blobs, requests, job>>

CheckReservation(w, o) ==
  /\ worker[w].pc = "check_reservation"
  /\ Fault(o)
  /\ ReadReservation(w, o, "authority")
  /\ UNCHANGED <<maintained, tables, blobs, requests, job>>

-----------------------------------------------------------------------------
(***************************************************************************)
(* Promotion                                                               *)
(***************************************************************************)
\* The first attempt and the second.  When both fail, _promote_export lists the
\* final key as a prefix, and AzureBlobWorkflowStorage.inventory, which appends
\* a slash, never finds it.
Promote(w, o) ==
  LET present == worker[w].n \in staged
      creates == present /\ Done(o) /\ final = 0
  IN
  /\ worker[w].pc \in {"promote", "promote_again"}
  /\ Fault(o)
  /\ final' = IF creates THEN etags + 1 ELSE final
  /\ etags' = IF creates THEN etags + 1 ELSE etags
  /\ IF present /\ o = "ok"
     THEN Update(w, [worker[w] EXCEPT !.pc = "find_promoted", !.etag = final',
                                      !.cleanup = creates])
     ELSE Go(w, IF worker[w].pc = "promote" THEN "promote_again" ELSE "authority")
  /\ UNCHANGED <<maintained, tables, staged, requests, job>>

\* _record_quarantined: what holds the final key now?
FindPromoted(w, o) ==
  LET etag == worker[w].etag IN
  /\ worker[w].pc = "find_promoted"
  /\ Fault(o)
  /\ \/ o # "ok" /\ Go(w, "authority")
     \/ \E x \in FinalRow :
          /\ o = "ok"
          /\ \/ HoldsExport(x, etag) /\ Continue(w, x, FALSE)
             \/ AwaitsPromotion(x) /\ Go(w, "record_promoted")
             \/ HoldsTemporary(x, etag) /\ Continue(w, x, TRUE)
     \/ /\ o = "ok"
        /\ \A x \in FinalRow : /\ ~HoldsExport(x, etag) /\ ~AwaitsPromotion(x)
                               /\ ~HoldsTemporary(x, etag)
        /\ Go(w, "create_promoted")
  /\ UNCHANGED <<maintained, tables, blobs, requests, job>>

\* record_promoted_quarantined gives the row the etag and a new lease.  The row is
\* the one that was reserved: under the lock nobody else reserves the key.
RecordPromoted(w, o) ==
  LET x == worker[w].id
      written == AwaitsPromotion(x) /\ Done(o)
  IN
  /\ worker[w].pc = "record_promoted"
  /\ Fault(o)
  /\ row' = IF written
            THEN [row EXCEPT ![x] = Temporary("quarantined", worker[w].etag)] ELSE row
  /\ expired' = IF written THEN expired \ {x} ELSE expired
  /\ IF written /\ o = "ok" THEN Continue(w, x, TRUE) ELSE Go(w, "check_promoted")
  /\ UNCHANGED <<maintained, exports, blobs, requests, job>>

CheckPromoted(w, o) ==
  /\ worker[w].pc = "check_promoted"
  /\ Fault(o)
  /\ IF o = "ok" /\ \E x \in FinalRow : HoldsTemporary(x, worker[w].etag)
     THEN Continue(w, worker[w].id, TRUE)
     ELSE Go(w, "authority")
  /\ UNCHANGED <<maintained, tables, blobs, requests, job>>

\* create_available and mark_quarantined in one transaction.
CreatePromoted(w, o) ==
  LET x == Promoted(worker[w].n) IN
  /\ worker[w].pc = "create_promoted"
  /\ Fault(o)
  /\ row' = IF FinalRow = {} /\ Done(o)
            THEN [row EXCEPT ![x] = Temporary("quarantined", worker[w].etag)] ELSE row
  /\ IF FinalRow = {} /\ o = "ok" THEN Continue(w, x, TRUE) ELSE Go(w, "check_created")
  /\ UNCHANGED <<maintained, exports, expired, blobs, requests, job>>

CheckCreated(w, o) ==
  LET etag == worker[w].etag
      found == {x \in FinalRow : HoldsExport(x, etag) \/ HoldsTemporary(x, etag)}
  IN
  /\ worker[w].pc = "check_created"
  /\ Fault(o)
  /\ IF o = "ok" /\ found # {}
     THEN \E x \in found : Continue(w, x, ~HoldsExport(x, etag))
     ELSE Go(w, "authority")
  /\ UNCHANGED <<maintained, tables, blobs, requests, job>>

-----------------------------------------------------------------------------
(***************************************************************************)
(* The export, and what is left of it                                      *)
(***************************************************************************)
\* adopt_quarantined_available.
Adoptable(w) ==
  LET r == row[worker[w].id] IN
  worker[w].adopt => r = Temporary("quarantined", worker[w].etag)

Save(w, o) ==
  LET x == worker[w].id
      written == Adoptable(w) /\ exports[worker[w].key] = NoId /\ Done(o)
  IN
  /\ worker[w].pc = "save"
  /\ Fault(o)
  /\ exports' = IF written THEN [exports EXCEPT ![worker[w].key] = x] ELSE exports
  /\ IF written /\ worker[w].adopt
     THEN /\ row' = [row EXCEPT ![x].purpose = "export", ![x].state = "available"]
          /\ expired' = expired \ {x}
     ELSE UNCHANGED <<row, expired>>
  /\ Go(w, IF written /\ o = "ok" THEN "drop_staged" ELSE "authority")
  /\ UNCHANGED <<maintained, blobs, requests, job>>

\* _export_authority after any exception; what it raises is only noted.
Recorded_NotRead(w) == FALSE   \* mutant: clean up without reading the export back
Recorded(w) ==
  /\ exports[worker[w].key] # NoId
  /\ IsExport(exports[worker[w].key])

Authority(w, o) ==
  /\ worker[w].pc = "authority"
  /\ Fault(o)
  /\ Go(w, IF ~(o = "ok" /\ Recorded(w)) /\ worker[w].cleanup
           THEN "drop_final" ELSE "drop_staged")
  /\ UNCHANGED <<maintained, tables, blobs, requests, job>>

\* _cleanup_temporary(available): a blob that was written anew is a conflict.
DropFinal(w, o) ==
  LET matches == final \in {0, worker[w].etag} IN
  /\ worker[w].pc = "drop_final"
  /\ Fault(o)
  /\ final' = IF matches /\ Done(o) THEN 0 ELSE final
  /\ Update(w, [worker[w] EXCEPT !.pc = "mark_final", !.ok = matches /\ o = "ok"])
  /\ UNCHANGED <<maintained, tables, staged, etags, requests, job>>

\* mark_deleted or mark_cleanup_pending, whose exceptions are noted.
MarkRow_Always(x, ok, o) ==   \* mutant: tombstone although the delete failed
  IF x # NoId /\ Disposable(x) /\ Done(o)
  THEN /\ row' = [row EXCEPT ![x] = Temporary("deleted", 0)]
       /\ expired' = expired \ {x}
  ELSE UNCHANGED <<row, expired>>
MarkRow(x, ok, o) ==
  IF x # NoId /\ Disposable(x) /\ Done(o)
  THEN /\ row' = [row EXCEPT ![x] = IF ok THEN Temporary("deleted", 0)
                                    ELSE Temporary("quarantined", @.etag)]
       /\ expired' = IF ok THEN expired \ {x} ELSE expired \cup {x}
  ELSE UNCHANGED <<row, expired>>

MarkFinal(w, o) ==
  /\ worker[w].pc = "mark_final"
  /\ Fault(o)
  /\ MarkRow(worker[w].id, worker[w].ok, o)
  /\ Go(w, "drop_staged")
  /\ UNCHANGED <<maintained, exports, blobs, requests, job>>

DropStaged(w, o) ==
  /\ worker[w].pc = "drop_staged"
  /\ Fault(o)
  /\ staged' = IF Done(o) THEN staged \ {worker[w].n} ELSE staged
  /\ Update(w, [worker[w] EXCEPT !.pc = "mark_staged", !.ok = o = "ok"])
  /\ UNCHANGED <<maintained, tables, final, etags, requests, job>>

MarkStaged(w, o) ==
  /\ worker[w].pc = "mark_staged"
  /\ Fault(o)
  /\ MarkRow(Staged(worker[w].n), worker[w].ok, o)
  /\ Leave(w)
  /\ UNCHANGED <<maintained, exports, blobs, requests, job>>

Crash(w) ==
  /\ worker[w].pc # "idle"
  /\ Fault("crash")
  /\ Leave(w)
  /\ UNCHANGED <<maintained, tables, blobs, requests, job>>

-----------------------------------------------------------------------------
(***************************************************************************)
(* The maintenance job: expire, then orphan_inventory                      *)
(***************************************************************************)
\* ACTION_STORAGE_LEASE has passed since the row was written.
Expire(x) ==
  /\ maintained
  /\ Disposable(x)
  /\ x \notin expired
  /\ expired' = expired \cup {x}
  /\ UNCHANGED <<maintained, exports, row, blobs, requests, worker, job, faults>>

\* The records are read once, with their etags.
StartJob ==
  /\ maintained
  /\ job.pc = "idle"
  /\ job' = [job EXCEPT !.pc = "expire",
                        !.todo = {<<x, row[x].etag>> : x \in {y \in expired : Disposable(y)}}]
  /\ UNCHANGED <<maintained, tables, blobs, requests, worker, faults>>

\* Without an etag, delete takes that of the blob it finds.
EtagHolds(etag) == etag = 0 \/ final \in {0, etag}

DeleteExpired(o) ==
  /\ job.pc = "expire"
  /\ Fault(o)
  /\ \E r \in job.todo :
       /\ IF r[1] \in FinalIds
          THEN /\ final' = IF EtagHolds(r[2]) /\ Done(o) THEN 0 ELSE final
               /\ UNCHANGED staged
          ELSE /\ staged' = IF Done(o) THEN staged \ {r[1][2]} ELSE staged
               /\ UNCHANGED final
       /\ job' = [job EXCEPT
            !.pc = "mark", !.cur = r[1], !.todo = @ \ {r},
            !.ok = o = "ok" /\ (r[1] \in FinalIds => EtagHolds(r[2]))]
  /\ UNCHANGED <<maintained, tables, etags, requests, worker>>

\* mark_deleted, or mark_quarantined, which takes any row that is not deleted;
\* their exceptions end the job.
Markable(x, ok) == IF ok THEN Disposable(x) ELSE row[x].state # "deleted"

MarkExpired ==
  LET x == job.cur IN
  /\ job.pc = "mark"
  /\ IF Markable(x, job.ok)
     THEN /\ row' = IF job.ok THEN [row EXCEPT ![x] = Temporary("deleted", 0)]
                    ELSE [row EXCEPT ![x].state = "quarantined"]
          /\ expired' = IF job.ok THEN expired \ {x} ELSE expired
          /\ job' = [IdleJob EXCEPT !.pc = "expire", !.todo = job.todo]
     ELSE job' = IdleJob /\ UNCHANGED <<row, expired>>
  /\ UNCHANGED <<maintained, exports, blobs, requests, worker, faults>>

HasBlob(x) == IF x \in FinalIds THEN final # 0 ELSE x[2] \in staged

ListBlobs ==
  /\ job.pc = "expire"
  /\ job.todo = {}
  /\ job' = [job EXCEPT !.pc = "compare", !.seen = {x \in Ids : HasBlob(x)}]
  /\ UNCHANGED <<maintained, tables, blobs, requests, worker, faults>>

CompareRows ==
  /\ job.pc = "compare"
  /\ job' = [IdleJob EXCEPT !.pc = "quarantine",
                            !.todo = {x \in Ids : Live(x)} \ job.seen]
  /\ UNCHANGED <<maintained, tables, blobs, requests, worker, faults>>

\* One transaction for all of them, which a deleted row rolls back.
QuarantineMissing ==
  /\ job.pc = "quarantine"
  /\ row' = IF \A x \in job.todo : row[x].state # "deleted"
            THEN [x \in Ids |-> IF x \in job.todo
                                THEN [row[x] EXCEPT !.state = "quarantined"]
                                ELSE row[x]]
            ELSE row
  /\ job' = IdleJob
  /\ UNCHANGED <<maintained, exports, expired, blobs, requests, worker, faults>>

CrashJob ==
  /\ job.pc # "idle"
  /\ Fault("crash")
  /\ job' = IdleJob
  /\ UNCHANGED <<maintained, tables, blobs, requests, worker>>

-----------------------------------------------------------------------------
Request(w) ==
  \/ \E k \in Keys, o \in Outcomes : Start(w, k, o)
  \/ \E o \in Outcomes :
       \/ RecordStaging(w, o) \/ Reserve(w, o) \/ Promote(w, o)
       \/ RecordPromoted(w, o) \/ CreatePromoted(w, o) \/ Save(w, o)
       \/ DropFinal(w, o) \/ DropStaged(w, o)
  \/ \E o \in ReadOutcomes :
       \/ CheckStaging(w, o) \/ FindReservation(w, o) \/ CheckReservation(w, o)
       \/ FindPromoted(w, o) \/ CheckPromoted(w, o) \/ CheckCreated(w, o)
       \/ Authority(w, o) \/ MarkFinal(w, o) \/ MarkStaged(w, o)
  \/ Crash(w)

Maintenance ==
  \/ StartJob
  \/ \E o \in Outcomes : DeleteExpired(o)
  \/ MarkExpired
  \/ ListBlobs
  \/ CompareRows
  \/ QuarantineMissing

Next ==
  \/ \E w \in Workers : Request(w)
  \/ \E x \in Ids : Expire(x)
  \/ Maintenance
  \/ CrashJob

Spec == Init /\ [][Next]_vars

-----------------------------------------------------------------------------
(***************************************************************************)
(* Properties                                                              *)
(***************************************************************************)
Rows ==
  [state : {"absent", "staging", "available", "quarantined", "deleted"},
   purpose : {"temporary", "export"}, etag : Nat]

\* Every variable has its type, and one request at most of the card is under way
\* (_locks.acquire).
TypeOK ==
  /\ maintained \in BOOLEAN
  /\ exports \in [Keys -> Ids \cup {NoId}]
  /\ row \in [Ids -> Rows]
  /\ expired \subseteq Ids
  /\ staged \subseteq Requests
  /\ etags \in Nat /\ final \in 0..etags
  /\ requests \in 0..MaxRequests
  /\ faults \in 0..MaxFaults
  /\ \A v, w \in Workers : worker[v].pc # "idle" /\ worker[w].pc # "idle" => v = w

\* An export can be downloaded (open_export), whatever one failure in its own
\* request, an earlier or a later one undid.  Two failures are too many: when the
\* transaction is committed in doubt and reading it back fails as well, the
\* request deletes the blob.
ExportOpens ==
  ~maintained /\ faults <= 1 =>
    \A k \in Keys : exports[k] # NoId =>
      IsExport(exports[k]) /\ row[exports[k]].etag = final

\* No blob under the final key without a row by which it can be found again, for
\* any failures: the reservation is written first and marked last.
FinalBlobHasRow == ~maintained /\ final # 0 => FinalRow # {}

\* The row of an export is never taken for a temporary one: neither by the job
\* nor by a request that cleans up (mark_deleted, mark_cleanup_pending).
ExportsAreKept ==
  [][\A k \in Keys : exports[k] # NoId =>
       /\ exports'[k] = exports[k]
       /\ row'[exports[k]].purpose = "export"
       /\ row'[exports[k]].state # "deleted"]_vars

\* "never delete permanent or orphan objects": the job deletes no blob of an
\* export.
JobSparesExports ==
  [][Maintenance /\ final # 0 /\ final' = 0 => \A x \in FinalIds : ~IsExport(x)]_vars
=============================================================================
