--------------------------- MODULE ActionsProofs ---------------------------
(***************************************************************************)
(* Proofs about action cards and their exports, for any number of keys,    *)
(* threads, requests and failures.                                         *)
(*                                                                         *)
(* The export is type correct, one request of a card is under way at most, *)
(* and without the maintenance job no blob stays under the final key       *)
(* without a row.  The argument is the lock: only one thread is not idle,  *)
(* so that what it knows of the final key (Backed) is changed by nobody    *)
(* else.  It promotes under a row that it has reserved or found, and it    *)
(* marks the row of a blob as deleted when the blob is gone.               *)
(*                                                                         *)
(* An export opens (OpenInv) because a request drops the final blob only   *)
(* if it promoted it itself when there was no export; its own may be there *)
(* only if its transaction was in doubt, which was the one failure, so     *)
(* that the rows are read back before anything is dropped.                 *)
(*                                                                         *)
(* A card is safe without that lock: what a request found when it took the *)
(* row of the card is still so when it commits.  Only that a repetition is *)
(* answered alike needs the lock, since the first answer reads the card    *)
(* again after the commit and the later ones read its record.              *)
(***************************************************************************)
EXTENDS ActionExport, ActionCards, SequenceTheorems, TLAPS

\* The steps that use the row of the final key.
RowSteps ==
  {"promote", "promote_again", "find_promoted", "record_promoted",
   "check_promoted", "save"}
Steps ==
  RowSteps \cup
    {"idle", "record_staging", "check_staging", "find_reservation", "reserve",
     "check_reservation", "create_promoted", "check_created", "authority",
     "drop_final", "mark_final", "drop_staged", "mark_staged"}
JobSteps == {"idle", "expire", "mark", "compare", "quarantine"}

LocalState ==
  [pc : Steps, key : Keys \cup {"no key"}, n : 0..MaxRequests,
   id : Ids \cup {NoId}, etag : Nat, adopt : BOOLEAN, cleanup : BOOLEAN,
   ok : BOOLEAN]

JobState ==
  [pc : JobSteps, todo : SUBSET (Ids \cup (Ids \X Nat)), cur : Ids \cup {NoId},
   ok : BOOLEAN, seen : SUBSET Ids]

TablesTyped ==
  /\ maintained \in BOOLEAN
  /\ exports \in [Keys -> Ids \cup {NoId}]
  /\ row \in [Ids -> Rows]
  /\ expired \subseteq Ids
  /\ staged \subseteq Requests
  /\ etags \in Nat /\ final \in 0..etags
  /\ requests \in 0..MaxRequests
  /\ faults \in 0..MaxFaults

OneRequest ==
  \A v, w \in Workers : worker[v].pc # "idle" /\ worker[w].pc # "idle" => v = w

JobTyped ==
  /\ job \in JobState
  /\ job.pc = "expire" => job.todo \subseteq Ids \X Nat
  /\ job.pc = "mark" => job.cur \in Ids /\ job.todo \subseteq Ids \X Nat

\* What a request knows at each step.
Knows(r) ==
  /\ r \in LocalState
  /\ r.pc # "idle" => r.key \in Keys /\ r.n \in Requests
  /\ r.pc \in RowSteps => r.id \in FinalIds

WorkersTyped ==
  /\ worker = [w \in Workers |-> worker[w]]
  /\ \A w \in Workers : Knows(worker[w])

\* What it knows of the final key when no job interferes.
Backed(r) ==
  /\ r.pc \in {"promote", "promote_again"} => FinalRow # {}
  /\ r.pc = "mark_final" /\ r.ok => final = 0

BlobOK == final # 0 => FinalRow # {}

Alone ==
  ~maintained =>
    /\ job.pc = "idle"
    /\ BlobOK
    /\ \A w \in Workers : Backed(worker[w])

Invariant == TablesTyped /\ OneRequest /\ JobTyped /\ WorkersTyped /\ Alone

-----------------------------------------------------------------------------
\* The invariant implies what the runs check.
LEMMA InvariantImplies == Invariant => TypeOK /\ FinalBlobHasRow
  BY DEF Invariant, TablesTyped, OneRequest, Alone, BlobOK, TypeOK, FinalBlobHasRow

\* Each kind of row has keys of its own, and none is NoId.
LEMMA IdsDistinct ==
  ASSUME NEW n \in Requests
  PROVE  /\ Staged(n) \in Ids /\ Staged(n) \notin FinalIds
         /\ Reserved(n) \in FinalIds /\ Promoted(n) \in FinalIds
         /\ FinalIds \subseteq Ids
  BY DEF Staged, Reserved, Promoted, FinalIds, Ids

\* As long as live rows stay live, the final key keeps its row.
LEMMA FinalRowStays ==
  ASSUME \A x \in FinalIds : Live(x) => Live(x)', FinalRow # {}
  PROVE  FinalRow' # {}
  BY DEF FinalRow

\* A fault is counted up to the bound.
LEMMA FaultTyped ==
  ASSUME faults \in 0..MaxFaults, NEW o, Fault(o)
  PROVE  faults' \in 0..MaxFaults
  BY BoundsAreNatural DEF Fault

\* An idle thread knows nothing.
LEMMA IdleKnows == Knows(IdleWorker)
<1>1. IdleWorker \in LocalState
  <2>1. 0 \in 0..MaxRequests /\ 0 \in Nat
    BY BoundsAreNatural
  <2> QED
    BY <2>1 DEF LocalState, IdleWorker, Steps
<1> QED
  BY <1>1 DEF Knows, IdleWorker, RowSteps

\* The initial states satisfy the invariant.
LEMMA InitInvariant == Init => Invariant
<1> SUFFICES ASSUME Init PROVE Invariant
  OBVIOUS
<1> USE DEF Init
<1>1. TablesTyped
  BY BoundsAreNatural DEF TablesTyped, NoRow, Rows
<1>2. OneRequest
  BY DEF OneRequest, IdleWorker
<1>3. JobTyped
  BY DEF JobTyped, JobState, JobSteps, IdleJob
<1>5. WorkersTyped
  BY IdleKnows DEF WorkersTyped
<1>6. Alone
  BY DEF Alone, BlobOK, Backed, IdleJob, IdleWorker
<1> QED
  BY <1>1, <1>2, <1>3, <1>5, <1>6 DEF Invariant

-----------------------------------------------------------------------------
(***************************************************************************)
(* The steps of a request.  By the lock, only its own local state matters. *)
(***************************************************************************)
\* A request's step to the local state r keeps the invariant, if r knows enough
\* and the tables stay typed.
LEMMA RequestKeeps ==
  ASSUME Invariant, NEW w \in Workers, NEW r,
         worker' = [worker EXCEPT ![w] = r],
         worker[w].pc # "idle" \/ LockFree,
         Knows(r), TablesTyped', UNCHANGED <<maintained, job>>,
         ~maintained => BlobOK' /\ Backed(r)'
  PROVE  Invariant'
<1>1. \A v \in Workers : v # w => worker[v].pc = "idle"
  BY DEF Invariant, OneRequest, LockFree
<1>2. worker' = [v \in Workers |-> IF v = w THEN r ELSE worker[v]]
  BY DEF Invariant, WorkersTyped
<1>3. OneRequest'
  BY <1>1, <1>2 DEF OneRequest
<1>4. WorkersTyped'
  BY <1>2 DEF WorkersTyped, Invariant
<1>5. JobTyped'
  BY DEF JobTyped, Invariant
<1>6. Alone'
  BY <1>1, <1>2 DEF Alone, Backed, Invariant
<1> QED
  BY <1>3, <1>4, <1>5, <1>6 DEF Invariant

\* A request that moves on without touching a table, except to a step that
\* relies on the final key.
LEMMA GoKeeps ==
  ASSUME Invariant, NEW w \in Workers, NEW pc \in Steps, Go(w, pc),
         worker[w].pc # "idle", pc \notin {"promote", "mark_final"},
         pc \in RowSteps => worker[w].pc \in RowSteps,
         pc = "promote_again" => worker[w].pc \in {"promote", "promote_again"},
         TablesTyped', UNCHANGED <<maintained, job, final>>,
         \A x \in FinalIds : Live(x) => Live(x)'
  PROVE  Invariant'
<1>1. PICK r : r = [worker[w] EXCEPT !.pc = pc]
  OBVIOUS
<1>2. worker' = [worker EXCEPT ![w] = r]
  BY <1>1 DEF Go
<1>3. Knows(worker[w])
  BY DEF Invariant, WorkersTyped
<1>4. Knows(r) /\ r.pc = pc
  BY <1>1, <1>3 DEF Knows, LocalState
<1>5. FinalRow # {} => FinalRow' # {}
  BY FinalRowStays
<1>6. ASSUME ~maintained PROVE BlobOK' /\ Backed(r)'
  <2>1. BlobOK /\ Backed(worker[w])
    BY <1>6 DEF Invariant, Alone
  <2> QED
    BY <1>4, <1>5, <2>1 DEF BlobOK, Backed
<1> QED
  BY <1>2, <1>4, <1>6, RequestKeeps
\* A request that ends.
LEMMA LeaveKeeps ==
  ASSUME Invariant, NEW w \in Workers, Leave(w),
         worker[w].pc # "idle" \/ LockFree,
         TablesTyped', UNCHANGED <<maintained, job, final>>,
         \A x \in FinalIds : Live(x) => Live(x)'
  PROVE  Invariant'
<1>1. PICK r : r = IdleWorker
  OBVIOUS
<1>2. worker' = [worker EXCEPT ![w] = r]
  BY <1>1 DEF Leave
<1>3. Knows(r) /\ r.pc = "idle"
  BY <1>1, IdleKnows DEF IdleWorker
<1>4. FinalRow # {} => FinalRow' # {}
  BY FinalRowStays
<1>5. ASSUME ~maintained PROVE BlobOK' /\ Backed(r)'
  BY <1>3, <1>4, <1>5 DEF BlobOK, Backed, Invariant, Alone
<1> QED
  BY <1>2, <1>3, <1>5, RequestKeeps

\* A request goes on with the row x of the final key.
LEMMA ContinueKeeps ==
  ASSUME Invariant, NEW w \in Workers, NEW x \in FinalIds, NEW adopt \in BOOLEAN,
         Continue(w, x, adopt), worker[w].pc # "idle",
         TablesTyped', UNCHANGED <<maintained, job, final>>,
         \A y \in FinalIds : Live(y) => Live(y)'
  PROVE  Invariant'
<1>1. PICK r : r = [worker[w] EXCEPT !.pc = "save", !.id = x, !.adopt = adopt,
                                     !.cleanup = adopt]
  OBVIOUS
<1>2. worker' = [worker EXCEPT ![w] = r]
  BY <1>1 DEF Continue, Update
<1>3. Knows(worker[w])
  BY DEF Invariant, WorkersTyped
<1>4. Knows(r) /\ r.pc = "save"
  BY <1>1, <1>3 DEF Knows, LocalState, Steps, RowSteps, Ids
<1>5. FinalRow # {} => FinalRow' # {}
  BY FinalRowStays
<1>6. ASSUME ~maintained PROVE BlobOK' /\ Backed(r)'
  BY <1>4, <1>5, <1>6 DEF BlobOK, Backed, Invariant, Alone
<1> QED
  BY <1>2, <1>4, <1>6, RequestKeeps

\* A request that changes no table counts a fault at most.
LEMMA TablesStay ==
  ASSUME TablesTyped, NEW o, Fault(o),
         UNCHANGED <<maintained, tables, blobs, requests>>
  PROVE  /\ TablesTyped' /\ UNCHANGED <<maintained, final>>
         /\ \A x \in FinalIds : Live(x) => Live(x)'
<1>1. faults' \in 0..MaxFaults
  BY FaultTyped DEF TablesTyped
<1> QED
  BY <1>1 DEF TablesTyped, tables, blobs, Live

\* A row in a temporary state is a row.
LEMMA TemporaryTyped ==
  ASSUME NEW state \in {"staging", "quarantined", "deleted"}, NEW etag \in Nat
  PROVE  /\ Temporary(state, etag) \in Rows
         /\ Temporary(state, etag).state = state
  BY DEF Temporary, Rows

\* Writing one row leaves the tables typed, and other rows live.
LEMMA RowWritten ==
  ASSUME TablesTyped, NEW o, Fault(o), NEW x \in Ids, NEW r \in Rows,
         row' = [row EXCEPT ![x] = r], expired' \subseteq Ids,
         UNCHANGED <<maintained, blobs, requests>>,
         exports' \in [Keys -> Ids \cup {NoId}]
  PROVE  /\ TablesTyped' /\ UNCHANGED <<maintained, final>>
         /\ x \notin FinalIds \/ r.state \notin {"absent", "deleted"} =>
              \A y \in FinalIds : Live(y) => Live(y)'
         /\ x \in FinalIds /\ r.state \notin {"absent", "deleted"} =>
              FinalRow' # {}
<1>1. faults' \in 0..MaxFaults
  BY FaultTyped DEF TablesTyped
<1>2. row' = [y \in Ids |-> IF y = x THEN r ELSE row[y]]
  BY DEF TablesTyped
<1>3. row' \in [Ids -> Rows]
  BY <1>2 DEF TablesTyped
<1>4. TablesTyped' /\ UNCHANGED <<maintained, final>>
  BY <1>1, <1>3 DEF TablesTyped, blobs
<1>5. FinalIds \subseteq Ids
  BY DEF Ids
<1> QED
  BY <1>2, <1>4, <1>5 DEF Live, FinalRow

-----------------------------------------------------------------------------
\* Staging a workbook.
LEMMA StartKeeps ==
  ASSUME Invariant, NEW w \in Workers, NEW k \in Keys, NEW o \in Outcomes,
         Start(w, k, o)
  PROVE  Invariant'
<1> USE DEF Start
<1>1. requests' \in Requests /\ requests' \in 0..MaxRequests
  BY BoundsAreNatural DEF Invariant, TablesTyped, Requests
<1>2. faults' \in 0..MaxFaults
  BY FaultTyped DEF Invariant, TablesTyped
<1>3. staged' \subseteq Requests
  BY <1>1 DEF Invariant, TablesTyped
<1>4. TablesTyped' /\ UNCHANGED <<maintained, job, final>>
  BY <1>1, <1>2, <1>3 DEF Invariant, TablesTyped, tables
<1>5. \A x \in FinalIds : Live(x) => Live(x)'
  BY DEF Live, tables
<1>6. CASE Leave(w)
  BY <1>4, <1>5, <1>6, LeaveKeeps
<1>7. CASE Update(w, [IdleWorker EXCEPT !.pc = "record_staging", !.key = k,
                                        !.n = requests'])
  <2>1. PICK r : r = [IdleWorker EXCEPT !.pc = "record_staging", !.key = k,
                                        !.n = requests']
    OBVIOUS
  <2>2. worker' = [worker EXCEPT ![w] = r]
    BY <1>7, <2>1 DEF Update
  <2>3. Knows(r) /\ r.pc = "record_staging"
    BY ZenonT(30), <1>1, <2>1, IdleKnows DEF Knows, LocalState, Steps, RowSteps, IdleWorker
  <2>4. FinalRow # {} => FinalRow' # {}
    BY <1>5, FinalRowStays
  <2>5. ASSUME ~maintained PROVE BlobOK' /\ Backed(r)'
    BY <1>4, <2>3, <2>4, <2>5 DEF BlobOK, Backed, Invariant, Alone
  <2> QED
    BY <1>4, <2>2, <2>3, <2>5, RequestKeeps
<1> QED
  BY <1>6, <1>7

\* The row of the staging blob.
LEMMA RecordStagingKeeps ==
  ASSUME Invariant, NEW w \in Workers, NEW o \in Outcomes, RecordStaging(w, o)
  PROVE  Invariant'
<1> USE DEF RecordStaging
<1> DEFINE x == Staged(worker[w].n)
<1>1. x \in Ids /\ x \notin FinalIds
  BY IdsDistinct DEF Invariant, WorkersTyped, Knows
<1>2. /\ TablesTyped' /\ UNCHANGED <<maintained, job, final>>
      /\ \A y \in FinalIds : Live(y) => Live(y)'
  <2>1. CASE Done(o)
    <3>1. row' = [row EXCEPT ![x] = Temporary("staging", 1)]
      BY <2>1
    <3>2. Temporary("staging", 1) \in Rows
      BY TemporaryTyped
    <3> HIDE DEF x
    <3> QED
      BY <1>1, <3>1, <3>2, RowWritten DEF Invariant, TablesTyped
  <2>2. CASE ~Done(o)
    BY <2>2, TablesStay DEF Invariant, tables
  <2> QED
    BY <2>1, <2>2
<1>3. PICK pc \in {"find_reservation", "check_staging"} : Go(w, pc)
  OBVIOUS
<1> QED
  BY <1>2, <1>3, GoKeeps DEF Steps, RowSteps

\* Steps that only read what decides on cleaning up, or find out about a row.
LEMMA ReadsKeep ==
  ASSUME Invariant, NEW w \in Workers, NEW o \in ReadOutcomes,
         CheckStaging(w, o) \/ FindReservation(w, o) \/ CheckReservation(w, o)
  PROVE  Invariant'
<1>1. /\ TablesTyped' /\ UNCHANGED <<maintained, job, final>>
      /\ \A y \in FinalIds : Live(y) => Live(y)'
  BY TablesStay DEF Invariant, CheckStaging, FindReservation, CheckReservation
<1>2. worker[w].pc # "idle"
  BY DEF CheckStaging, FindReservation, CheckReservation
<1>3. CASE \E pc \in {"find_reservation", "reserve", "authority"} : Go(w, pc)
  BY <1>1, <1>2, <1>3, GoKeeps DEF Steps, RowSteps
<1>4. CASE \E x \in FinalRow : Update(w, [worker[w] EXCEPT !.pc = "promote", !.id = x])
  <2>1. PICK x \in FinalRow : Update(w, [worker[w] EXCEPT !.pc = "promote", !.id = x])
    BY <1>4
  <2>2. PICK r : r = [worker[w] EXCEPT !.pc = "promote", !.id = x]
    OBVIOUS
  <2>3. worker' = [worker EXCEPT ![w] = r]
    BY <2>1, <2>2 DEF Update
  <2>4. Knows(worker[w])
    BY DEF Invariant, WorkersTyped
  <2>5. Knows(r) /\ r.pc = "promote"
    BY <1>2, <2>2, <2>4 DEF Knows, LocalState, Steps, RowSteps, Ids, FinalRow
  <2>6. FinalRow' # {}
    BY <1>1, FinalRowStays
  <2>7. ASSUME ~maintained PROVE BlobOK' /\ Backed(r)'
    BY <2>5, <2>6 DEF BlobOK, Backed
  <2> QED
    BY <1>1, <1>2, <2>3, <2>5, <2>7, RequestKeeps
<1> QED
  BY <1>3, <1>4 DEF CheckStaging, FindReservation, CheckReservation, ReadReservation

\* The row of the final key is written before the blob.
LEMMA ReserveKeeps ==
  ASSUME Invariant, NEW w \in Workers, NEW o \in Outcomes, Reserve(w, o)
  PROVE  Invariant'
<1> USE DEF Reserve
<1> DEFINE x == Reserved(worker[w].n)
<1>1. x \in FinalIds /\ x \in Ids
  BY IdsDistinct DEF Invariant, WorkersTyped, Knows
<1>2. Temporary("staging", 0) \in Rows /\ Temporary("staging", 0).state = "staging"
  BY TemporaryTyped
<1>3. /\ TablesTyped' /\ UNCHANGED <<maintained, job, final>>
      /\ \A y \in FinalIds : Live(y) => Live(y)'
      /\ FinalRow = {} /\ Done(o) => FinalRow' # {}
  <2>1. CASE FinalRow = {} /\ Done(o)
    <3>1. row' = [row EXCEPT ![x] = Temporary("staging", 0)]
      BY <2>1
    <3> HIDE DEF x
    <3> QED
      BY <1>1, <1>2, <3>1, RowWritten DEF Invariant, TablesTyped
  <2>2. CASE ~(FinalRow = {} /\ Done(o))
    BY <2>2, TablesStay DEF Invariant, tables
  <2> QED
    BY <2>1, <2>2
<1>4. CASE Go(w, "check_reservation")
  BY <1>3, <1>4, GoKeeps DEF Steps, RowSteps
<1>5. CASE /\ Update(w, [worker[w] EXCEPT !.pc = "promote", !.id = x])
           /\ FinalRow' # {}
  <2>1. PICK r : r = [worker[w] EXCEPT !.pc = "promote", !.id = x]
    OBVIOUS
  <2>2. worker' = [worker EXCEPT ![w] = r]
    BY <1>5, <2>1 DEF Update
  <2>3. Knows(worker[w])
    BY DEF Invariant, WorkersTyped
  <2> HIDE DEF x
  <2>4. Knows(r) /\ r.pc = "promote"
    BY <1>1, <2>1, <2>3 DEF Knows, LocalState, Steps, RowSteps, Ids
  <2>5. ASSUME ~maintained PROVE BlobOK' /\ Backed(r)'
    BY <1>5, <2>4 DEF BlobOK, Backed
  <2> QED
    BY <1>3, <2>2, <2>4, <2>5, RequestKeeps
<1> QED
  BY <1>3, <1>4, <1>5 DEF Done

-----------------------------------------------------------------------------
\* A blob is put under the final key, which then has a row.
LEMMA PromoteKeeps ==
  ASSUME Invariant, NEW w \in Workers, NEW o \in Outcomes, Promote(w, o)
  PROVE  Invariant'
<1> USE DEF Promote
<1>1. faults' \in 0..MaxFaults
  BY FaultTyped DEF Invariant, TablesTyped
<1>2. etags' \in Nat /\ final' \in 0..etags' /\ final' \in Nat
  BY DEF Invariant, TablesTyped
<1>3. TablesTyped' /\ UNCHANGED <<maintained, job>>
  BY <1>1, <1>2 DEF Invariant, TablesTyped, tables
<1>4. Knows(worker[w])
  BY DEF Invariant, WorkersTyped
<1>5. PICK r : /\ worker' = [worker EXCEPT ![w] = r]
               /\ Knows(r)
               /\ r.pc \in {"find_promoted", "promote_again", "authority"}
  <2>1. CASE \E c \in BOOLEAN :
               Update(w, [worker[w] EXCEPT !.pc = "find_promoted", !.etag = final',
                                           !.cleanup = c])
    <3>1. PICK c \in BOOLEAN :
               Update(w, [worker[w] EXCEPT !.pc = "find_promoted", !.etag = final',
                                           !.cleanup = c])
      BY <2>1
    <3>2. PICK r : r = [worker[w] EXCEPT !.pc = "find_promoted", !.etag = final',
                                         !.cleanup = c]
      OBVIOUS
    <3>3. worker' = [worker EXCEPT ![w] = r]
      BY <3>1, <3>2 DEF Update
    <3>4. Knows(r) /\ r.pc = "find_promoted"
      BY <1>2, <1>4, <3>2 DEF Knows, LocalState, Steps, RowSteps
    <3> QED
      BY <3>3, <3>4
  <2>2. CASE \E pc \in {"promote_again", "authority"} : Go(w, pc)
    <3>1. PICK pc \in {"promote_again", "authority"} : Go(w, pc)
      BY <2>2
    <3>2. PICK r : r = [worker[w] EXCEPT !.pc = pc]
      OBVIOUS
    <3>3. worker' = [worker EXCEPT ![w] = r]
      BY <3>1, <3>2 DEF Go
    <3>4. Knows(r) /\ r.pc = pc
      BY <1>4, <3>2 DEF Knows, LocalState, Steps, RowSteps
    <3> QED
      BY <3>3, <3>4
  <2> QED
    BY <2>1, <2>2
<1>6. ASSUME ~maintained PROVE BlobOK' /\ Backed(r)'
  <2>1. FinalRow # {}
    BY <1>6 DEF Invariant, Alone, Backed
  <2>2. FinalRow' # {}
    BY <2>1, FinalRowStays DEF Live, tables
  <2> QED
    BY <1>5, <2>2 DEF BlobOK, Backed
<1> QED
  BY <1>3, <1>5, <1>6, RequestKeeps

\* The reads after a promotion, and of the export after an exception.
LEMMA PromotedReadsKeep ==
  ASSUME Invariant, NEW w \in Workers, NEW o \in ReadOutcomes,
         FindPromoted(w, o) \/ CheckPromoted(w, o) \/ CheckCreated(w, o)
  PROVE  Invariant'
<1>1. /\ TablesTyped' /\ UNCHANGED <<maintained, job, final>>
      /\ \A y \in FinalIds : Live(y) => Live(y)'
  BY TablesStay DEF Invariant, FindPromoted, CheckPromoted, CheckCreated
<1>2. worker[w].pc \in {"find_promoted", "check_promoted", "check_created"}
  BY DEF FindPromoted, CheckPromoted, CheckCreated
<1>3. CASE \E pc \in {"record_promoted", "create_promoted", "authority"} :
             Go(w, pc) /\ (pc \in RowSteps => worker[w].pc \in RowSteps)
  BY <1>1, <1>2, <1>3, GoKeeps DEF Steps, RowSteps
<1>4. CASE \E x \in FinalIds, adopt \in BOOLEAN : Continue(w, x, adopt)
  BY <1>1, <1>2, <1>4, ContinueKeeps
<1>5. worker[w].pc \in {"find_promoted", "check_promoted"} =>
        worker[w].id \in FinalIds
  BY DEF Invariant, WorkersTyped, Knows, RowSteps
<1>6. CASE FindPromoted(w, o)
  BY <1>3, <1>4, <1>6 DEF FindPromoted, RowSteps, FinalRow
<1>7. CASE CheckPromoted(w, o)
  BY <1>3, <1>4, <1>5, <1>7 DEF CheckPromoted, RowSteps
<1>8. CASE CheckCreated(w, o)
  BY <1>3, <1>4, <1>8 DEF CheckCreated, HoldsExport, IsExport, RowSteps, FinalRow
<1> QED
  BY <1>6, <1>7, <1>8

\* The row of the final key is given the etag of the blob.
LEMMA RecordPromotedKeeps ==
  ASSUME Invariant, NEW w \in Workers, NEW o \in Outcomes, RecordPromoted(w, o)
  PROVE  Invariant'
<1> USE DEF RecordPromoted
<1> DEFINE x == worker[w].id
           t == Temporary("quarantined", worker[w].etag)
<1>1. x \in FinalIds /\ x \in Ids /\ worker[w].etag \in Nat
  BY DEF Invariant, WorkersTyped, Knows, LocalState, RowSteps, Ids
<1>2. t \in Rows /\ t.state = "quarantined"
  BY <1>1, TemporaryTyped
<1>3. /\ TablesTyped' /\ UNCHANGED <<maintained, job, final>>
      /\ \A y \in FinalIds : Live(y) => Live(y)'
  <2>1. CASE AwaitsPromotion(x) /\ Done(o)
    <3>1. row' = [row EXCEPT ![x] = t]
      BY <2>1
    <3>2. expired' \subseteq Ids
      BY DEF Invariant, TablesTyped
    <3> HIDE DEF x, t
    <3> QED
      BY <1>1, <1>2, <3>1, <3>2, RowWritten DEF Invariant, TablesTyped
  <2>2. CASE ~(AwaitsPromotion(x) /\ Done(o))
    BY <2>2, TablesStay DEF Invariant, tables
  <2> QED
    BY <2>1, <2>2
<1>4. CASE Go(w, "check_promoted")
  BY <1>3, <1>4, GoKeeps DEF Steps, RowSteps
<1>5. CASE Continue(w, x, TRUE)
  BY <1>1, <1>3, <1>5, ContinueKeeps
<1> QED
  BY <1>4, <1>5

\* A row of its own for what was promoted.
LEMMA CreatePromotedKeeps ==
  ASSUME Invariant, NEW w \in Workers, NEW o \in Outcomes, CreatePromoted(w, o)
  PROVE  Invariant'
<1> USE DEF CreatePromoted
<1> DEFINE x == Promoted(worker[w].n)
           t == Temporary("quarantined", worker[w].etag)
<1>1. x \in FinalIds /\ x \in Ids /\ worker[w].etag \in Nat
  BY IdsDistinct DEF Invariant, WorkersTyped, Knows, LocalState
<1>2. t \in Rows /\ t.state = "quarantined"
  BY <1>1, TemporaryTyped
<1>3. /\ TablesTyped' /\ UNCHANGED <<maintained, job, final>>
      /\ \A y \in FinalIds : Live(y) => Live(y)'
  <2>1. CASE FinalRow = {} /\ Done(o)
    <3>1. row' = [row EXCEPT ![x] = t]
      BY <2>1
    <3> HIDE DEF x, t
    <3> QED
      BY <1>1, <1>2, <3>1, RowWritten DEF Invariant, TablesTyped
  <2>2. CASE ~(FinalRow = {} /\ Done(o))
    BY <2>2, TablesStay DEF Invariant, tables
  <2> QED
    BY <2>1, <2>2
<1>4. CASE Go(w, "check_created")
  BY <1>3, <1>4, GoKeeps DEF Steps, RowSteps
<1>5. CASE Continue(w, x, TRUE)
  BY <1>1, <1>3, <1>5, ContinueKeeps
<1> QED
  BY <1>4, <1>5

\* Adopting the row leaves it live.
LEMMA SaveKeeps ==
  ASSUME Invariant, NEW w \in Workers, NEW o \in Outcomes, Save(w, o)
  PROVE  Invariant'
<1> USE DEF Save
<1> DEFINE x == worker[w].id
           written == Adoptable(w) /\ exports[worker[w].key] = NoId /\ Done(o)
<1>1. x \in FinalIds /\ x \in Ids /\ worker[w].key \in Keys
  BY DEF Invariant, WorkersTyped, Knows, RowSteps, Ids
<1>2. exports' \in [Keys -> Ids \cup {NoId}]
  BY <1>1 DEF Invariant, TablesTyped
<1>3. expired' \subseteq Ids
  BY DEF Invariant, TablesTyped
<1>4. /\ TablesTyped' /\ UNCHANGED <<maintained, job, final>>
      /\ \A y \in FinalIds : Live(y) => Live(y)'
  <2>1. CASE written /\ worker[w].adopt
    <3>1. PICK r : r = [row[x] EXCEPT !.purpose = "export", !.state = "available"]
      OBVIOUS
    <3>2. r \in Rows /\ r.state = "available"
      <4>1. row[x] \in Rows
        BY <1>1 DEF Invariant, TablesTyped
      <4> HIDE DEF x
      <4> QED BY <3>1, <4>1 DEF Rows
    <3>3. row' = [row EXCEPT ![x] = r]
      BY <2>1, <3>1
    <3> HIDE DEF x, written
    <3> QED
      BY <1>1, <1>2, <1>3, <3>2, <3>3, RowWritten DEF Invariant, TablesTyped
  <2>2. CASE ~(written /\ worker[w].adopt)
    <3>1. faults' \in 0..MaxFaults
      BY FaultTyped DEF Invariant, TablesTyped
    <3>2. UNCHANGED <<row, expired>>
      BY <2>2
    <3> QED
      BY <1>2, <3>1, <3>2 DEF Invariant, TablesTyped, blobs, Live
  <2> QED
    BY <2>1, <2>2
<1>5. PICK pc \in {"drop_staged", "authority"} : Go(w, pc)
  OBVIOUS
<1> QED
  BY <1>4, <1>5, GoKeeps DEF Steps, RowSteps

\* Reading the export back decides whether the blob is dropped.
LEMMA AuthorityKeeps ==
  ASSUME Invariant, NEW w \in Workers, NEW o \in ReadOutcomes, Authority(w, o)
  PROVE  Invariant'
<1>1. PICK pc \in {"drop_final", "drop_staged"} : Go(w, pc)
  BY DEF Authority
<1>2. /\ TablesTyped' /\ UNCHANGED <<maintained, job, final>>
      /\ \A y \in FinalIds : Live(y) => Live(y)'
  BY TablesStay DEF Invariant, Authority
<1> QED
  BY <1>1, <1>2, GoKeeps DEF Authority, Steps, RowSteps

-----------------------------------------------------------------------------
\* The blob is gone if the delete is known to have succeeded.
LEMMA DropFinalKeeps ==
  ASSUME Invariant, NEW w \in Workers, NEW o \in Outcomes, DropFinal(w, o)
  PROVE  Invariant'
<1> USE DEF DropFinal
<1> DEFINE matches == final \in {0, worker[w].etag}
<1>1. faults' \in 0..MaxFaults
  BY FaultTyped DEF Invariant, TablesTyped
<1>2. TablesTyped' /\ UNCHANGED <<maintained, job>>
  BY <1>1 DEF Invariant, TablesTyped, tables
<1>3. Knows(worker[w])
  BY DEF Invariant, WorkersTyped
<1>4. PICK r : r = [worker[w] EXCEPT !.pc = "mark_final", !.ok = matches /\ o = "ok"]
  OBVIOUS
<1>5. worker' = [worker EXCEPT ![w] = r]
  BY <1>4 DEF Update
<1>6. Knows(r) /\ r.pc = "mark_final" /\ r.ok = (matches /\ o = "ok")
  BY <1>3, <1>4 DEF Knows, LocalState, Steps, RowSteps
<1>7. ASSUME ~maintained PROVE BlobOK' /\ Backed(r)'
  <2>1. FinalRow' = FinalRow
    BY DEF FinalRow, Live, tables
  <2>2. final' = 0 \/ final' = final
    OBVIOUS
  <2>3. r.ok => final' = 0
    BY <1>6 DEF Done
  <2> QED
    BY <1>6, <1>7, <2>1, <2>2, <2>3 DEF BlobOK, Backed, Invariant, Alone
<1> QED
  BY <1>2, <1>5, <1>6, <1>7, RequestKeeps

\* Marking a temporary row; a row of the final key stays live unless it is deleted.
LEMMA MarkRowTyped ==
  ASSUME TablesTyped, NEW x \in Ids \cup {NoId}, NEW ok \in BOOLEAN, NEW o,
         MarkRow(x, ok, o), Fault(o),
         UNCHANGED <<maintained, exports, blobs, requests>>
  PROVE  /\ TablesTyped' /\ UNCHANGED <<maintained, final>>
         /\ x \notin FinalIds \/ ~ok => \A y \in FinalIds : Live(y) => Live(y)'
<1>1. CASE x # NoId /\ Disposable(x) /\ Done(o)
  <2>1. row[x].etag \in Nat
    BY <1>1 DEF TablesTyped, Rows
  <2>2. PICK t : t = IF ok THEN Temporary("deleted", 0)
                     ELSE Temporary("quarantined", row[x].etag)
    OBVIOUS
  <2>3. t \in Rows /\ (~ok => t.state = "quarantined")
    BY <2>1, <2>2, TemporaryTyped
  <2>4. row' = [row EXCEPT ![x] = t]
    BY <1>1, <2>2 DEF MarkRow
  <2>5. expired' \subseteq Ids
    BY <1>1 DEF MarkRow, TablesTyped
  <2>6. exports' \in [Keys -> Ids \cup {NoId}]
    BY DEF TablesTyped
  <2> QED
    BY <1>1, <2>3, <2>4, <2>5, <2>6, RowWritten
<1>2. CASE ~(x # NoId /\ Disposable(x) /\ Done(o))
  BY <1>2, TablesStay DEF MarkRow, tables
<1> QED
  BY <1>1, <1>2

\* The row is marked as deleted only when the blob is gone.
LEMMA MarkFinalKeeps ==
  ASSUME Invariant, NEW w \in Workers, NEW o \in ReadOutcomes, MarkFinal(w, o)
  PROVE  Invariant'
<1> USE DEF MarkFinal
<1>1. Knows(worker[w])
  BY DEF Invariant, WorkersTyped
<1>2. worker[w].id \in Ids \cup {NoId} /\ worker[w].ok \in BOOLEAN
  BY <1>1 DEF Knows, LocalState
<1>3. /\ TablesTyped' /\ UNCHANGED <<maintained, job, final>>
      /\ ~worker[w].ok => \A y \in FinalIds : Live(y) => Live(y)'
  BY <1>2, MarkRowTyped DEF Invariant
<1>4. PICK r : r = [worker[w] EXCEPT !.pc = "drop_staged"]
  OBVIOUS
<1>5. worker' = [worker EXCEPT ![w] = r]
  BY <1>4 DEF Go
<1>6. Knows(r) /\ r.pc = "drop_staged"
  BY <1>1, <1>4 DEF Knows, LocalState, Steps, RowSteps
<1>7. ASSUME ~maintained PROVE BlobOK' /\ Backed(r)'
  <2>1. BlobOK /\ (worker[w].ok => final = 0)
    BY <1>7 DEF Invariant, Alone, Backed
  <2>2. CASE worker[w].ok
    BY <1>3, <1>6, <2>1, <2>2 DEF BlobOK, Backed
  <2>3. CASE ~worker[w].ok
    <3>1. FinalRow # {} => FinalRow' # {}
      BY <1>3, <2>3, FinalRowStays
    <3> QED
      BY <1>3, <1>6, <2>1, <3>1 DEF BlobOK, Backed
  <2> QED
    BY <2>2, <2>3
<1> QED
  BY <1>3, <1>5, <1>6, <1>7, RequestKeeps

\* Cleaning up the staged workbook does not touch the final key.
LEMMA DropStagedKeeps ==
  ASSUME Invariant, NEW w \in Workers, NEW o \in Outcomes, DropStaged(w, o)
  PROVE  Invariant'
<1> USE DEF DropStaged
<1>1. faults' \in 0..MaxFaults
  BY FaultTyped DEF Invariant, TablesTyped
<1>2. TablesTyped' /\ UNCHANGED <<maintained, job, final>>
  BY <1>1 DEF Invariant, TablesTyped, tables
<1>3. Knows(worker[w])
  BY DEF Invariant, WorkersTyped
<1>4. PICK r : r = [worker[w] EXCEPT !.pc = "mark_staged", !.ok = o = "ok"]
  OBVIOUS
<1>5. worker' = [worker EXCEPT ![w] = r]
  BY <1>4 DEF Update
<1>6. Knows(r) /\ r.pc = "mark_staged"
  BY <1>3, <1>4 DEF Knows, LocalState, Steps, RowSteps
<1>7. ASSUME ~maintained PROVE BlobOK' /\ Backed(r)'
  <2>1. FinalRow' = FinalRow
    BY DEF FinalRow, Live, tables
  <2> QED
    BY <1>2, <1>6, <1>7, <2>1 DEF BlobOK, Backed, Invariant, Alone
<1> QED
  BY <1>2, <1>5, <1>6, <1>7, RequestKeeps

\* Neither does marking its row.
LEMMA MarkStagedKeeps ==
  ASSUME Invariant, NEW w \in Workers, NEW o \in ReadOutcomes, MarkStaged(w, o)
  PROVE  Invariant'
<1> USE DEF MarkStaged
<1>1. /\ Staged(worker[w].n) \in Ids /\ Staged(worker[w].n) \notin FinalIds
      /\ worker[w].ok \in BOOLEAN
  BY IdsDistinct DEF Invariant, WorkersTyped, Knows, LocalState
<1>2. /\ TablesTyped' /\ UNCHANGED <<maintained, job, final>>
      /\ \A y \in FinalIds : Live(y) => Live(y)'
  BY <1>1, MarkRowTyped DEF Invariant
<1> QED
  BY <1>2, LeaveKeeps

\* A request thread can stop anywhere.
LEMMA CrashKeeps ==
  ASSUME Invariant, NEW w \in Workers, Crash(w)
  PROVE  Invariant'
<1>1. /\ TablesTyped' /\ UNCHANGED <<maintained, job, final>>
      /\ \A y \in FinalIds : Live(y) => Live(y)'
  BY TablesStay DEF Invariant, Crash
<1> QED
  BY <1>1, LeaveKeeps DEF Crash

\* A step of a request keeps the invariant.
LEMMA RequestKeepsInvariant ==
  ASSUME Invariant, NEW w \in Workers, Request(w)
  PROVE  Invariant'
<1>1. CASE \E k \in Keys, o \in Outcomes : Start(w, k, o)
  BY <1>1, StartKeeps
<1>2. ASSUME NEW o \in Outcomes,
             \/ RecordStaging(w, o) \/ Reserve(w, o) \/ Promote(w, o)
             \/ RecordPromoted(w, o) \/ CreatePromoted(w, o) \/ Save(w, o)
             \/ DropFinal(w, o) \/ DropStaged(w, o)
      PROVE  Invariant'
  BY <1>2, RecordStagingKeeps, ReserveKeeps, PromoteKeeps, RecordPromotedKeeps,
     CreatePromotedKeeps, SaveKeeps, DropFinalKeeps, DropStagedKeeps
<1>3. ASSUME NEW o \in ReadOutcomes,
             \/ CheckStaging(w, o) \/ FindReservation(w, o) \/ CheckReservation(w, o)
             \/ FindPromoted(w, o) \/ CheckPromoted(w, o) \/ CheckCreated(w, o)
             \/ Authority(w, o) \/ MarkFinal(w, o) \/ MarkStaged(w, o)
      PROVE  Invariant'
  BY <1>3, ReadsKeep, PromotedReadsKeep, AuthorityKeeps, MarkFinalKeeps, MarkStagedKeeps
<1>4. CASE Crash(w)
  BY <1>4, CrashKeeps
<1> QED
  BY <1>1, <1>2, <1>3, <1>4 DEF Request

-----------------------------------------------------------------------------
(***************************************************************************)
(* The steps of the job, which takes none where it is not deployed.        *)
(***************************************************************************)
\* A step that needs the job keeps the invariant if it leaves the requests alone.
LEMMA JobKeeps ==
  ASSUME Invariant, maintained, UNCHANGED <<maintained, worker>>,
         TablesTyped', JobTyped'
  PROVE  Invariant'
<1>1. OneRequest' /\ WorkersTyped'
  BY DEF Invariant, OneRequest, WorkersTyped
<1>2. Alone'
  BY DEF Alone
<1> QED
  BY <1>1, <1>2 DEF Invariant

\* The idle job is typed.
LEMMA IdleJobTyped ==
  ASSUME job' = IdleJob
  PROVE  JobTyped'
BY DEF JobTyped, JobState, JobSteps, IdleJob

\* Without the job, it is idle.
LEMMA JobDeployed ==
  ASSUME Invariant, job.pc # "idle"
  PROVE  maintained
  BY DEF Invariant, Alone

\* Time passes.
LEMMA ExpireKeeps ==
  ASSUME Invariant, NEW x \in Ids, Expire(x)
  PROVE  Invariant'
<1>1. TablesTyped'
  BY DEF Expire, Invariant, TablesTyped, blobs
<1>2. JobTyped'
  BY DEF Expire, Invariant, JobTyped
<1> QED
  BY <1>1, <1>2, JobKeeps DEF Expire

\* The job reads expired rows.
LEMMA StartJobKeeps ==
  ASSUME Invariant, StartJob
  PROVE  Invariant'
<1> USE DEF StartJob
<1>1. TablesTyped'
  BY DEF Invariant, TablesTyped, tables, blobs
<1> DEFINE todo == {<<x, row[x].etag>> : x \in {y \in expired : Disposable(y)}}
<1>2. todo \subseteq Ids \X Nat
  BY DEF Invariant, TablesTyped, Rows
<1>3. JobTyped'
  <2>1. job' = [job EXCEPT !.pc = "expire", !.todo = todo]
    OBVIOUS
  <2> HIDE DEF todo
  <2> QED
    BY ZenonT(30), <1>2, <2>1 DEF Invariant, JobTyped, JobState, JobSteps
<1> QED
  BY <1>1, <1>3, JobKeeps

\* The job deletes a blob.
LEMMA DeleteExpiredKeeps ==
  ASSUME Invariant, NEW o \in Outcomes, DeleteExpired(o)
  PROVE  Invariant'
<1> USE DEF DeleteExpired
<1>1. faults' \in 0..MaxFaults
  BY FaultTyped DEF Invariant, TablesTyped
<1>2. PICK r \in job.todo :
        /\ IF r[1] \in FinalIds
           THEN /\ final' = IF EtagHolds(r[2]) /\ Done(o) THEN 0 ELSE final
                /\ UNCHANGED staged
           ELSE /\ staged' = IF Done(o) THEN staged \ {r[1][2]} ELSE staged
                /\ UNCHANGED final
        /\ job' = [job EXCEPT
             !.pc = "mark", !.cur = r[1], !.todo = @ \ {r},
             !.ok = o = "ok" /\ (r[1] \in FinalIds => EtagHolds(r[2]))]
  OBVIOUS
<1>3. final' \in 0..etags' /\ staged' \subseteq Requests
  BY <1>2 DEF Invariant, TablesTyped
<1>4. TablesTyped'
  BY <1>1, <1>3 DEF Invariant, TablesTyped, tables
<1>5. r[1] \in Ids
  BY <1>2 DEF Invariant, JobTyped
<1>6. PICK ok : ok = (o = "ok" /\ (r[1] \in FinalIds => EtagHolds(r[2])))
  OBVIOUS
<1>7. ok \in BOOLEAN
  BY <1>6
<1>8. job' = [job EXCEPT !.pc = "mark", !.cur = r[1], !.todo = @ \ {r}, !.ok = ok]
  BY <1>2, <1>6
<1>9. JobTyped'
  BY <1>5, <1>7, <1>8 DEF Invariant, JobTyped, JobState, JobSteps
<1> QED
  BY <1>4, <1>9, JobDeployed, JobKeeps

\* The job marks the row, or ends.
LEMMA MarkExpiredKeeps ==
  ASSUME Invariant, MarkExpired
  PROVE  Invariant'
<1> USE DEF MarkExpired
<1> DEFINE x == job.cur
<1>1. x \in Ids /\ job.todo \subseteq Ids \X Nat /\ job.ok \in BOOLEAN
  BY DEF Invariant, JobTyped, JobState
<1>2. CASE Markable(x, job.ok)
  <2>1. PICK t : t = IF job.ok THEN Temporary("deleted", 0)
                     ELSE [row[x] EXCEPT !.state = "quarantined"]
    OBVIOUS
  <2>2. t \in Rows
    BY <1>1, <2>1, TemporaryTyped DEF Invariant, TablesTyped, Rows
  <2>3. row' = [row EXCEPT ![x] = t]
    BY <1>1, <1>2, <2>1 DEF Invariant, TablesTyped
  <2>4. row' \in [Ids -> Rows] /\ expired' \subseteq Ids
    BY <1>1, <1>2, <2>2, <2>3 DEF Invariant, TablesTyped
  <2>5. TablesTyped'
    BY <2>4 DEF Invariant, TablesTyped, blobs
  <2>6. JobTyped'
    BY <1>1, <1>2 DEF JobTyped, JobState, JobSteps, IdleJob
  <2> QED
    BY <2>5, <2>6, JobDeployed, JobKeeps
<1>3. CASE ~Markable(x, job.ok)
  <2>1. TablesTyped'
    BY <1>3 DEF Invariant, TablesTyped, blobs
  <2>2. JobTyped'
    BY <1>3, IdleJobTyped
  <2> QED
    BY <2>1, <2>2, JobDeployed, JobKeeps
<1> QED
  BY <1>2, <1>3

\* The inventory reads, and the job can stop anywhere.
LEMMA InventoryKeeps ==
  ASSUME Invariant, ListBlobs \/ CompareRows \/ CrashJob
  PROVE  Invariant'
<1>1. TablesTyped'
  <2>1. faults' \in 0..MaxFaults
    BY FaultTyped DEF Invariant, TablesTyped, ListBlobs, CompareRows, CrashJob
  <2> QED
    BY <2>1 DEF Invariant, TablesTyped, ListBlobs, CompareRows, CrashJob, tables, blobs
<1>2. JobTyped'
  <2>1. CASE ListBlobs
    <3>1. PICK seen : seen = {x \in Ids : HasBlob(x)}
      OBVIOUS
    <3>2. job' = [job EXCEPT !.pc = "compare", !.seen = seen] /\ seen \subseteq Ids
      BY <2>1, <3>1 DEF ListBlobs
    <3> QED
      BY <3>2 DEF Invariant, JobTyped, JobState, JobSteps
  <2>2. CASE CompareRows
    <3>1. PICK todo : todo = {x \in Ids : Live(x)} \ job.seen
      OBVIOUS
    <3>2. job' = [IdleJob EXCEPT !.pc = "quarantine", !.todo = todo]
      BY <2>2, <3>1 DEF CompareRows
    <3>3. todo \subseteq Ids
      BY <3>1
    <3> QED
      BY <3>2, <3>3 DEF JobTyped, JobState, JobSteps, IdleJob
  <2>3. CASE CrashJob
    BY <2>3, IdleJobTyped DEF CrashJob
  <2> QED
    BY <2>1, <2>2, <2>3
<1>3. job.pc # "idle" /\ UNCHANGED <<maintained, worker>>
  BY DEF ListBlobs, CompareRows, CrashJob
<1> QED
  BY <1>1, <1>2, <1>3, JobDeployed, JobKeeps

\* The inventory quarantines.
LEMMA QuarantineMissingKeeps ==
  ASSUME Invariant, QuarantineMissing
  PROVE  Invariant'
<1> USE DEF QuarantineMissing
<1>1. row' \in [Ids -> Rows]
  BY DEF Invariant, TablesTyped, Rows
<1>2. TablesTyped'
  BY <1>1 DEF Invariant, TablesTyped, blobs
<1>3. JobTyped'
  BY IdleJobTyped
<1> QED
  BY <1>2, <1>3, JobDeployed, JobKeeps

-----------------------------------------------------------------------------
\* Every step, and every step that changes nothing, keeps the invariant.
LEMMA NextInvariant == Invariant /\ [Next]_vars => Invariant'
<1> SUFFICES ASSUME Invariant, [Next]_vars PROVE Invariant'
  OBVIOUS
<1>1. CASE \E w \in Workers : Request(w)
  BY <1>1, RequestKeepsInvariant
<1>2. CASE \E x \in Ids : Expire(x)
  BY <1>2, ExpireKeeps
<1>3. CASE Maintenance \/ CrashJob
  BY <1>3, StartJobKeeps, DeleteExpiredKeeps, MarkExpiredKeeps, InventoryKeeps,
     QuarantineMissingKeeps DEF Maintenance
<1>4. CASE UNCHANGED vars
  BY <1>4 DEF vars, tables, blobs, Invariant, TablesTyped, OneRequest, JobTyped,
     WorkersTyped, Alone, BlobOK, Backed, FinalRow, Live
<1> QED
  BY <1>1, <1>2, <1>3, <1>4 DEF Next

(***************************************************************************)
(* The row of an export.  It holds the final key, so that no other row is  *)
(* written under that key, and its purpose keeps it from those that mark   *)
(* temporary rows.                                                         *)
(***************************************************************************)
IsKept(x) == x \in FinalIds /\ Live(x) /\ row[x].purpose = "export"

\* A request that adopts no row has found that of an earlier export.
ExportsOK ==
  /\ \A k \in Keys : exports[k] # NoId => IsKept(exports[k])
  /\ \A w \in Workers :
       worker[w].pc = "save" /\ ~worker[w].adopt => IsKept(worker[w].id)

\* A row that is marked as deleted or for a later cleanup is not that of an export.
LEMMA MarkRowSpares ==
  ASSUME TablesTyped, NEW y \in Ids \cup {NoId}, NEW ok, NEW o, MarkRow(y, ok, o),
         NEW x, IsKept(x)
  PROVE  IsKept(x)'
<1>1. x \in Ids
  BY DEF IsKept, Ids
<1>2. x = y => ~Disposable(y)
  BY DEF IsKept, Disposable
<1> QED
  BY <1>1, <1>2 DEF MarkRow, IsKept, Live, TablesTyped

\* No step takes the row of an export for something else.
LEMMA KeptStays ==
  ASSUME Invariant, [Next]_vars, NEW x, IsKept(x)
  PROVE  IsKept(x)'
<1>1. x \in FinalIds /\ x \in Ids /\ FinalRow # {} /\ row \in [Ids -> Rows]
  BY DEF IsKept, Ids, FinalRow, Invariant, TablesTyped
<1>2. CASE UNCHANGED row
  BY <1>2 DEF IsKept, Live
<1>3. ASSUME NEW w \in Workers, Request(w), ~UNCHANGED row
      PROVE  IsKept(x)'
  <2>1. Knows(worker[w])
    BY DEF Invariant, WorkersTyped
  <2>2. CASE \E o \in Outcomes : RecordStaging(w, o)
    <3>1. Staged(worker[w].n) \notin FinalIds
      BY <2>1, <2>2, IdsDistinct DEF Knows, RecordStaging
    <3> QED
      BY <1>1, <2>2, <3>1 DEF RecordStaging, IsKept, Live
  <2>3. CASE \E o \in Outcomes : Reserve(w, o) \/ CreatePromoted(w, o)
    BY <1>1, <1>3, <2>3 DEF Reserve, CreatePromoted
  <2>4. CASE \E o \in Outcomes : RecordPromoted(w, o)
    <3>1. x = worker[w].id => ~AwaitsPromotion(x)
      BY DEF IsKept, AwaitsPromotion
    <3> QED
      BY <1>1, <2>4, <3>1 DEF RecordPromoted, IsKept, Live
  <2>5. CASE \E o \in Outcomes : Save(w, o)
    BY <1>1, <2>5 DEF Save, IsKept, Live, Rows
  <2>6. CASE \E o \in ReadOutcomes : MarkFinal(w, o)
    <3>1. worker[w].id \in Ids \cup {NoId}
      BY <2>1 DEF Knows, LocalState
    <3> QED
      BY <2>6, <3>1, MarkRowSpares DEF MarkFinal, Invariant
  <2>7. CASE \E o \in ReadOutcomes : MarkStaged(w, o)
    <3>1. Staged(worker[w].n) \in Ids
      BY <2>1, <2>7, IdsDistinct DEF Knows, MarkStaged
    <3> QED
      BY <2>7, <3>1, MarkRowSpares DEF MarkStaged, Invariant
  <2> QED
    BY <1>3, <2>2, <2>3, <2>4, <2>5, <2>6, <2>7 DEF Request, tables, Start, CheckStaging,
       FindReservation, CheckReservation, Promote, FindPromoted, CheckPromoted,
       CheckCreated, Authority, DropFinal, DropStaged, Crash
<1>4. CASE MarkExpired
  <2>1. Disposable(job.cur) => x # job.cur
    BY DEF IsKept, Disposable
  <2> QED
    BY <1>1, <1>4, <2>1 DEF MarkExpired, Markable, IsKept, Live, Rows
<1>5. CASE QuarantineMissing
  BY <1>1, <1>5 DEF QuarantineMissing, IsKept, Live, Rows
<1> QED
  BY <1>2, <1>3, <1>4, <1>5 DEF Next, vars, tables, Expire, Maintenance, StartJob,
     DeleteExpired, ListBlobs, CompareRows, CrashJob

\* A request changes its own local state only.
Moves(w) == \E r : worker' = [worker EXCEPT ![w] = r]

\* What the steps of a request do to the local states.
LEMMA StepMoves ==
  ASSUME NEW w \in Workers
  PROVE  /\ \A pc : Go(w, pc) => Moves(w)
         /\ \A r : Update(w, r) => Moves(w)
         /\ \A x, adopt : Continue(w, x, adopt) => Moves(w)
         /\ Leave(w) => Moves(w)
<1>1. ASSUME NEW pc, Go(w, pc) PROVE Moves(w)
  <2>1. worker' = [worker EXCEPT ![w] = [worker[w] EXCEPT !.pc = pc]]
    BY <1>1 DEF Go
  <2> QED
    BY <2>1 DEF Moves
<1>2. ASSUME NEW r, Update(w, r) PROVE Moves(w)
  BY <1>2 DEF Update, Moves
<1>3. ASSUME NEW x, NEW adopt, Continue(w, x, adopt) PROVE Moves(w)
  BY <1>2, <1>3 DEF Continue
<1>4. ASSUME Leave(w) PROVE Moves(w)
  BY <1>4 DEF Leave, Moves
<1> QED
  BY <1>1, <1>2, <1>3, <1>4

\* No request changes the local state of another.
LEMMA RequestMoves ==
  ASSUME Invariant, NEW w \in Workers, Request(w)
  PROVE  Moves(w)
<1>1. CASE \E k \in Keys, o \in Outcomes : Start(w, k, o)
  BY <1>1, StepMoves DEF Start
<1>2. CASE \E o \in Outcomes : RecordStaging(w, o) \/ Reserve(w, o) \/ Promote(w, o)
  BY <1>2, StepMoves DEF RecordStaging, Reserve, Promote
<1>3. CASE \E o \in Outcomes : RecordPromoted(w, o) \/ CreatePromoted(w, o) \/ Save(w, o)
  BY <1>3, StepMoves DEF RecordPromoted, CreatePromoted, Save
<1>4. CASE \E o \in Outcomes : DropFinal(w, o) \/ DropStaged(w, o)
  BY <1>4, StepMoves DEF DropFinal, DropStaged
<1>5. CASE \E o \in ReadOutcomes :
             CheckStaging(w, o) \/ FindReservation(w, o) \/ CheckReservation(w, o)
  BY <1>5, StepMoves DEF CheckStaging, FindReservation, CheckReservation, ReadReservation
<1>6. CASE \E o \in ReadOutcomes :
             FindPromoted(w, o) \/ CheckPromoted(w, o) \/ CheckCreated(w, o)
  BY <1>6, StepMoves DEF FindPromoted, CheckPromoted, CheckCreated
<1>7. CASE \E o \in ReadOutcomes : Authority(w, o) \/ MarkFinal(w, o) \/ MarkStaged(w, o)
  BY <1>7, StepMoves DEF Authority, MarkFinal, MarkStaged
<1>8. CASE Crash(w)
  BY <1>8, StepMoves DEF Crash
<1> QED
  BY <1>1, <1>2, <1>3, <1>4, <1>5, <1>6, <1>7, <1>8 DEF Request

\* A request reaches the transaction without a row to adopt only from a read that
\* has found the row of an export.
LEMMA SaveFindsExport ==
  ASSUME Invariant, ExportsOK, [Next]_vars, NEW w \in Workers,
         worker'[w].pc = "save", ~worker'[w].adopt
  PROVE  IsKept(worker'[w].id)
<1>1. Knows(worker[w]) /\ worker = [v \in Workers |-> worker[v]]
  BY DEF Invariant, WorkersTyped
<1>2. CASE worker'[w] = worker[w]
  BY <1>2 DEF ExportsOK
<1>3. ASSUME Request(w), worker'[w] # worker[w]
      PROVE  IsKept(worker'[w].id)
  <2>1. ASSUME NEW x \in FinalIds, NEW adopt \in BOOLEAN, Continue(w, x, adopt)
        PROVE  worker'[w].id = x /\ worker'[w].adopt = adopt
    BY <1>1, <2>1 DEF Continue, Update, Knows, LocalState
  <2>2. CASE \E o \in ReadOutcomes : FindPromoted(w, o) \/ CheckCreated(w, o)
    <3>1. CASE \E x \in FinalRow, adopt \in BOOLEAN :
                 Continue(w, x, adopt) /\ (~adopt => IsExport(x))
      BY <2>1, <3>1 DEF FinalRow, IsKept, IsExport
    <3>2. CASE \E pc \in {"authority", "record_promoted", "create_promoted"} : Go(w, pc)
      BY <1>1, <3>2 DEF Go, Knows, LocalState
    <3> QED
      BY <2>2, <3>1, <3>2 DEF FindPromoted, CheckCreated, HoldsExport, IsExport
  <2>3. CASE \E o \in Outcomes : RecordPromoted(w, o) \/ CreatePromoted(w, o)
    <3>1. worker[w].pc = "record_promoted" => worker[w].id \in FinalIds
      BY <1>1 DEF Knows, RowSteps
    <3>2. worker[w].pc = "create_promoted" => Promoted(worker[w].n) \in FinalIds
      BY <1>1, IdsDistinct DEF Knows
    <3>3. CASE \E x \in FinalIds : Continue(w, x, TRUE)
      BY <2>1, <3>3
    <3>4. CASE \E pc \in {"check_promoted", "check_created"} : Go(w, pc)
      BY <1>1, <3>4 DEF Go, Knows, LocalState
    <3> QED
      BY <2>3, <3>1, <3>2, <3>3, <3>4 DEF RecordPromoted, CreatePromoted
  <2>4. CASE \E o \in ReadOutcomes : CheckPromoted(w, o)
    <3>1. worker[w].pc = "check_promoted" => worker[w].id \in FinalIds
      BY <1>1 DEF Knows, RowSteps
    <3>2. CASE Continue(w, worker[w].id, TRUE)
      BY <2>1, <2>4, <3>1, <3>2 DEF CheckPromoted
    <3>3. CASE Go(w, "authority")
      BY <1>1, <3>3 DEF Go, Knows, LocalState
    <3> QED
      BY <2>4, <3>2, <3>3 DEF CheckPromoted
  <2>5. CASE worker'[w].pc # "save"
    BY <2>5
  <2>6. CASE \E pc \in Steps \ {"save"} : Go(w, pc)
    BY <1>1, <2>6 DEF Go, Knows, LocalState
  <2>7. CASE \E r : r.pc # "save" /\ Update(w, r)
    BY <1>1, <2>7 DEF Update
  <2>8. CASE Leave(w)
    BY <1>1, <2>8 DEF Leave, IdleWorker
  <2>9. CASE \E k \in Keys, o \in Outcomes : Start(w, k, o)
    BY <2>7, <2>8, <2>9 DEF Start, IdleWorker
  <2>10. CASE \E o \in ReadOutcomes :
                CheckStaging(w, o) \/ FindReservation(w, o) \/ CheckReservation(w, o)
    <3>1. ASSUME NEW x, Update(w, [worker[w] EXCEPT !.pc = "promote", !.id = x])
          PROVE  worker'[w].pc # "save"
      BY <1>1, <3>1 DEF Update, Knows, LocalState
    <3> QED
      BY <2>5, <2>6, <2>10, <3>1
         DEF CheckStaging, FindReservation, CheckReservation, ReadReservation, Steps, RowSteps
  <2>11. CASE \E o \in Outcomes : RecordStaging(w, o) \/ Save(w, o)
    BY <2>6, <2>11 DEF RecordStaging, Save, Steps, RowSteps
  <2>12. CASE \E o \in Outcomes : Reserve(w, o)
    <3>1. ASSUME NEW x, Update(w, [worker[w] EXCEPT !.pc = "promote", !.id = x])
          PROVE  worker'[w].pc # "save"
      BY <1>1, <3>1 DEF Update, Knows, LocalState
    <3> QED
      BY <2>5, <2>6, <2>12, <3>1 DEF Reserve, Steps, RowSteps
  <2>13. CASE \E o \in Outcomes : Promote(w, o)
    <3>1. ASSUME NEW e, NEW c,
                 Update(w, [worker[w] EXCEPT !.pc = "find_promoted", !.etag = e, !.cleanup = c])
          PROVE  worker'[w].pc # "save"
      BY <1>1, <3>1 DEF Update, Knows, LocalState
    <3> QED
      BY <2>5, <2>6, <2>13, <3>1 DEF Promote, Steps, RowSteps
  <2>14. CASE \E o \in Outcomes : DropFinal(w, o) \/ DropStaged(w, o)
    <3>1. ASSUME NEW pc \in {"mark_final", "mark_staged"}, NEW ok,
                 Update(w, [worker[w] EXCEPT !.pc = pc, !.ok = ok])
          PROVE  worker'[w].pc # "save"
      BY <1>1, <3>1 DEF Update, Knows, LocalState
    <3> QED
      BY <2>5, <2>14, <3>1 DEF DropFinal, DropStaged
  <2>15. CASE \E o \in ReadOutcomes : Authority(w, o) \/ MarkFinal(w, o) \/ MarkStaged(w, o)
    BY <2>6, <2>8, <2>15 DEF Authority, MarkFinal, MarkStaged, Steps, RowSteps
  <2>16. CASE Crash(w)
    BY <2>8, <2>16 DEF Crash
  <2> QED
    BY <1>3, <2>2, <2>3, <2>4, <2>9, <2>10, <2>11, <2>12, <2>13, <2>14, <2>15, <2>16 DEF Request
<1>4. ASSUME NEW v \in Workers, v # w, Request(v)
      PROVE  worker'[w] = worker[w]
  BY <1>1, <1>4, RequestMoves DEF Moves
<1>5. CASE UNCHANGED worker
  BY <1>2, <1>5
<1> QED
  BY <1>2, <1>3, <1>4, <1>5 DEF Next, vars, Expire, Maintenance, StartJob, DeleteExpired,
     MarkExpired, ListBlobs, CompareRows, QuarantineMissing, CrashJob

\* The transaction is the only step that writes an export.
LEMMA OnlySaveExports ==
  ASSUME [Next]_vars
  PROVE  \/ UNCHANGED exports
         \/ \E w \in Workers, o \in Outcomes : Save(w, o)
<1>1. ASSUME NEW w \in Workers, Request(w)
      PROVE  UNCHANGED exports \/ \E o \in Outcomes : Save(w, o)
  BY <1>1 DEF tables, Request, Start, RecordStaging, CheckStaging, FindReservation,
     Reserve, CheckReservation, Promote, FindPromoted, RecordPromoted, CheckPromoted,
     CreatePromoted, CheckCreated, Authority, DropFinal, MarkFinal, DropStaged,
     MarkStaged, Crash
<1>2. CASE Maintenance \/ CrashJob \/ \E x \in Ids : Expire(x)
  BY <1>2 DEF tables, Maintenance, StartJob, DeleteExpired, MarkExpired, ListBlobs,
     CompareRows, QuarantineMissing, CrashJob, Expire
<1>3. CASE UNCHANGED vars
  BY <1>3 DEF vars, tables
<1> QED
  BY <1>1, <1>2, <1>3 DEF Next

\* The rows of exports stay exports, from the first to the last.
LEMMA ExportsInvariant == Invariant /\ ExportsOK /\ [Next]_vars => ExportsOK'
<1> SUFFICES ASSUME Invariant, ExportsOK, [Next]_vars PROVE ExportsOK'
  OBVIOUS
<1>1. ASSUME NEW w \in Workers, worker'[w].pc = "save", ~worker'[w].adopt
      PROVE  IsKept(worker[w].id)'
  <2>1. PICK x : x = worker'[w].id
    OBVIOUS
  <2>2. IsKept(x)
    BY <1>1, <2>1, SaveFindsExport
  <2>3. IsKept(x)'
    BY <2>2, KeptStays
  <2> QED
    BY <2>1, <2>3 DEF IsKept, Live
<1>2. ASSUME NEW k \in Keys, exports'[k] # NoId
      PROVE  IsKept(exports[k])'
  <2>1. PICK x : x = exports'[k]
    OBVIOUS
  <2>2. CASE x = exports[k]
    <3>1. IsKept(x)
      BY <1>2, <2>1, <2>2 DEF ExportsOK
    <3>2. IsKept(x)'
      BY <3>1, KeptStays
    <3> QED
      BY <2>1, <3>2 DEF IsKept, Live
  <2>3. CASE x # exports[k]
    <3>1. PICK w \in Workers, o \in Outcomes : Save(w, o)
      BY <2>1, <2>3, OnlySaveExports
    <3>2. /\ x = worker[w].id /\ worker[w].pc = "save" /\ Adoptable(w)
          /\ worker[w].adopt =>
               row' = [row EXCEPT ![x].purpose = "export", ![x].state = "available"]
      BY <2>1, <2>3, <3>1 DEF Save, Invariant, TablesTyped
    <3>3. x \in FinalIds /\ x \in Ids
      BY <3>2 DEF Invariant, WorkersTyped, Knows, RowSteps, Ids
    <3>4. CASE worker[w].adopt
      <4>1. row'[x].purpose = "export" /\ row'[x].state = "available"
        BY <3>2, <3>3, <3>4 DEF Invariant, TablesTyped, Rows
      <4> QED
        BY <2>1, <3>3, <4>1 DEF IsKept, Live
    <3>5. CASE ~worker[w].adopt
      <4>1. IsKept(x)
        BY <3>2, <3>5 DEF ExportsOK
      <4>2. IsKept(x)'
        BY <4>1, KeptStays
      <4> QED
        BY <2>1, <4>2 DEF IsKept, Live
    <3> QED
      BY <3>4, <3>5
  <2> QED
    BY <2>2, <2>3
<1> QED
  BY <1>1, <1>2 DEF ExportsOK

\* An export keeps its row.
LEMMA ExportsStay ==
  ASSUME Invariant, ExportsOK, [Next]_vars, NEW k \in Keys, exports[k] # NoId
  PROVE  /\ exports'[k] = exports[k]
         /\ row'[exports[k]].purpose = "export"
         /\ row'[exports[k]].state # "deleted"
<1>1. IsKept(exports[k])
  BY DEF ExportsOK
<1>2. PICK x : x = exports[k]
  OBVIOUS
<1>3. IsKept(x)'
  BY <1>1, <1>2, KeptStays
<1>4. exports'[k] = exports[k]
  <2>1. CASE \E w \in Workers, o \in Outcomes : Save(w, o)
    <3>1. PICK w \in Workers, o \in Outcomes : Save(w, o)
      BY <2>1
    <3>2. CASE exports[worker[w].key] = NoId
      BY <3>1, <3>2 DEF Save, Invariant, TablesTyped
    <3>3. CASE exports[worker[w].key] # NoId
      BY <3>1, <3>3 DEF Save
    <3> QED
      BY <3>2, <3>3
  <2>2. CASE UNCHANGED exports
    BY <2>2
  <2> QED
    BY <2>1, <2>2, OnlySaveExports
<1> QED
  BY <1>2, <1>3, <1>4 DEF IsKept, Live

\* ActionService.export and the job keep every table as its columns allow, and the
\* exports of a card run one after the other.
THEOREM TypeCorrect == Spec => []TypeOK
<1>1. Spec => []Invariant
  BY InitInvariant, NextInvariant, PTL DEF Spec
<1> QED
  BY <1>1, InvariantImplies, PTL

\* Where only requests run, however many of them fail or crash at whatever step, a
\* blob under the final key has a row: a later request or the job can find it.
THEOREM BlobsAreFound == Spec => []FinalBlobHasRow
<1>1. Spec => []Invariant
  BY InitInvariant, NextInvariant, PTL DEF Spec
<1> QED
  BY <1>1, InvariantImplies, PTL

\* With or without the job, whatever fails: nothing deletes the row of an export or
\* takes it for a temporary one, and an export never moves to another row.
THEOREM ExportsKept == Spec => ExportsAreKept
<1>1. Init => ExportsOK
  <2> SUFFICES ASSUME Init PROVE ExportsOK
    OBVIOUS
  <2>1. \A k \in Keys : exports[k] = NoId
    BY DEF Init
  <2>2. \A w \in Workers : worker[w].pc = "idle"
    BY DEF Init, IdleWorker
  <2> QED
    BY <2>1, <2>2 DEF ExportsOK
<1>2. Invariant /\ ExportsOK /\ [Next]_vars =>
        [\A k \in Keys : exports[k] # NoId =>
           /\ exports'[k] = exports[k]
           /\ row'[exports[k]].purpose = "export"
           /\ row'[exports[k]].state # "deleted"]_vars
  BY ExportsStay
<1> QED
  BY <1>1, <1>2, InitInvariant, NextInvariant, ExportsInvariant, PTL DEF Spec, ExportsAreKept

-----------------------------------------------------------------------------
(***************************************************************************)
(* One failure, and no job: the blob of an export is dropped by nobody.  A *)
(* request drops what it has promoted itself, which it did when there was  *)
(* no export; unless its own transaction was in doubt, which is the one    *)
(* failure, so that reading the export back succeeds.                      *)
(***************************************************************************)
Calm == ~maintained /\ faults <= 1
NoExport == \A x \in FinalIds : ~IsExport(x)

Early ==
  {"record_staging", "check_staging", "find_reservation", "reserve", "check_reservation",
   "promote", "promote_again"}
Late ==
  {"find_promoted", "record_promoted", "check_promoted", "create_promoted",
   "check_created", "save"}

OpenTables ==
  /\ \A x \in FinalIds : IsExport(x) => final # 0 /\ row[x].etag = final
  /\ \A k \in Keys : exports[k] # NoId => exports[k] \in FinalIds /\ IsExport(exports[k])
  /\ \A x, y \in FinalRow : x = y

Opens(r) ==
  /\ r.pc \in Early => ~r.cleanup
  /\ r.pc \in Late => final # 0 /\ r.etag = final /\ (r.cleanup => NoExport)
  /\ r.pc = "save" => IF r.adopt THEN r.cleanup ELSE IsExport(r.id)
  /\ r.pc = "authority" /\ r.cleanup => NoExport \/ (faults = 1 /\ exports[r.key] # NoId)
  /\ r.pc = "drop_final" => NoExport

OpenInv == Calm => OpenTables /\ \A w \in Workers : Opens(worker[w])

LEMMA OpenImplies == OpenInv => ExportOpens
  BY DEF OpenInv, Calm, OpenTables, ExportOpens

\* As long as a failure is a failure, no step makes the state calm again.
LEMMA CalmBefore ==
  ASSUME Invariant, NEW o, Fault(o), Calm', UNCHANGED maintained
  PROVE  Calm /\ (o # "ok" => faults = 0 /\ faults' = 1) /\ faults \in Nat
  BY BoundsAreNatural DEF Invariant, TablesTyped, Fault, Calm

\* The other threads are idle while one is not.
LEMMA OthersIdle ==
  ASSUME Invariant, NEW w \in Workers, worker[w].pc # "idle" \/ LockFree
  PROVE  \A v \in Workers \ {w} : worker[v].pc = "idle"
  BY DEF Invariant, OneRequest, LockFree

LEMMA OnlyOneOpens ==
  ASSUME Invariant, NEW w \in Workers, worker[w].pc # "idle" \/ LockFree,
         NEW r, worker' = [worker EXCEPT ![w] = r], OpenTables', Opens(r)'
  PROVE  OpenInv'
<1>1. worker = [v \in Workers |-> worker[v]]
  BY DEF Invariant, WorkersTyped
<1>2. ASSUME NEW v \in Workers PROVE Opens(worker[v])'
  <2>1. CASE v = w
    <3>1. worker'[v] = r
      BY <1>1, <2>1
    <3> QED BY <3>1 DEF Opens, NoExport, IsExport
  <2>2. CASE v # w
    <3>1. worker'[v].pc = "idle"
      BY <1>1, <2>2, OthersIdle
    <3> QED BY <3>1 DEF Opens, Early, Late
  <2> QED BY <2>1, <2>2
<1> QED BY <1>2 DEF OpenInv

LEMMA IdleOpens == Opens(IdleWorker)'
  BY DEF Opens, Early, Late, IdleWorker

LEMMA OpenTablesStay ==
  ASSUME OpenTables, UNCHANGED <<exports, row, final>>
  PROVE  OpenTables'
  BY DEF OpenTables, FinalRow, Live, IsExport

\* A step that changes rows of which none is an export, and makes none live.
LEMMA OpenRowsStay ==
  ASSUME OpenTables, UNCHANGED <<exports, final>>,
         \A x \in FinalIds : /\ IsExport(x) => row'[x] = row[x]
                             /\ IsExport(x)' => IsExport(x)
                             /\ Live(x)' => Live(x)
  PROVE  OpenTables' /\ (NoExport => NoExport')
<1>1. \A x \in FinalIds : IsExport(x) <=> IsExport(x)'
  BY DEF IsExport
<1>2. \A x \in FinalIds : IsExport(x) => row'[x] = row[x]
  OBVIOUS
<1>3. FinalRow' \subseteq FinalRow
  BY DEF FinalRow
<1>4. \A k \in Keys : exports'[k] # NoId => exports'[k] \in FinalIds /\ IsExport(exports[k])'
  <2> SUFFICES ASSUME NEW k \in Keys, exports'[k] # NoId
               PROVE  \E x \in FinalIds : x = exports'[k] /\ IsExport(x)'
    BY DEF IsExport
  <2> QED BY <1>1 DEF OpenTables
<1> QED BY <1>1, <1>2, <1>3, <1>4 DEF OpenTables, NoExport

-----------------------------------------------------------------------------
\* What a thread knows of its local state.
LEMMA WorkerKnows ==
  ASSUME Invariant, NEW w \in Workers
  PROVE  Knows(worker[w]) /\ worker[w] \in LocalState
  BY DEF Invariant, WorkersTyped, Knows

\* A step that only goes on to another place, reading the tables.
LEMMA ReadOpens ==
  ASSUME Invariant, NEW w \in Workers, worker[w].pc # "idle",
         UNCHANGED <<exports, row, final>>,
         OpenTables, NEW pc, Go(w, pc),
         \A r \in LocalState : r.pc = pc /\ r.id = worker[w].id /\ r.key = worker[w].key
           /\ r.etag = worker[w].etag /\ r.adopt = worker[w].adopt
           /\ r.cleanup = worker[w].cleanup => Opens(r)',
         pc \in Steps
  PROVE  OpenInv'
<1>1. PICK r : r = [worker[w] EXCEPT !.pc = pc]
  OBVIOUS
<1>2. r \in LocalState /\ r.pc = pc /\ r.id = worker[w].id /\ r.key = worker[w].key
      /\ r.etag = worker[w].etag /\ r.adopt = worker[w].adopt /\ r.cleanup = worker[w].cleanup
  BY <1>1, WorkerKnows DEF LocalState
<1>3. worker' = [worker EXCEPT ![w] = r]
  BY <1>1 DEF Go
<1> QED BY <1>2, <1>3, OpenTablesStay, OnlyOneOpens

\* Before anything is promoted there is nothing to drop.
LEMMA EarlyOpens ==
  ASSUME NEW r, ~r.cleanup, r.pc \in Early \cup {"authority", "drop_staged", "mark_staged"}
  PROVE  Opens(r)'
  BY DEF Opens, Early, Late

\* What holds before a step of a request after which the state is calm.
LEMMA BeforeStep ==
  ASSUME Invariant, OpenInv, NEW w \in Workers, NEW o, Fault(o), Calm', UNCHANGED maintained
  PROVE  /\ OpenTables /\ Opens(worker[w]) /\ (o # "ok" => faults = 0 /\ faults' = 1)
         /\ worker[w] \in LocalState /\ Knows(worker[w])
  BY CalmBefore, WorkerKnows DEF OpenInv

\* A row of another key.
LEMMA StagedRowOpens ==
  ASSUME Invariant, NEW n \in Requests, NEW t, row' = [row EXCEPT ![Staged(n)] = t]
  PROVE  \A x \in FinalIds : row'[x] = row[x]
  BY IdsDistinct DEF Invariant, TablesTyped

LEMMA EarlyReadOpens ==
  ASSUME Invariant, OpenInv, Calm', NEW w \in Workers, NEW o,
         CheckStaging(w, o) \/ FindReservation(w, o) \/ CheckReservation(w, o)
  PROVE  OpenInv'
<1>1. /\ Fault(o) /\ UNCHANGED <<maintained, exports, row, final>>
      /\ worker[w].pc \in Early /\ worker[w].pc # "idle"
  BY DEF CheckStaging, FindReservation, CheckReservation, tables, blobs, Early
<1>2. OpenTables /\ Opens(worker[w]) /\ worker[w] \in LocalState
  BY <1>1, BeforeStep
<1>3. ~worker[w].cleanup
  BY <1>1, <1>2 DEF Opens
<1>4. PICK r : /\ worker' = [worker EXCEPT ![w] = r] /\ ~r.cleanup
               /\ r.pc \in Early \cup {"authority"}
  <2>1. CASE \E pc \in Early \cup {"authority"} : Go(w, pc)
    <3>1. PICK pc \in Early \cup {"authority"} : Go(w, pc)
      BY <2>1
    <3> DEFINE r == [worker[w] EXCEPT !.pc = pc]
    <3>2. ~r.cleanup /\ r.pc = pc
      BY <1>2, <1>3 DEF LocalState
    <3> QED BY <3>1, <3>2 DEF Go
  <2>2. CASE \E x : Update(w, [worker[w] EXCEPT !.pc = "promote", !.id = x])
    <3>1. PICK x : Update(w, [worker[w] EXCEPT !.pc = "promote", !.id = x])
      BY <2>2
    <3> DEFINE r == [worker[w] EXCEPT !.pc = "promote", !.id = x]
    <3>2. ~r.cleanup /\ r.pc = "promote" /\ "promote" \in Early
      BY <1>2, <1>3 DEF LocalState, Early
    <3> QED BY <3>1, <3>2 DEF Update
  <2> QED BY <2>1, <2>2 DEF CheckStaging, FindReservation, CheckReservation, ReadReservation, Early
<1>5. Opens(r)'
  BY <1>4, EarlyOpens
<1> QED BY <1>1, <1>2, <1>4, <1>5, OpenTablesStay, OnlyOneOpens

LEMMA RecordStagingOpens ==
  ASSUME Invariant, OpenInv, Calm', NEW w \in Workers, NEW o, RecordStaging(w, o)
  PROVE  OpenInv'
<1>1. /\ Fault(o) /\ UNCHANGED <<maintained, exports, final>>
      /\ worker[w].pc = "record_staging"
  BY DEF RecordStaging, blobs
<1>2. OpenTables /\ Opens(worker[w]) /\ worker[w] \in LocalState /\ Knows(worker[w])
  BY <1>1, BeforeStep
<1>3. ~worker[w].cleanup /\ worker[w].n \in Requests
  BY <1>1, <1>2 DEF Opens, Early, Knows
<1>4. \A x \in FinalIds : row'[x] = row[x]
  BY <1>3, StagedRowOpens DEF RecordStaging
<1>5. OpenTables'
  BY <1>1, <1>2, <1>4, OpenRowsStay DEF IsExport, Live
<1>6. PICK r : /\ worker' = [worker EXCEPT ![w] = r] /\ ~r.cleanup /\ r.pc \in Early
  <2>1. PICK pc \in {"find_reservation", "check_staging"} : Go(w, pc)
    BY DEF RecordStaging
  <2> DEFINE r == [worker[w] EXCEPT !.pc = pc]
  <2>2. ~r.cleanup /\ r.pc \in Early
    BY <1>2, <1>3 DEF LocalState, Early
  <2> QED BY <2>1, <2>2 DEF Go
<1>7. Opens(r)'
  BY <1>6, EarlyOpens
<1> QED BY <1>1, <1>5, <1>6, <1>7, OnlyOneOpens

\* A row for a key that has none: it is no export.
LEMMA NewRowOpens ==
  ASSUME Invariant, OpenTables, UNCHANGED <<exports, final>>, NEW x \in FinalIds, FinalRow = {},
         NEW t, t.purpose = "temporary", row' = [row EXCEPT ![x] = t]
  PROVE  OpenTables' /\ NoExport'
<1>1. \A y \in FinalIds : ~Live(y) /\ ~IsExport(y)
  BY DEF FinalRow, IsExport, Live
<1>2. x \in Ids /\ row \in [Ids -> Rows]
  BY DEF Ids, Invariant, TablesTyped
<1>3. FinalIds \subseteq Ids
  BY DEF Ids
<1>4. \A y \in FinalIds : ~IsExport(y)'
  BY <1>1, <1>2, <1>3 DEF IsExport
<1>5. FinalRow' \subseteq {x}
  BY <1>1, <1>2, <1>3 DEF FinalRow, Live
<1>6. \A k \in Keys : exports'[k] = NoId
  BY <1>1 DEF OpenTables
<1> QED BY <1>4, <1>5, <1>6 DEF OpenTables, NoExport

LEMMA ReserveOpens ==
  ASSUME Invariant, OpenInv, Calm', NEW w \in Workers, NEW o, Reserve(w, o)
  PROVE  OpenInv'
<1>1. /\ Fault(o) /\ UNCHANGED <<maintained, exports, final>>
      /\ worker[w].pc = "reserve"
  BY DEF Reserve, blobs
<1>2. OpenTables /\ Opens(worker[w]) /\ worker[w] \in LocalState /\ Knows(worker[w])
  BY <1>1, BeforeStep
<1>3. ~worker[w].cleanup /\ Reserved(worker[w].n) \in FinalIds
  BY <1>1, <1>2, IdsDistinct DEF Opens, Early, Knows
<1>4. OpenTables'
  <2>1. CASE FinalRow = {} /\ Done(o)
    <3> DEFINE t == Temporary("staging", 0)
    <3>1. t.purpose = "temporary"
      BY DEF Temporary
    <3>2. row' = [row EXCEPT ![Reserved(worker[w].n)] = t]
      BY <2>1 DEF Reserve
    <3> HIDE DEF t
    <3> QED BY <1>1, <1>2, <1>3, <2>1, <3>1, <3>2, NewRowOpens
  <2>2. CASE ~(FinalRow = {} /\ Done(o))
    BY <1>1, <1>2, <2>2, OpenTablesStay DEF Reserve
  <2> QED BY <2>1, <2>2
<1>5. PICK r : /\ worker' = [worker EXCEPT ![w] = r] /\ ~r.cleanup /\ r.pc \in Early
  <2>1. CASE Go(w, "check_reservation")
    <3> DEFINE r == [worker[w] EXCEPT !.pc = "check_reservation"]
    <3>1. ~r.cleanup /\ r.pc \in Early
      BY <1>2, <1>3 DEF LocalState, Early
    <3> QED BY <2>1, <3>1 DEF Go
  <2>2. CASE \E x : Update(w, [worker[w] EXCEPT !.pc = "promote", !.id = x])
    <3>1. PICK x : Update(w, [worker[w] EXCEPT !.pc = "promote", !.id = x])
      BY <2>2
    <3> DEFINE r == [worker[w] EXCEPT !.pc = "promote", !.id = x]
    <3>2. ~r.cleanup /\ r.pc \in Early
      BY <1>2, <1>3 DEF LocalState, Early
    <3> QED BY <3>1, <3>2 DEF Update
  <2> QED BY <2>1, <2>2 DEF Reserve
<1>6. Opens(r)'
  BY <1>5, EarlyOpens
<1> QED BY <1>1, <1>4, <1>5, <1>6, OnlyOneOpens

LEMMA StartOpens ==
  ASSUME Invariant, OpenInv, Calm', NEW w \in Workers, NEW k, NEW o, Start(w, k, o)
  PROVE  OpenInv'
<1>1. /\ Fault(o) /\ UNCHANGED <<maintained, exports, row, final>> /\ LockFree
  BY DEF Start, tables
<1>2. OpenTables
  BY <1>1, BeforeStep
<1>3. PICK r : worker' = [worker EXCEPT ![w] = r] /\ Opens(r)'
  <2>1. CASE Leave(w)
    BY <2>1, IdleOpens DEF Leave
  <2>2. CASE o = "ok"
    <3> DEFINE r == [IdleWorker EXCEPT !.pc = "record_staging", !.key = k, !.n = requests']
    <3>1. ~r.cleanup /\ r.pc \in Early
      BY DEF IdleWorker, Early
    <3>2. worker' = [worker EXCEPT ![w] = r]
      BY <2>2 DEF Start, Update
    <3> HIDE DEF r
    <3>3. PICK s : s = r
      OBVIOUS
    <3>4. Opens(s)'
      BY <3>1, <3>3, EarlyOpens
    <3> QED BY <3>2, <3>3, <3>4
  <2> QED BY <2>1, <2>2 DEF Start
<1> QED BY <1>1, <1>2, <1>3, OpenTablesStay, OnlyOneOpens

-----------------------------------------------------------------------------
\* A blob is created only when there is none, and then there is no export.
LEMMA PromoteOpens ==
  ASSUME Invariant, OpenInv, Calm', NEW w \in Workers, NEW o, Promote(w, o)
  PROVE  OpenInv'
<1> DEFINE present == worker[w].n \in staged
           creates == present /\ Done(o) /\ final = 0
<1>1. /\ Fault(o) /\ UNCHANGED <<maintained, exports, row>>
      /\ worker[w].pc \in {"promote", "promote_again"}
      /\ final' = IF creates THEN etags + 1 ELSE final
  BY DEF Promote, tables
<1>2. OpenTables /\ Opens(worker[w]) /\ worker[w] \in LocalState
  BY <1>1, BeforeStep
<1>3. ~worker[w].cleanup
  BY <1>1, <1>2 DEF Opens, Early
<1>4. creates => final' # 0 /\ NoExport /\ NoExport'
  <2> SUFFICES ASSUME creates PROVE final' # 0 /\ NoExport /\ NoExport'
    OBVIOUS
  <2>1. etags \in Nat
    BY DEF Invariant, TablesTyped
  <2>2. NoExport
    BY <1>2 DEF OpenTables, NoExport
  <2> QED BY <1>1, <2>1, <2>2 DEF NoExport, IsExport
<1>5. OpenTables'
  <2>1. CASE creates
    <3>1. \A k \in Keys : exports[k] = NoId
      BY <1>2, <1>4, <2>1 DEF OpenTables, NoExport
    <3> QED BY <1>1, <1>2, <1>4, <2>1, <3>1 DEF OpenTables, NoExport, FinalRow, Live
  <2>2. CASE ~creates
    BY <1>1, <1>2, <2>2, OpenTablesStay
  <2> QED BY <2>1, <2>2
<1>6. PICK r : worker' = [worker EXCEPT ![w] = r] /\ Opens(r)'
  <2>1. CASE \E pc \in {"promote_again", "authority"} : Go(w, pc)
    <3>1. PICK pc \in {"promote_again", "authority"} : Go(w, pc)
      BY <2>1
    <3>2. PICK r : r = [worker[w] EXCEPT !.pc = pc]
      OBVIOUS
    <3>3. ~r.cleanup /\ r.pc \in Early \cup {"authority"}
      BY <1>2, <1>3, <3>2 DEF LocalState, Early
    <3>4. Opens(r)'
      BY <3>3, EarlyOpens
    <3> QED BY <3>1, <3>2, <3>4 DEF Go
  <2>2. CASE present /\ o = "ok"
    <3>1. PICK r : r = [worker[w] EXCEPT !.pc = "find_promoted", !.etag = final',
                                         !.cleanup = creates]
      OBVIOUS
    <3>2. r.pc = "find_promoted" /\ r.etag = final' /\ r.cleanup = creates
      BY <1>2, <3>1 DEF LocalState
    <3>3. final' # 0
      BY <1>1, <1>4, <2>2 DEF Done
    <3>4. Opens(r)'
      <4>1. r.cleanup => NoExport'
        BY <1>4, <3>2
      <4> QED BY <3>2, <3>3, <4>1 DEF Opens, Early
    <3>5. worker' = [worker EXCEPT ![w] = r]
      BY <2>2, <3>1 DEF Promote, Update
    <3> QED BY <3>4, <3>5
  <2> QED BY <2>1, <2>2, <1>1 DEF Promote
<1> QED BY <1>1, <1>5, <1>6, OnlyOneOpens

\* The local state that a step of Continue or Go leads to.
LEMMA ContinueOpens ==
  ASSUME NEW w \in Workers, worker[w] \in LocalState, NEW x, NEW adopt \in BOOLEAN,
         Continue(w, x, adopt), final' # 0, worker[w].etag = final',
         IF adopt THEN NoExport' ELSE IsExport(x)'
  PROVE  \E r : worker' = [worker EXCEPT ![w] = r] /\ Opens(r)'
<1>1. PICK r : r = [worker[w] EXCEPT !.pc = "save", !.id = x, !.adopt = adopt,
                                     !.cleanup = adopt]
  OBVIOUS
<1>2. r.pc = "save" /\ r.id = x /\ r.adopt = adopt /\ r.cleanup = adopt
      /\ r.etag = worker[w].etag
  BY <1>1 DEF LocalState
<1>3. r.etag = final' /\ (r.cleanup => NoExport')
  BY <1>2
<1>4. Opens(r)'
  BY <1>2, <1>3 DEF Opens, Early, IsExport
<1> QED BY <1>1, <1>4 DEF Continue, Update

LEMMA LateGoes ==
  ASSUME NEW w \in Workers, worker[w] \in LocalState, NEW pc \in Late \cup {"authority"},
         pc # "save", Go(w, pc), final' # 0, worker[w].etag = final',
         worker[w].cleanup => NoExport'
  PROVE  \E r : worker' = [worker EXCEPT ![w] = r] /\ Opens(r)'
<1>1. PICK r : r = [worker[w] EXCEPT !.pc = pc]
  OBVIOUS
<1>2. r.pc = pc /\ r.cleanup = worker[w].cleanup /\ r.etag = worker[w].etag
  BY <1>1 DEF LocalState
<1>3. r.etag = final' /\ (r.cleanup => NoExport')
  BY <1>2
<1>4. Opens(r)'
  BY <1>2, <1>3 DEF Opens, Early, Late
<1> QED BY <1>1, <1>4 DEF Go

\* A temporary row of the final key leaves no room for that of an export.
LEMMA TemporaryAlone ==
  ASSUME OpenTables, NEW x \in FinalRow, row[x].purpose = "temporary"
  PROVE  NoExport
  BY DEF OpenTables, NoExport, FinalRow, IsExport, Live

LEMMA LateReadOpens ==
  ASSUME Invariant, OpenInv, Calm', NEW w \in Workers, NEW o,
         FindPromoted(w, o) \/ CheckPromoted(w, o) \/ CheckCreated(w, o)
  PROVE  OpenInv'
<1>1. /\ Fault(o) /\ UNCHANGED <<maintained, exports, row, final>>
      /\ worker[w].pc \in Late /\ worker[w].pc \notin {"save", "idle"}
  BY DEF FindPromoted, CheckPromoted, CheckCreated, tables, blobs, Late
<1>2. OpenTables /\ Opens(worker[w]) /\ worker[w] \in LocalState
  BY <1>1, BeforeStep
<1>3. final' # 0 /\ worker[w].etag = final' /\ (worker[w].cleanup => NoExport)
  BY <1>1, <1>2 DEF Opens
<1>4. (NoExport => NoExport') /\ \A x : IsExport(x) => IsExport(x)'
  BY <1>1 DEF NoExport, IsExport
<1>5. \E r : worker' = [worker EXCEPT ![w] = r] /\ Opens(r)'
  <2>1. CASE \E pc \in {"authority", "record_promoted", "create_promoted"} : Go(w, pc)
    BY <1>2, <1>3, <1>4, <2>1, LateGoes DEF Late
  <2>2. CASE \E x \in FinalRow : IsExport(x) /\ Continue(w, x, FALSE)
    BY <1>2, <1>3, <1>4, <2>2, ContinueOpens
  <2>3. CASE \E x \in FinalRow : row[x].purpose = "temporary" /\ (\E y : Continue(w, y, TRUE))
    <3>1. NoExport'
      BY <1>2, <1>4, <2>3, TemporaryAlone
    <3> QED BY <1>2, <1>3, <3>1, <2>3, ContinueOpens
  <2>4. CASE FindPromoted(w, o)
    BY <2>1, <2>2, <2>3, <2>4 DEF FindPromoted, HoldsExport, HoldsTemporary, Disposable
  <2>5. CASE CheckPromoted(w, o)
    BY <2>1, <2>3, <2>5 DEF CheckPromoted, HoldsTemporary, Disposable
  <2>6. CASE CheckCreated(w, o)
    <3>1. CASE Go(w, "authority")
      BY <2>1, <3>1
    <3>2. CASE ~Go(w, "authority")
      <4>1. PICK x \in FinalRow :
              /\ HoldsExport(x, worker[w].etag) \/ HoldsTemporary(x, worker[w].etag)
              /\ Continue(w, x, ~HoldsExport(x, worker[w].etag))
        BY <2>6, <3>2 DEF CheckCreated
      <4>2. CASE HoldsExport(x, worker[w].etag)
        <5>1. (~HoldsExport(x, worker[w].etag)) = FALSE
          BY <4>2
        <5> QED BY <4>1, <4>2, <5>1, <2>2 DEF HoldsExport
      <4>3. CASE ~HoldsExport(x, worker[w].etag)
        <5>1. (~HoldsExport(x, worker[w].etag)) = TRUE
          BY <4>3
        <5> QED BY <4>1, <4>3, <5>1, <2>3 DEF HoldsTemporary, Disposable
      <4> QED BY <4>2, <4>3
    <3> QED BY <3>1, <3>2
  <2> QED BY <2>4, <2>5, <2>6
<1> QED BY <1>1, <1>2, <1>5, OpenTablesStay, OnlyOneOpens

\* The row of the key is the one that is promoted, and a temporary one.
LEMMA RecordPromotedOpens ==
  ASSUME Invariant, OpenInv, Calm', NEW w \in Workers, NEW o, RecordPromoted(w, o)
  PROVE  OpenInv'
<1> DEFINE x == worker[w].id
           written == AwaitsPromotion(x) /\ Done(o)
<1>1. /\ Fault(o) /\ UNCHANGED <<maintained, exports, final>>
      /\ worker[w].pc = "record_promoted"
  BY DEF RecordPromoted, blobs
<1>2. OpenTables /\ Opens(worker[w]) /\ worker[w] \in LocalState /\ Knows(worker[w])
  BY <1>1, BeforeStep
<1>3. final' # 0 /\ worker[w].etag = final' /\ (worker[w].cleanup => NoExport)
  BY <1>1, <1>2 DEF Opens, Late
<1>4. x \in FinalIds /\ row \in [Ids -> Rows] /\ FinalIds \subseteq Ids
  BY <1>1, <1>2 DEF Knows, RowSteps, Invariant, TablesTyped, Ids
<1>5. AwaitsPromotion(x) => x \in FinalRow /\ row[x].purpose = "temporary"
  BY <1>4 DEF AwaitsPromotion, FinalRow, Live
<1>6. row' = IF written THEN [row EXCEPT ![x] = Temporary("quarantined", worker[w].etag)]
             ELSE row
  BY DEF RecordPromoted
<1> HIDE DEF x
<1>7. /\ \A y \in FinalIds : y # x => row'[y] = row[y]
      /\ written => row'[x].purpose = "temporary"
      /\ ~written => row' = row
  BY <1>4, <1>6 DEF Temporary
<1>8. OpenTables' /\ (NoExport => NoExport')
  <2>1. ASSUME NEW y \in FinalIds
        PROVE  /\ IsExport(y) => row'[y] = row[y]
               /\ IsExport(y)' => IsExport(y)
               /\ Live(y)' => Live(y)
    <3>1. CASE y # x
      BY <1>7, <3>1 DEF IsExport, Live
    <3>2. CASE y = x /\ written
      BY <1>5, <1>7, <3>2 DEF IsExport, FinalRow
    <3>3. CASE ~written
      BY <1>7, <3>3 DEF IsExport, Live
    <3> QED BY <3>1, <3>2, <3>3
  <2> QED BY <1>1, <1>2, <2>1, OpenRowsStay
<1>9. \E r : worker' = [worker EXCEPT ![w] = r] /\ Opens(r)'
  <2>1. CASE written /\ o = "ok"
    <3>1. NoExport'
      BY <1>2, <1>5, <1>8, <2>1, TemporaryAlone
    <3>2. Continue(w, x, TRUE)
      BY <2>1 DEF RecordPromoted, x
    <3> QED BY <1>2, <1>3, <3>1, <3>2, ContinueOpens
  <2>2. CASE ~(written /\ o = "ok")
    <3>1. Go(w, "check_promoted")
      BY <2>2 DEF RecordPromoted, x
    <3> QED BY <1>2, <1>3, <1>8, <3>1, LateGoes DEF Late
  <2> QED BY <2>1, <2>2
<1> QED BY <1>1, <1>8, <1>9, OnlyOneOpens

LEMMA CreatePromotedOpens ==
  ASSUME Invariant, OpenInv, Calm', NEW w \in Workers, NEW o, CreatePromoted(w, o)
  PROVE  OpenInv'
<1> DEFINE x == Promoted(worker[w].n)
           t == Temporary("quarantined", worker[w].etag)
<1>1. /\ Fault(o) /\ UNCHANGED <<maintained, exports, final>>
      /\ worker[w].pc = "create_promoted"
  BY DEF CreatePromoted, blobs
<1>2. OpenTables /\ Opens(worker[w]) /\ worker[w] \in LocalState /\ Knows(worker[w])
  BY <1>1, BeforeStep
<1>3. final' # 0 /\ worker[w].etag = final' /\ (worker[w].cleanup => NoExport)
  BY <1>1, <1>2 DEF Opens, Late
<1>4. x \in FinalIds
  BY <1>1, <1>2, IdsDistinct DEF Knows
<1>5. t.purpose = "temporary"
  BY DEF Temporary
<1>6. row' = IF FinalRow = {} /\ Done(o) THEN [row EXCEPT ![x] = t] ELSE row
  BY DEF CreatePromoted
<1>7. /\ IF FinalRow = {} /\ o = "ok" THEN Continue(w, x, TRUE) ELSE Go(w, "check_created")
  BY DEF CreatePromoted
<1> HIDE DEF x, t
<1>8. OpenTables' /\ (FinalRow = {} => NoExport') /\ (NoExport => NoExport')
  <2>1. CASE FinalRow = {} /\ Done(o)
    BY <1>1, <1>2, <1>4, <1>5, <1>6, <2>1, NewRowOpens
  <2>2. CASE ~(FinalRow = {} /\ Done(o))
    <3>1. FinalRow = {} => NoExport
      BY DEF FinalRow, NoExport, Live, IsExport
    <3> QED BY <1>1, <1>2, <1>6, <2>2, <3>1, OpenTablesStay DEF NoExport, IsExport
  <2> QED BY <2>1, <2>2
<1>9. \E r : worker' = [worker EXCEPT ![w] = r] /\ Opens(r)'
  BY <1>2, <1>3, <1>7, <1>8, ContinueOpens, LateGoes DEF Late
<1> QED BY <1>1, <1>8, <1>9, OnlyOneOpens

-----------------------------------------------------------------------------
\* The export is written with the blob that the row has.
LEMMA SaveOpens ==
  ASSUME Invariant, OpenInv, Calm', NEW w \in Workers, NEW o, Save(w, o)
  PROVE  OpenInv'
<1>0. PICK x, k : x = worker[w].id /\ k = worker[w].key
  OBVIOUS
<1> DEFINE written == Adoptable(w) /\ exports[k] = NoId /\ Done(o)
<1>1. /\ Fault(o) /\ UNCHANGED <<maintained, final>>
      /\ worker[w].pc = "save"
  BY DEF Save, blobs
<1>2. /\ OpenTables /\ Opens(worker[w]) /\ worker[w] \in LocalState /\ Knows(worker[w])
      /\ o # "ok" => faults' = 1
  BY <1>1, BeforeStep
<1>3. /\ final # 0 /\ worker[w].etag = final /\ (worker[w].cleanup => NoExport)
      /\ IF worker[w].adopt THEN worker[w].cleanup ELSE IsExport(x)
  BY <1>0, <1>1, <1>2 DEF Opens, Late
<1>4. x \in FinalIds /\ row \in [Ids -> Rows] /\ FinalIds \subseteq Ids /\ k \in Keys
      /\ exports \in [Keys -> Ids \cup {NoId}] /\ x # NoId
  <2>1. x \in FinalIds /\ k \in Keys
    BY <1>0, <1>1, <1>2 DEF Knows, RowSteps
  <2>2. NoId \notin FinalIds
    BY DEF NoId, FinalIds, Reserved, Promoted, Requests
  <2> QED BY <2>1, <2>2 DEF Invariant, TablesTyped, Ids
<1>5. /\ exports' = IF written THEN [exports EXCEPT ![k] = x] ELSE exports
      /\ row' = IF written /\ worker[w].adopt
                THEN [row EXCEPT ![x].purpose = "export", ![x].state = "available"] ELSE row
      /\ Go(w, IF written /\ o = "ok" THEN "drop_staged" ELSE "authority")
  BY <1>0 DEF Save
<1>6. written /\ worker[w].adopt =>
        row[x].etag = final /\ row[x].state = "quarantined" /\ x \in FinalRow
  BY <1>0, <1>3, <1>4 DEF Adoptable, Temporary, FinalRow, Live
<1>7. /\ \A y \in FinalIds : y # x => row'[y] = row[y]
      /\ written /\ worker[w].adopt => row'[x].purpose = "export" /\ row'[x].state = "available"
                                       /\ row'[x].etag = row[x].etag
      /\ ~(written /\ worker[w].adopt) => row' = row
  BY <1>4, <1>5 DEF Rows
<1> HIDE DEF written
<1>8. written => IsExport(x)'
  BY <1>3, <1>7 DEF IsExport
<1>9. OpenTables'
  <2>1. ASSUME NEW y \in FinalIds, IsExport(y)' PROVE final' # 0 /\ row'[y].etag = final'
    <3>1. CASE y = x /\ written /\ worker[w].adopt
      BY <1>1, <1>3, <1>6, <1>7, <3>1
    <3>2. CASE ~(y = x /\ written /\ worker[w].adopt)
      <4>1. row'[y] = row[y]
        BY <1>7, <3>2
      <4> QED BY <1>1, <1>2, <2>1, <4>1 DEF OpenTables, IsExport
    <3> QED BY <3>1, <3>2
  <2>2. ASSUME NEW y \in FinalIds PROVE Live(y)' => Live(y)
    <3>1. CASE y = x /\ written /\ worker[w].adopt
      BY <1>6, <3>1 DEF FinalRow
    <3>2. CASE ~(y = x /\ written /\ worker[w].adopt)
      BY <1>7, <3>2 DEF Live
    <3> QED BY <3>1, <3>2
  <2>3. \A y \in FinalIds : IsExport(y) => IsExport(y)'
    BY <1>7, <1>8 DEF IsExport
  <2>4. ASSUME NEW j \in Keys, exports'[j] # NoId
        PROVE  \E y \in FinalIds : y = exports'[j] /\ IsExport(y)'
    <3>1. CASE exports'[j] = exports[j]
      BY <1>2, <2>3, <2>4, <3>1 DEF OpenTables
    <3>2. CASE exports'[j] # exports[j]
      BY <1>4, <1>5, <1>8, <3>2
    <3> QED BY <3>1, <3>2
  <2>5. \A j \in Keys : exports'[j] # NoId => exports'[j] \in FinalIds /\ IsExport(exports[j])'
    BY <2>4 DEF IsExport
  <2>6. FinalRow' \subseteq FinalRow
    BY <2>2 DEF FinalRow
  <2> QED BY <1>2, <2>1, <2>5, <2>6 DEF OpenTables
<1>10. PICK r : r = [worker[w] EXCEPT !.pc = IF written /\ o = "ok" THEN "drop_staged"
                                            ELSE "authority"]
  OBVIOUS
<1>11. /\ worker' = [worker EXCEPT ![w] = r]
       /\ r.pc = IF written /\ o = "ok" THEN "drop_staged" ELSE "authority"
       /\ r.cleanup = worker[w].cleanup /\ r.key = k
  BY <1>0, <1>2, <1>5, <1>10 DEF Go, LocalState
<1>12. Opens(r)'
  <2>1. CASE written /\ o = "ok"
    BY <1>11, <2>1 DEF Opens, Early, Late
  <2>2. CASE written /\ o # "ok"
    <3>1. exports'[r.key] # NoId /\ faults' = 1
      BY <1>2, <1>4, <1>5, <1>11, <2>2
    <3> QED BY <1>11, <2>2, <3>1 DEF Opens, Early, Late
  <2>3. CASE ~written
    <3>1. r.cleanup => NoExport'
      BY <1>3, <1>5, <1>11, <2>3 DEF NoExport, IsExport
    <3> QED BY <1>11, <2>3, <3>1 DEF Opens, Early, Late
  <2> QED BY <2>1, <2>2, <2>3
<1> QED BY <1>1, <1>9, <1>11, <1>12, OnlyOneOpens

\* After its own transaction was in doubt, a request reads its export, or fails twice.
LEMMA AuthorityOpens ==
  ASSUME Invariant, OpenInv, Calm', NEW w \in Workers, NEW o \in ReadOutcomes, Authority(w, o)
  PROVE  OpenInv'
<1>1. /\ Fault(o) /\ UNCHANGED <<maintained, exports, row, final>>
      /\ worker[w].pc = "authority"
  BY DEF Authority, tables, blobs
<1>2. /\ OpenTables /\ Opens(worker[w]) /\ worker[w] \in LocalState /\ Knows(worker[w])
      /\ o # "ok" => faults = 0
  BY <1>1, BeforeStep
<1>3. PICK r : r = [worker[w] EXCEPT
                     !.pc = IF ~(o = "ok" /\ Recorded(w)) /\ worker[w].cleanup
                            THEN "drop_final" ELSE "drop_staged"]
  OBVIOUS
<1>4. /\ worker' = [worker EXCEPT ![w] = r]
      /\ r.pc = IF ~(o = "ok" /\ Recorded(w)) /\ worker[w].cleanup
                THEN "drop_final" ELSE "drop_staged"
  BY <1>2, <1>3 DEF Authority, Go, LocalState
<1>5. ~(o = "ok" /\ Recorded(w)) /\ worker[w].cleanup => NoExport
  <2> SUFFICES ASSUME ~(o = "ok" /\ Recorded(w)), worker[w].cleanup PROVE NoExport
    OBVIOUS
  <2>1. NoExport \/ (faults = 1 /\ exports[worker[w].key] # NoId)
    BY <1>1, <1>2 DEF Opens
  <2>2. ASSUME faults = 1, exports[worker[w].key] # NoId PROVE FALSE
    <3>1. worker[w].key \in Keys
      BY <1>1, <1>2 DEF Knows
    <3>2. Recorded(w)
      BY <1>2, <2>2, <3>1 DEF OpenTables, Recorded
    <3> QED BY <1>2, <2>2, <3>2
  <2> QED BY <2>1, <2>2
<1>6. Opens(r)'
  <2>1. r.pc = "drop_final" => NoExport'
    BY <1>1, <1>4, <1>5 DEF NoExport, IsExport
  <2> QED BY <1>4, <2>1 DEF Opens, Early, Late
<1> QED BY <1>1, <1>2, <1>4, <1>6, OpenTablesStay, OnlyOneOpens

LEMMA DropFinalOpens ==
  ASSUME Invariant, OpenInv, Calm', NEW w \in Workers, NEW o, DropFinal(w, o)
  PROVE  OpenInv'
<1>1. /\ Fault(o) /\ UNCHANGED <<maintained, exports, row>>
      /\ worker[w].pc = "drop_final"
  BY DEF DropFinal, tables
<1>2. OpenTables /\ Opens(worker[w]) /\ worker[w] \in LocalState
  BY <1>1, BeforeStep
<1>3. NoExport
  BY <1>1, <1>2 DEF Opens
<1>4. OpenTables'
  BY <1>1, <1>2, <1>3 DEF OpenTables, NoExport, IsExport, FinalRow, Live
<1>5. PICK r : r = [worker[w] EXCEPT !.pc = "mark_final",
                                     !.ok = final \in {0, worker[w].etag} /\ o = "ok"]
  OBVIOUS
<1>6. worker' = [worker EXCEPT ![w] = r] /\ r.pc = "mark_final"
  BY <1>2, <1>5 DEF DropFinal, Update, LocalState
<1>7. Opens(r)'
  BY <1>6 DEF Opens, Early, Late
<1> QED BY <1>1, <1>4, <1>6, <1>7, OnlyOneOpens

\* A row that is marked is no export, and does not become live.
LEMMA MarkRowOpens ==
  ASSUME Invariant, OpenTables, UNCHANGED <<exports, final>>, NEW x \in Ids \cup {NoId},
         NEW ok, NEW o, MarkRow(x, ok, o)
  PROVE  OpenTables'
<1>1. CASE UNCHANGED row
  BY <1>1, OpenTablesStay
<1>2. CASE x # NoId /\ Disposable(x) /\ Done(o)
  <2>1. PICK t : row' = [row EXCEPT ![x] = t] /\ t.purpose = "temporary"
    <3> DEFINE t == IF ok THEN Temporary("deleted", 0)
                    ELSE Temporary("quarantined", row[x].etag)
    <3>1. t.purpose = "temporary"
      BY DEF Temporary
    <3>2. row' = [row EXCEPT ![x] = t]
      BY <1>2 DEF MarkRow
    <3> HIDE DEF t
    <3> QED BY <3>1, <3>2
  <2>2. row \in [Ids -> Rows] /\ FinalIds \subseteq Ids
    BY DEF Invariant, TablesTyped, Ids
  <2>3. row[x].purpose = "temporary" /\ Live(x)
    BY <1>2 DEF Disposable, Live
  <2>4. \A y \in FinalIds : /\ IsExport(y) => row'[y] = row[y]
                            /\ IsExport(y)' => IsExport(y)
                            /\ Live(y)' => Live(y)
    BY <2>1, <2>2, <2>3 DEF IsExport, Live
  <2> QED BY <2>4, OpenRowsStay
<1> QED BY <1>1, <1>2 DEF MarkRow

LEMMA TailOpens ==
  ASSUME Invariant, OpenInv, Calm', NEW w \in Workers, NEW o,
         MarkFinal(w, o) \/ DropStaged(w, o) \/ MarkStaged(w, o)
  PROVE  OpenInv'
<1>1. /\ Fault(o) /\ UNCHANGED <<maintained, exports, final>>
      /\ worker[w].pc \notin {"idle"}
  BY DEF MarkFinal, DropStaged, MarkStaged, tables, blobs
<1>2. OpenTables /\ worker[w] \in LocalState /\ Knows(worker[w])
  BY <1>1, BeforeStep
<1>3. OpenTables'
  <2>1. CASE MarkFinal(w, o)
    <3>1. worker[w].id \in Ids \cup {NoId}
      BY <1>2 DEF LocalState
    <3> QED BY <1>1, <1>2, <2>1, <3>1, MarkRowOpens DEF MarkFinal
  <2>2. CASE MarkStaged(w, o)
    <3>1. Staged(worker[w].n) \in Ids
      BY <1>1, <1>2, IdsDistinct DEF Knows
    <3> QED BY <1>1, <1>2, <2>2, <3>1, MarkRowOpens DEF MarkStaged
  <2>3. CASE DropStaged(w, o)
    BY <1>1, <1>2, <2>3, OpenTablesStay DEF DropStaged, tables
  <2> QED BY <2>1, <2>2, <2>3
<1>4. \E r : worker' = [worker EXCEPT ![w] = r] /\ Opens(r)'
  <2>1. ASSUME NEW r, r.pc \in {"drop_staged", "mark_staged"} PROVE Opens(r)'
    BY <2>1 DEF Opens, Early, Late
  <2>2. CASE MarkFinal(w, o)
    <3>1. PICK r : r = [worker[w] EXCEPT !.pc = "drop_staged"]
      OBVIOUS
    <3>2. r.pc = "drop_staged"
      BY <1>2, <3>1 DEF LocalState
    <3>3. Opens(r)'
      BY <2>1, <3>2
    <3>4. worker' = [worker EXCEPT ![w] = r]
      BY <2>2, <3>1 DEF MarkFinal, Go
    <3> QED BY <3>3, <3>4
  <2>3. CASE DropStaged(w, o)
    <3>1. PICK r : r = [worker[w] EXCEPT !.pc = "mark_staged", !.ok = o = "ok"]
      OBVIOUS
    <3>2. r.pc = "mark_staged"
      BY <1>2, <3>1 DEF LocalState
    <3>3. Opens(r)'
      BY <2>1, <3>2
    <3>4. worker' = [worker EXCEPT ![w] = r]
      BY <2>3, <3>1 DEF DropStaged, Update
    <3> QED BY <3>3, <3>4
  <2>4. CASE MarkStaged(w, o)
    BY <2>4, IdleOpens DEF MarkStaged, Leave
  <2> QED BY <2>2, <2>3, <2>4
<1> QED BY <1>1, <1>3, <1>4, OnlyOneOpens

LEMMA CrashOpens ==
  ASSUME Invariant, OpenInv, Calm', NEW w \in Workers, Crash(w)
  PROVE  OpenInv'
<1>1. /\ Fault("crash") /\ UNCHANGED <<maintained, exports, row, final>>
      /\ worker[w].pc # "idle" /\ worker' = [worker EXCEPT ![w] = IdleWorker]
  BY DEF Crash, tables, blobs, Leave
<1>2. OpenTables
  BY <1>1, BeforeStep
<1> QED BY <1>1, <1>2, IdleOpens, OpenTablesStay, OnlyOneOpens

-----------------------------------------------------------------------------
LEMMA RequestOpens ==
  ASSUME Invariant, OpenInv, Calm', NEW w \in Workers, Request(w)
  PROVE  OpenInv'
<1>1. CASE \E k \in Keys, o \in Outcomes : Start(w, k, o)
  BY <1>1, StartOpens
<1>2. CASE \E o \in Outcomes :
             \/ RecordStaging(w, o) \/ Reserve(w, o) \/ Promote(w, o)
             \/ RecordPromoted(w, o) \/ CreatePromoted(w, o) \/ Save(w, o)
             \/ DropFinal(w, o) \/ DropStaged(w, o)
  BY <1>2, RecordStagingOpens, ReserveOpens, PromoteOpens, RecordPromotedOpens,
     CreatePromotedOpens, SaveOpens, DropFinalOpens, TailOpens
<1>3. CASE \E o \in ReadOutcomes :
             \/ CheckStaging(w, o) \/ FindReservation(w, o) \/ CheckReservation(w, o)
             \/ FindPromoted(w, o) \/ CheckPromoted(w, o) \/ CheckCreated(w, o)
             \/ Authority(w, o) \/ MarkFinal(w, o) \/ MarkStaged(w, o)
  BY <1>3, EarlyReadOpens, LateReadOpens, AuthorityOpens, TailOpens
<1> QED BY <1>1, <1>2, <1>3, CrashOpens DEF Request

LEMMA OpenStep == Invariant /\ OpenInv /\ [Next]_vars => OpenInv'
<1> SUFFICES ASSUME Invariant, OpenInv, [Next]_vars, Calm' PROVE OpenInv'
  BY DEF OpenInv
<1>1. UNCHANGED maintained
  <2>1. ASSUME NEW w \in Workers, Request(w) PROVE UNCHANGED maintained
    BY <2>1 DEF Request, Start, RecordStaging, CheckStaging, FindReservation, Reserve,
       CheckReservation, Promote, FindPromoted, RecordPromoted, CheckPromoted,
       CreatePromoted, CheckCreated, Save, Authority, DropFinal, MarkFinal, DropStaged,
       MarkStaged, Crash
  <2> QED BY <2>1 DEF Next, vars, Maintenance, Expire, StartJob, DeleteExpired,
     MarkExpired, ListBlobs, CompareRows, QuarantineMissing, CrashJob
<1>2. ~maintained /\ job.pc = "idle"
  BY <1>1 DEF Calm, Invariant, Alone
<1>3. CASE \E w \in Workers : Request(w)
  BY <1>3, RequestOpens
<1>4. CASE UNCHANGED vars
  <2>1. UNCHANGED <<maintained, faults, exports, row, final, worker>>
    BY <1>4 DEF vars, tables, blobs
  <2>2. OpenTables /\ \A w \in Workers : Opens(worker[w])
    BY <2>1 DEF OpenInv, Calm
  <2>3. OpenTables'
    BY <2>1, <2>2, OpenTablesStay
  <2>4. \A w \in Workers : Opens(worker[w])'
    BY <2>1, <2>2 DEF Opens, NoExport, IsExport
  <2> QED BY <2>3, <2>4 DEF OpenInv
<1> QED BY <1>2, <1>3, <1>4 DEF Next, Expire, Maintenance, StartJob, DeleteExpired,
     MarkExpired, ListBlobs, CompareRows, QuarantineMissing, CrashJob

LEMMA OpenInit == Init => OpenInv
<1> SUFFICES ASSUME Init PROVE OpenInv
  OBVIOUS
<1>1. \A x \in FinalIds : ~Live(x) /\ ~IsExport(x)
  BY DEF Init, Live, IsExport, NoRow, Ids
<1>2. OpenTables
  BY <1>1 DEF Init, OpenTables, FinalRow
<1>3. \A w \in Workers : Opens(worker[w])
  BY DEF Init, Opens, Early, Late, IdleWorker
<1> QED BY <1>2, <1>3 DEF OpenInv

\* ActionService.export (action_service.py:308-470): where only requests run, one
\* failure or crash, in whatever step of whatever request, leaves every export with
\* its row and the blob that the row names.
THEOREM ExportsOpen == Spec => []ExportOpens
<1>1. Init => Invariant /\ OpenInv
  BY InitInvariant, OpenInit
<1>2. Invariant /\ OpenInv /\ [Next]_vars => (Invariant /\ OpenInv)'
  BY NextInvariant, OpenStep
<1> QED BY <1>1, <1>2, OpenImplies, PTL DEF Spec

-----------------------------------------------------------------------------
(***************************************************************************)
(* The card: what requests know of it                                      *)
(***************************************************************************)

Clerk ==
  [pc : {"idle", "decide", "commit", "reread", "lookup"},
   key : CardKeys \cup {"no key"}, request : CardRequest \cup {Creation}, at : Times]

\* A transaction that holds the row of the card.
HoldsRow(c) == clerk[c].pc = "commit" /\ clerk[c].request # Creation

OneHoldsRow == \A c, d \in Clerks : HoldsRow(c) /\ HoldsRow(d) => c = d

\* What it found is still so when it commits.
CommitFits(c) ==
  HoldsRow(c) => Accepted(clerk[c].request) /\ ~OnRecord(c) /\ card # Absent

Keyed(c) == clerk[c].request # Creation => clerk[c].key \in CardKeys

KeysOnce ==
  /\ \A m, n \in DOMAIN decisions : decisions[m].key = decisions[n].key => m = n
  /\ \A m, n \in DOMAIN outcomes : outcomes[m].key = outcomes[n].key => m = n

NoCardYet == card = Absent => outcomes = <<>>

\* The answer that the record of a request gives, now and later.
IsAnswer(k, r, response, ds, os) ==
  \/ /\ r.op = "create"
     /\ response = [status |-> "new", revision |-> 1, decisions |-> <<>>]
  \/ /\ r.op = "outcome"
     /\ \E n \in DOMAIN os : os[n].key = k /\ response = [outcome |-> n]
  \/ /\ r.op \in Commands
     /\ \E n \in DOMAIN ds :
          /\ ds[n].key = k
          /\ response = [status |-> Applied(r.op), revision |-> ds[n].revision,
                         decisions |-> SubSeq(ds, 1, n)]

\* As long as no lock was lost, one request is under way, and it answers what is on
\* record.
LockFits ==
  /\ \A c \in Clerks : clerk[c].pc # "idle" => Holds(c)
  /\ \A c \in Clerks :
       clerk[c].pc = "reread" =>
         IsAnswer(clerk[c].key, clerk[c].request, CurrentAnswer(c), decisions, outcomes)
  /\ \A c \in Clerks :
       clerk[c].pc = "commit" /\ clerk[c].request = Creation => card = Absent
  /\ \A a \in answered : IsAnswer(a.key, a.request, a.response, decisions, outcomes)

RecordFits == KeysOnce /\ NoCardYet /\ CardFollowsDecisions

CardsInv ==
  /\ CardsTypeOK
  /\ OneHoldsRow
  /\ \A c \in Clerks : CommitFits(c) /\ Keyed(c)
  /\ RecordFits
  /\ SandboxIsCurrent
  /\ ~lockLost => LockFits

-----------------------------------------------------------------------------

LEMMA RequestKinds ==
  ASSUME NEW r \in CardRequest \cup {Creation}
  PROVE  /\ r = Creation <=> r.op = "create"
         /\ r # Creation =>
              /\ r \in CardRequest /\ r.revision \in Revisions
              /\ r.op = "outcome" \/ r.op \in Commands
         /\ r.op = "outcome" => r.op \notin Commands
BY DEF CardRequest, Creation, Commands

LEMMA ClerkTyped ==
  ASSUME CardsTypeOK, NEW c \in Clerks
  PROVE  /\ clerk[c] \in Clerk
         /\ clerk[c].request \in CardRequest \cup {Creation}
         /\ clerk[c].at \in Times
BY DEF CardsTypeOK, Clerk

LEMMA SubSeqs ==
  ASSUME NEW S, NEW s \in Seq(S)
  PROVE  /\ SubSeq(s, 1, Len(s)) = s
         /\ \A e \in S, n \in DOMAIN s : SubSeq(Append(s, e), 1, n) = SubSeq(s, 1, n)
<1>1. \A t \in Seq(S) : \A n \in 0..Len(t) :
        SubSeq(t, 1, n) = [i \in 1..n |-> t[i]]
  <2> SUFFICES ASSUME NEW t \in Seq(S), NEW n \in 0..Len(t)
               PROVE  SubSeq(t, 1, n) = [i \in 1..n |-> t[i]]
    OBVIOUS
  <2> DEFINE u == SubSeq(t, 1, n)
  <2>1. 1 \in Int /\ n \in Int /\ Len(t) \in Nat /\ \A i \in 1..n : t[i] \in S
    OBVIOUS
  <2>2. /\ u \in Seq(S)
        /\ Len(u) = IF 1 <= n THEN n - 1 + 1 ELSE 0
        /\ \A i \in 1..(n - 1 + 1) : u[i] = t[1 + i - 1]
    BY <2>1, SubSeqProperties
  <2>3. n - 1 + 1 = n /\ \A i \in 1..n : 1 + i - 1 = i
    BY <2>1
  <2>4. u \in Seq(S) /\ Len(u) = n /\ \A i \in 1..n : u[i] = t[i]
    BY <2>1, <2>2, <2>3
  <2> HIDE DEF u
  <2>5. u = [i \in 1..n |-> u[i]]
    BY <2>4
  <2>6. QED
    BY <2>4, <2>5 DEF u
<1>2. Len(s) \in 0..Len(s) /\ s = [i \in 1..Len(s) |-> s[i]]
  OBVIOUS
<1>3. SubSeq(s, 1, Len(s)) = s
  BY <1>1, <1>2
<1>4. ASSUME NEW e \in S, NEW n \in DOMAIN s
      PROVE  SubSeq(Append(s, e), 1, n) = SubSeq(s, 1, n)
  <2>1. /\ Append(s, e) \in Seq(S) /\ n \in 0..Len(s) /\ n \in 0..Len(Append(s, e))
        /\ \A i \in 1..n : Append(s, e)[i] = s[i]
    OBVIOUS
  <2>2. SubSeq(Append(s, e), 1, n) = [i \in 1..n |-> Append(s, e)[i]]
    BY <1>1, <2>1
  <2>3. SubSeq(s, 1, n) = [i \in 1..n |-> s[i]]
    BY <1>1, <2>1
  <2>4. QED
    BY <2>1, <2>2, <2>3
<1>5. QED
  BY <1>3, <1>4

\* The record of a request holds its answer.
LEMMA ResponseIsAnswer ==
  ASSUME CardsInv, NEW c \in Clerks, OnRecord(c), SameRequest(c)
  PROVE  IsAnswer(clerk[c].key, clerk[c].request, Response(c), decisions, outcomes)
<1> DEFINE k == clerk[c].key
           r == clerk[c].request
<1>1. r \in CardRequest \cup {Creation} /\ KeysOnce
  BY ClerkTyped DEF CardsInv, RecordFits
<1>2. CASE r.op = "create"
  BY <1>2 DEF Response, IsAnswer
<1>3. CASE r.op = "outcome"
  <2>1. OutcomeOf(k) # {} /\ r.op # "create"
    BY <1>3 DEF OnRecord
  <2> DEFINE n == CHOOSE n \in OutcomeOf(k) : TRUE
  <2>2. n \in OutcomeOf(k) /\ Response(c) = [outcome |-> n]
    BY <1>3, <2>1 DEF Response
  <2> HIDE DEF n
  <2>3. n \in DOMAIN outcomes /\ outcomes[n].key = k
    BY <2>2 DEF OutcomeOf
  <2>4. QED
    BY <1>3, <2>2, <2>3 DEF IsAnswer
<1>4. CASE r.op \in Commands
  <2>1. r.op \notin {"create", "outcome"}
    BY <1>4 DEF Commands
  <2>2. /\ DecisionOf(k) # {}
        /\ \E n \in DecisionOf(k) : decisions[n].request = r
    BY <2>1 DEF OnRecord, SameRequest
  <2> DEFINE n == CHOOSE d \in DecisionOf(k) : TRUE
  <2>3. n \in DecisionOf(k)
        /\ Response(c) = [status |-> Applied(decisions[n].request.op),
                          revision |-> decisions[n].revision,
                          decisions |-> SubSeq(decisions, 1, n)]
    BY <2>1, <2>2 DEF Response
  <2> HIDE DEF n
  <2>4. n \in DOMAIN decisions /\ decisions[n].key = k
    BY <2>3 DEF DecisionOf
  <2>5. decisions[n].request = r
    BY <1>1, <2>2, <2>4 DEF KeysOnce, DecisionOf
  <2>6. QED
    BY <1>4, <2>3, <2>4, <2>5 DEF IsAnswer
<1>5. QED
  BY <1>1, <1>2, <1>3, <1>4, RequestKinds

-----------------------------------------------------------------------------
(***************************************************************************)
(* The card: requests that change nothing of it                            *)
(***************************************************************************)

\* A request that leaves the record alone.
LEMMA ClerkMoves ==
  ASSUME CardsInv, UNCHANGED <<record, sandbox, now>>, NEW c \in Clerks, NEW x \in Clerk,
         clerk' = [clerk EXCEPT ![c] = x],
         x.request # Creation => x.key \in CardKeys,
         entryLock' \in Clerks \cup {NoClerk}, lockLost' \in BOOLEAN,
         cardFaults' \in 0..MaxCardFaults,
         x.pc = "commit" /\ x.request # Creation =>
           /\ x.key = clerk[c].key /\ x.request = clerk[c].request
           /\ RowFree /\ Accepted(x.request) /\ ~OnRecord(c) /\ card # Absent,
         ~lockLost' => LockFits'
  PROVE  CardsInv'
<1>1. card' = card /\ decisions' = decisions /\ outcomes' = outcomes
      /\ viewer' = viewer /\ overlays' = overlays
  BY DEF record, sandbox
<1>2. CardsTypeOK'
  BY <1>1 DEF CardsInv, CardsTypeOK, Clerk
<1>3. clerk'[c] = x /\ \A d \in Clerks \ {c} : clerk'[d] = clerk[d]
  BY DEF CardsInv, CardsTypeOK
<1>4. OneHoldsRow'
  BY <1>3 DEF CardsInv, OneHoldsRow, HoldsRow, RowFree
<1>5. ASSUME NEW d \in Clerks PROVE CommitFits(d)' /\ Keyed(d)'
  <2>1. CASE d = c
    BY <1>1, <1>3, <2>1
       DEF CommitFits, Keyed, HoldsRow, Accepted, OnRecord, OutcomeOf, DecisionOf
  <2>2. CASE d # c
    BY <1>1, <1>3, <2>2
       DEF CardsInv, CommitFits, Keyed, HoldsRow, Accepted, OnRecord, OutcomeOf,
           DecisionOf
  <2>3. QED
    BY <2>1, <2>2
<1>6. RecordFits'
  BY <1>1
     DEF CardsInv, RecordFits, KeysOnce, NoCardYet, CardFollowsDecisions, StatusAfter,
         RevisionAfter
<1>7. SandboxIsCurrent'
  BY <1>1 DEF CardsInv, SandboxIsCurrent, Eligible
<1>8. QED
  BY <1>2, <1>4, <1>5, <1>6, <1>7 DEF CardsInv

\* A request that is not under a lost lock is the only one.
LEMMA OnlyRequestOfEntry ==
  ASSUME CardsInv, ~lockLost, NEW c \in Clerks, clerk[c].pc # "idle"
  PROVE  Holds(c) /\ \A d \in Clerks \ {c} : clerk[d].pc = "idle"
BY DEF CardsInv, LockFits, Holds

LEMMA NobodyAtWork ==
  ASSUME CardsInv, ~lockLost, entryLock = NoClerk
  PROVE  \A d \in Clerks : clerk[d].pc = "idle"
BY NobodyIsNoClerk DEF CardsInv, LockFits, Holds

\* One request goes on under its lock, and answers are given that are on record.
LEMMA LockFitsOn ==
  ASSUME CardsInv, ~lockLost, UNCHANGED record,
         NEW c \in Clerks, NEW x \in Clerk, clerk' = [clerk EXCEPT ![c] = x],
         \A d \in Clerks \ {c} : clerk[d].pc = "idle",
         x.pc # "idle" => entryLock' = c,
         x.pc # "reread",
         x.pc = "commit" /\ x.request = Creation => card = Absent,
         \A a \in answered' \ answered :
           IsAnswer(a.key, a.request, a.response, decisions, outcomes)
  PROVE  LockFits'
<1>1. /\ clerk'[c] = x /\ \A d \in Clerks \ {c} : clerk'[d].pc = "idle"
  BY DEF CardsInv, CardsTypeOK
<1>2. card' = card /\ decisions' = decisions /\ outcomes' = outcomes
  BY DEF record
<1>3. \A d \in Clerks : clerk'[d].pc # "idle" => entryLock' = d
  BY <1>1
<1>4. \A d \in Clerks : clerk'[d].pc # "reread"
  BY <1>1
<1>5. \A d \in Clerks :
        clerk'[d].pc = "commit" /\ clerk'[d].request = Creation => card' = Absent
  BY <1>1, <1>2
<1>6. \A a \in answered' :
        IsAnswer(a.key, a.request, a.response, decisions', outcomes')
  BY <1>2 DEF CardsInv, LockFits
<1>7. QED
  BY <1>3, <1>4, <1>5, <1>6 DEF LockFits, Holds

LEMMA TimeStarts == 0 \in Times
BY CardBoundsAssumption DEF Times

LEMMA FaultCounted ==
  ASSUME CardsTypeOK, CardFault \/ UNCHANGED cardFaults
  PROVE  cardFaults' \in 0..MaxCardFaults
<1>1. cardFaults \in 0..MaxCardFaults /\ MaxCardFaults \in Nat
  BY CardBoundsAssumption DEF CardsTypeOK
<1>2. CASE UNCHANGED cardFaults
  BY <1>1, <1>2
<1>3. CASE CardFault
  BY <1>1, <1>3 DEF CardFault
<1>4. QED
  BY <1>2, <1>3

LEMMA AskStep ==
  ASSUME CardsInv, NEW c \in Clerks, NEW k \in CardKeys \cup {"no key"},
         NEW r \in CardRequest \cup {Creation},
         r # Creation => k \in CardKeys, Ask(c, k, r)
  PROVE  CardsInv'
<1> DEFINE x == [pc |-> "decide", key |-> k, request |-> r, at |-> 0]
<1>1. /\ entryLock = NoClerk /\ entryLock' = c /\ clerk' = [clerk EXCEPT ![c] = x]
      /\ UNCHANGED <<record, lockLost, answered, sandbox, now, cardFaults>>
  BY DEF Ask
<1>2. x \in Clerk /\ x.pc = "decide" /\ x.key = k /\ x.request = r
  BY TimeStarts DEF Clerk
<1>3. lockLost \in BOOLEAN /\ cardFaults \in 0..MaxCardFaults
  BY DEF CardsInv, CardsTypeOK
<1> HIDE DEF x
<1>4. ~lockLost => LockFits'
  BY <1>1, <1>2, NobodyAtWork, LockFitsOn
<1>5. QED
  BY <1>1, <1>2, <1>3, <1>4, ClerkMoves

LEMMA LoseEntryStep ==
  ASSUME CardsInv, NEW c \in Clerks, LoseEntry(c)
  PROVE  CardsInv'
<1>1. /\ entryLock' = NoClerk /\ lockLost' = TRUE
      /\ UNCHANGED <<record, clerk, answered, sandbox, now>>
      /\ cardFaults' \in 0..MaxCardFaults
  BY FaultCounted DEF LoseEntry, CardsInv
<1>2. card' = card /\ decisions' = decisions /\ outcomes' = outcomes
      /\ viewer' = viewer /\ overlays' = overlays /\ clerk' = clerk /\ now' = now
  BY <1>1 DEF record, sandbox
<1>3. CardsTypeOK'
  BY <1>1, <1>2 DEF CardsInv, CardsTypeOK
<1>4. OneHoldsRow' /\ \A d \in Clerks : CommitFits(d)' /\ Keyed(d)'
  BY <1>2
     DEF CardsInv, OneHoldsRow, CommitFits, Keyed, HoldsRow, Accepted, OnRecord, OutcomeOf,
         DecisionOf
<1>5. RecordFits' /\ SandboxIsCurrent'
  BY <1>2
     DEF CardsInv, RecordFits, KeysOnce, NoCardYet, CardFollowsDecisions, StatusAfter,
         RevisionAfter, SandboxIsCurrent, Eligible
<1>6. QED
  BY <1>1, <1>3, <1>4, <1>5 DEF CardsInv

\* A request ends, with an answer or without one.
Ends(c) == Dismissed(c) /\ UNCHANGED <<record, lockLost, sandbox, now>>

LEMMA EndingStep ==
  ASSUME CardsInv, NEW c \in Clerks, clerk[c].pc # "idle", Ends(c),
         cardFaults' \in 0..MaxCardFaults,
         \/ answered' = answered
         \/ OnRecord(c) /\ SameRequest(c) /\ Answer(c, Response(c))
         \/ clerk[c].pc = "reread" /\ Answer(c, CurrentAnswer(c))
  PROVE  CardsInv'
<1>1. /\ clerk' = [clerk EXCEPT ![c] = IdleClerk]
      /\ UNCHANGED <<record, lockLost, sandbox, now>>
      /\ entryLock' \in Clerks \cup {NoClerk}
      /\ lockLost' \in BOOLEAN
  BY DEF Ends, Dismissed, CardsInv, CardsTypeOK
<1>2. IdleClerk \in Clerk /\ IdleClerk.pc = "idle" /\ IdleClerk.request = Creation
  BY CardBoundsAssumption DEF IdleClerk, Clerk, Times
<1>3. ASSUME ~lockLost PROVE LockFits'
  <2>1. \A a \in answered' \ answered :
          IsAnswer(a.key, a.request, a.response, decisions, outcomes)
    <3>1. CASE answered' = answered
      BY <3>1
    <3>2. ASSUME NEW response, Answer(c, response),
                 IsAnswer(clerk[c].key, clerk[c].request, response, decisions, outcomes)
          PROVE  \A a \in answered' \ answered :
                   IsAnswer(a.key, a.request, a.response, decisions, outcomes)
      <4>1. \A a \in answered' \ answered :
              a.key = clerk[c].key /\ a.request = clerk[c].request /\ a.response = response
        BY <3>2 DEF Answer
      <4>2. QED
        BY <3>2, <4>1
    <3>3. CASE OnRecord(c) /\ SameRequest(c) /\ Answer(c, Response(c))
      BY <3>2, <3>3, ResponseIsAnswer
    <3>4. CASE clerk[c].pc = "reread" /\ Answer(c, CurrentAnswer(c))
      <4>1. IsAnswer(clerk[c].key, clerk[c].request, CurrentAnswer(c), decisions, outcomes)
        BY <1>3, <3>4 DEF CardsInv, LockFits
      <4>2. QED
        BY <3>2, <3>4, <4>1
    <3>5. QED
      BY <3>1, <3>3, <3>4
  <2>2. QED
    BY <1>1, <1>2, <1>3, <2>1, OnlyRequestOfEntry, LockFitsOn
<1>4. ~lockLost' => LockFits'
  BY <1>1, <1>3
<1>5. QED
  BY <1>1, <1>2, <1>4, ClerkMoves

\* What is accepted is a step from the card that is there.
LEMMA AcceptedMeans ==
  ASSUME CardsTypeOK, NEW r \in CardRequest \cup {Creation}, Accepted(r)
  PROVE  /\ r.op = "create" => card = Absent
         /\ r.op = "outcome" =>
              /\ card # Absent /\ card.status = "approved" /\ card.revision = r.revision
         /\ r.op \in Commands =>
              /\ card # Absent /\ CanApply(card.status, r.op)
              /\ card.revision = r.revision
              /\ r.op = "adjust" => card.revision < MaxRevisions
<1>1. r.op = "create" => card = Absent
  BY DEF Accepted
<1>2. r.op = "outcome" =>
        card # Absent /\ card.status = "approved" /\ card.revision = r.revision
  BY DEF Accepted, Absent
<1>3. r.op \in Commands =>
        /\ CanApply(card.status, r.op)
        /\ card.revision = r.revision
        /\ r.op = "adjust" => card.revision < MaxRevisions
  BY DEF Accepted, Commands
<1>4. CanApply(card.status, r.op) => card # Absent
  BY DEF CanApply, Absent
<1>5. QED
  BY <1>1, <1>2, <1>3, <1>4

LEMMA DecideStep ==
  ASSUME CardsInv, NEW c \in Clerks, Decide(c)
  PROVE  CardsInv'
<1>1. /\ clerk[c].pc = "decide" /\ clerk[c] \in Clerk /\ CardsTypeOK
      /\ UNCHANGED <<record, lockLost, sandbox, now, cardFaults>>
      /\ clerk[c].request = Creation \/ RowFree
      /\ clerk[c].request \in CardRequest \cup {Creation}
  BY ClerkTyped DEF Decide, CardsInv
<1>2. cardFaults' \in 0..MaxCardFaults
  BY <1>1, FaultCounted
<1>3. CASE OnRecord(c)
  <2>1. \/ SameRequest(c) /\ Answer(c, Response(c))
        \/ Dismissed(c) /\ answered' = answered
    BY <1>3 DEF Decide
  <2>2. Ends(c)
    BY <1>1, <2>1 DEF Ends, Answer
  <2>3. QED
    BY <1>1, <1>2, <1>3, <2>1, <2>2, EndingStep
<1>4. CASE ~OnRecord(c) /\ ~Accepted(clerk[c].request)
  <2>1. Ends(c) /\ answered' = answered
    BY <1>1, <1>4 DEF Ends, Decide
  <2>2. QED
    BY <1>1, <1>2, <2>1, EndingStep
<1>5. CASE ~OnRecord(c) /\ Accepted(clerk[c].request)
  <2> DEFINE x == [clerk[c] EXCEPT !.pc = "commit", !.at = now]
  <2>1. /\ clerk' = [clerk EXCEPT ![c] = x] /\ entryLock' = entryLock
        /\ answered' = answered
    BY <1>5 DEF Decide
  <2>2. now \in Times
    BY <1>1 DEF CardsTypeOK
  <2>3. x \in Clerk /\ x.pc = "commit" /\ x.key = clerk[c].key
        /\ x.request = clerk[c].request
    BY <1>1, <2>2 DEF Clerk
  <2> HIDE DEF x
  <2>4. /\ clerk[c].request = Creation => card = Absent
        /\ clerk[c].request # Creation => card # Absent
    BY <1>1, <1>5, AcceptedMeans, RequestKinds
  <2>5. x.request # Creation => x.key \in CardKeys
    BY <2>3 DEF CardsInv, Keyed
  <2>6. ~lockLost => LockFits'
    <3> SUFFICES ASSUME ~lockLost PROVE LockFits'
      OBVIOUS
    <3>1. Holds(c) /\ \A d \in Clerks \ {c} : clerk[d].pc = "idle"
      BY <1>1, OnlyRequestOfEntry
    <3>2. QED
      BY <1>1, <2>1, <2>3, <2>4, <3>1, LockFitsOn DEF Holds
  <2>7. entryLock' \in Clerks \cup {NoClerk} /\ lockLost' \in BOOLEAN
        /\ (~lockLost' => LockFits')
    BY <1>1, <2>1, <2>6 DEF CardsTypeOK
  <2>8. x.pc = "commit" /\ x.request # Creation =>
          /\ x.key = clerk[c].key /\ x.request = clerk[c].request
          /\ RowFree /\ Accepted(x.request) /\ ~OnRecord(c) /\ card # Absent
    BY <1>1, <1>5, <2>3, <2>4
  <2>9. QED
    BY <1>1, <1>2, <2>1, <2>3, <2>5, <2>7, <2>8, ClerkMoves
<1>6. QED
  BY <1>3, <1>4, <1>5

\* A request learns that its transaction failed, or may have failed.
LEMMA ToLookup ==
  ASSUME CardsInv, NEW c \in Clerks, clerk[c].pc # "idle", ToStep(c, "lookup"),
         UNCHANGED <<record, entryLock, lockLost, answered, sandbox, now>>,
         cardFaults' \in 0..MaxCardFaults
  PROVE  CardsInv'
<1> DEFINE x == [clerk[c] EXCEPT !.pc = "lookup"]
<1>1. clerk[c] \in Clerk /\ CardsTypeOK
  BY ClerkTyped DEF CardsInv
<1>2. clerk' = [clerk EXCEPT ![c] = x]
  BY DEF ToStep
<1>3. x \in Clerk /\ x.pc = "lookup" /\ x.key = clerk[c].key
      /\ x.request = clerk[c].request
  BY <1>1 DEF Clerk
<1> HIDE DEF x
<1>4. x.request # Creation => x.key \in CardKeys
  BY <1>3 DEF CardsInv, Keyed
<1>5. ASSUME ~lockLost PROVE LockFits'
  <2>1. Holds(c) /\ \A d \in Clerks \ {c} : clerk[d].pc = "idle"
    BY <1>5, OnlyRequestOfEntry
  <2>2. QED
    BY <1>2, <1>3, <1>5, <2>1, LockFitsOn DEF Holds
<1>6. entryLock' \in Clerks \cup {NoClerk} /\ lockLost' \in BOOLEAN
      /\ (~lockLost' => LockFits')
  BY <1>1, <1>5 DEF CardsTypeOK
<1>7. QED
  BY <1>2, <1>3, <1>4, <1>6, ClerkMoves

LEMMA RereadStep ==
  ASSUME CardsInv, NEW c \in Clerks, Reread(c)
  PROVE  CardsInv'
<1>1. /\ clerk[c].pc = "reread" /\ CardsTypeOK
      /\ UNCHANGED <<record, lockLost, sandbox, now>>
      /\ CardFault \/ UNCHANGED cardFaults
  BY DEF Reread, CardsInv
<1>2. cardFaults' \in 0..MaxCardFaults
  BY <1>1, FaultCounted
<1>3. CASE Answer(c, CurrentAnswer(c))
  <2>1. Ends(c)
    BY <1>1, <1>3 DEF Ends, Answer
  <2>2. QED
    BY <1>1, <1>2, <1>3, <2>1, EndingStep
<1>4. CASE ToStep(c, "lookup") /\ UNCHANGED <<entryLock, answered>>
  BY <1>1, <1>2, <1>4, ToLookup
<1>5. QED
  BY <1>3, <1>4 DEF Reread

LEMMA LookupStep ==
  ASSUME CardsInv, NEW c \in Clerks, Lookup(c) \/ CrashClerk(c)
  PROVE  CardsInv'
<1>1. /\ clerk[c].pc # "idle" /\ CardsTypeOK
      /\ UNCHANGED <<record, lockLost, sandbox, now>>
      /\ CardFault \/ UNCHANGED cardFaults
  BY DEF Lookup, CrashClerk, CardsInv
<1>2. cardFaults' \in 0..MaxCardFaults
  BY <1>1, FaultCounted
<1>3. \/ OnRecord(c) /\ SameRequest(c) /\ Answer(c, Response(c))
      \/ Dismissed(c) /\ answered' = answered
  BY DEF Lookup, CrashClerk
<1>4. Ends(c)
  BY <1>1, <1>3 DEF Ends, Answer
<1>5. QED
  BY <1>1, <1>2, <1>3, <1>4, EndingStep

-----------------------------------------------------------------------------
(***************************************************************************)
(* The card: what a commit writes                                          *)
(***************************************************************************)

AnswersStay ==
  \A k, r, response :
    IsAnswer(k, r, response, decisions, outcomes) =>
      IsAnswer(k, r, response, decisions', outcomes')

\* The answer of the request with the record after the commit.
AnswerWritten(c) ==
  LET r == clerk[c].request IN
  IsAnswer(clerk[c].key, r,
           IF r.op = "outcome" THEN [outcome |-> Len(outcomes')]
           ELSE [status |-> card'.status, revision |-> card'.revision,
                 decisions |-> decisions'],
           decisions', outcomes')

RecordTyped ==
  /\ card \in [status : CardStatuses, revision : 0..MaxRevisions, at : Times]
  /\ decisions \in Seq(Decision)
  /\ outcomes \in Seq(Outcome)

\* Nobody tries a card that is not approved.
LEMMA NoSandboxYet ==
  ASSUME CardsInv, card.status # "approved", UNCHANGED sandbox
  PROVE  SandboxIsCurrent'
BY DEF CardsInv, SandboxIsCurrent, Eligible, sandbox

LEMMA AppendFacts ==
  ASSUME NEW S, NEW s \in Seq(S), NEW e \in S
  PROVE  /\ Append(s, e) \in Seq(S) /\ Len(Append(s, e)) = Len(s) + 1
         /\ DOMAIN Append(s, e) = DOMAIN s \cup {Len(s) + 1}
         /\ Len(s) + 1 \notin DOMAIN s /\ Len(s) \in Nat /\ DOMAIN s = 1..Len(s)
         /\ Append(s, e)[Len(s) + 1] = e
         /\ \A n \in DOMAIN s : Append(s, e)[n] = s[n]
         /\ Append(s, e) # <<>>
OBVIOUS

LEMMA CreationWrites ==
  ASSUME CardsInv, NEW c \in Clerks, clerk[c].request = Creation, card = Absent,
         Written(c), UNCHANGED sandbox
  PROVE  RecordTyped' /\ RecordFits' /\ SandboxIsCurrent' /\ AnswersStay /\ AnswerWritten(c)
<1>1. /\ card' = [status |-> "new", revision |-> 1, at |-> 0]
      /\ decisions' = decisions /\ outcomes' = outcomes
  BY DEF Written, Creation
<1>2. decisions = <<>> /\ outcomes = <<>>
  BY DEF CardsInv, RecordFits, NoCardYet, CardFollowsDecisions
<1>3. card.status # "approved"
  BY DEF Absent
<1>4. RecordTyped'
  <2>1. 1 \in 0..MaxRevisions
    BY CardBoundsAssumption
  <2>2. QED
    BY <1>1, <2>1, TimeStarts DEF CardsInv, CardsTypeOK, RecordTyped, CardStatuses
<1>5. RecordFits'
  <2>1. card' # Absent /\ card'.status = "new" /\ card'.revision = 1
    BY <1>1 DEF Absent
  <2>2. Len(decisions') = 0 /\ DOMAIN decisions' = {}
    BY <1>1, <1>2
  <2>3. CardFollowsDecisions'
    BY <2>1, <2>2 DEF CardFollowsDecisions, StatusAfter, RevisionAfter
  <2>4. QED
    BY <1>1, <2>1, <2>3 DEF CardsInv, RecordFits, KeysOnce, NoCardYet
<1>6. AnswersStay
  BY <1>1 DEF AnswersStay
<1>7. AnswerWritten(c)
  BY <1>1, <1>2 DEF AnswerWritten, IsAnswer, Creation
<1>8. QED
  BY <1>3, <1>4, <1>5, <1>6, <1>7, NoSandboxYet

LEMMA OutcomeWrites ==
  ASSUME CardsInv, NEW c \in Clerks, HoldsRow(c), clerk[c].request.op = "outcome",
         Written(c), UNCHANGED sandbox
  PROVE  RecordTyped' /\ RecordFits' /\ SandboxIsCurrent' /\ AnswersStay /\ AnswerWritten(c)
<1> DEFINE k == clerk[c].key
           r == clerk[c].request
           e == [key |-> k, revision |-> r.revision]
<1>1. /\ outcomes' = Append(outcomes, e) /\ card' = card /\ decisions' = decisions
  BY DEF Written
<1>2. /\ r \in CardRequest \cup {Creation} /\ r.revision \in Revisions /\ k \in CardKeys
      /\ ~OnRecord(c) /\ card # Absent /\ outcomes \in Seq(Outcome)
  BY ClerkTyped, RequestKinds DEF CardsInv, CommitFits, Keyed, HoldsRow, CardsTypeOK
<1>3. e \in Outcome
  BY <1>2 DEF Outcome
<1>4. OutcomeOf(k) = {}
  BY <1>2 DEF OnRecord
<1>5. e.key = k
  OBVIOUS
<1> HIDE DEF e
<1>6. /\ outcomes' \in Seq(Outcome) /\ Len(outcomes') = Len(outcomes) + 1
      /\ DOMAIN outcomes' = DOMAIN outcomes \cup {Len(outcomes) + 1}
      /\ Len(outcomes) + 1 \notin DOMAIN outcomes
      /\ outcomes'[Len(outcomes) + 1] = e
      /\ \A n \in DOMAIN outcomes : outcomes'[n] = outcomes[n]
  BY <1>1, <1>2, <1>3, AppendFacts
<1>7. RecordTyped'
  BY <1>1, <1>6 DEF CardsInv, CardsTypeOK, RecordTyped
<1>8. KeysOnce'
  <2>1. \A n \in DOMAIN outcomes : outcomes[n].key # k
    BY <1>4 DEF OutcomeOf
  <2>2. \A m, n \in DOMAIN outcomes' : outcomes'[m].key = outcomes'[n].key => m = n
    BY <1>5, <1>6, <2>1 DEF CardsInv, RecordFits, KeysOnce
  <2>3. QED
    BY <1>1, <2>2 DEF CardsInv, RecordFits, KeysOnce
<1>9. NoCardYet' /\ CardFollowsDecisions'
  BY <1>1, <1>2
     DEF CardsInv, RecordFits, NoCardYet, CardFollowsDecisions, StatusAfter, RevisionAfter
<1>10. SandboxIsCurrent'
  BY <1>1 DEF CardsInv, SandboxIsCurrent, Eligible, sandbox
<1>11. AnswersStay
  BY <1>1, <1>6 DEF AnswersStay, IsAnswer
<1>12. AnswerWritten(c)
  BY <1>5, <1>6 DEF AnswerWritten, IsAnswer
<1>13. QED
  BY <1>7, <1>8, <1>9, <1>10, <1>11, <1>12 DEF RecordFits

LEMMA DecisionWrites ==
  ASSUME CardsInv, NEW c \in Clerks, HoldsRow(c), clerk[c].request.op \in Commands,
         Written(c), UNCHANGED sandbox
  PROVE  RecordTyped' /\ RecordFits' /\ SandboxIsCurrent' /\ AnswersStay /\ AnswerWritten(c)
<1> DEFINE k == clerk[c].key
           r == clerk[c].request
           next == NextRevision(c)
           e == [key |-> k, request |-> r, revision |-> next]
           l == Len(decisions)
<1>1. /\ decisions' = Append(decisions, e) /\ outcomes' = outcomes
      /\ card' = [status |-> Applied(r.op), revision |-> next,
                  at |-> IF IsTerminal(Applied(r.op)) THEN clerk[c].at ELSE 0]
  <2>1. r.op # "create" /\ r.op # "outcome"
    BY DEF Commands
  <2>2. QED
    BY <2>1 DEF Written
<1>2. /\ r \in CardRequest /\ r.revision \in Revisions /\ k \in CardKeys
      /\ Accepted(r) /\ ~OnRecord(c) /\ card # Absent
      /\ decisions \in Seq(Decision) /\ CardsTypeOK
      /\ CardFollowsDecisions /\ KeysOnce /\ clerk[c].at \in Times
  <2>1. r \in CardRequest \cup {Creation} /\ r # Creation
    BY ClerkTyped DEF CardsInv, HoldsRow
  <2>2. r \in CardRequest /\ r.revision \in Revisions
    BY <2>1, RequestKinds
  <2>3. QED
    BY <2>2, ClerkTyped DEF CardsInv, CommitFits, Keyed, HoldsRow, CardsTypeOK, RecordFits
<1>3. /\ CanApply(card.status, r.op) /\ card.revision = r.revision
      /\ r.op = "adjust" => card.revision < MaxRevisions
  BY <1>2, AcceptedMeans
<1>4. next = r.revision + (IF r.op = "adjust" THEN 1 ELSE 0)
  BY DEF NextRevision
<1>5. next \in Revisions
  <2>1. MaxRevisions \in Nat /\ r.revision \in 1..MaxRevisions
    BY <1>2, CardBoundsAssumption DEF Revisions
  <2>2. QED
    BY <1>3, <1>4, <2>1 DEF Revisions
<1>6. e \in Decision /\ e.key = k /\ e.request = r /\ e.revision = next
  BY <1>2, <1>5 DEF Decision
<1>7. DecisionOf(k) = {}
  BY <1>2 DEF OnRecord, Commands
<1> HIDE DEF e, next
<1>8. /\ decisions' \in Seq(Decision) /\ Len(decisions') = l + 1
      /\ DOMAIN decisions' = DOMAIN decisions \cup {l + 1}
      /\ l + 1 \notin DOMAIN decisions /\ l \in Nat /\ DOMAIN decisions = 1..l
      /\ decisions'[l + 1] = e
      /\ \A n \in DOMAIN decisions : decisions'[n] = decisions[n]
  BY <1>1, <1>2, <1>6, AppendFacts
<1>9. Applied(r.op) \in {"reviewed", "approved", "dismissed"}
  BY DEF Applied, Commands
<1>10. RecordTyped'
  <2>1. next \in 0..MaxRevisions
    BY <1>5, CardBoundsAssumption DEF Revisions
  <2>2. (IF IsTerminal(Applied(r.op)) THEN clerk[c].at ELSE 0) \in Times
    BY <1>2, TimeStarts
  <2>3. card' \in [status : CardStatuses, revision : 0..MaxRevisions, at : Times]
    BY <1>1, <1>9, <2>1, <2>2 DEF CardStatuses
  <2>4. QED
    BY <1>1, <1>2, <1>8, <2>3 DEF CardsTypeOK, RecordTyped
<1>11. card'.status = Applied(r.op) /\ card'.revision = next /\ card' # Absent
  BY <1>1, <1>9 DEF Absent
<1>12. KeysOnce'
  <2>1. \A n \in DOMAIN decisions : decisions[n].key # k
    BY <1>7 DEF DecisionOf
  <2>2. \A m, n \in DOMAIN decisions' : decisions'[m].key = decisions'[n].key => m = n
    BY <1>2, <1>6, <1>8, <2>1 DEF KeysOnce
  <2>3. QED
    BY <1>1, <1>2, <2>2 DEF KeysOnce
<1>13. CardFollowsDecisions'
  <2>1. \A n \in 0..l : StatusAfter(n)' = StatusAfter(n) /\ RevisionAfter(n)' = RevisionAfter(n)
    BY <1>8 DEF StatusAfter, RevisionAfter
  <2>2. card.status = StatusAfter(l) /\ card.revision = RevisionAfter(l)
    BY <1>2 DEF CardFollowsDecisions
  <2>3. /\ card'.status = StatusAfter(Len(decisions))'
        /\ card'.revision = RevisionAfter(Len(decisions))'
    <3>1. StatusAfter(Len(decisions))' = Applied(decisions'[l + 1].request.op)
          /\ RevisionAfter(Len(decisions))' = decisions'[l + 1].revision
      BY <1>8 DEF StatusAfter, RevisionAfter
    <3>2. QED
      BY <1>6, <1>8, <1>11, <3>1
  <2>4. ASSUME NEW n \in DOMAIN decisions'
        PROVE  LET op == decisions'[n].request.op IN
               /\ CanApply(StatusAfter(n - 1)', op)
               /\ decisions'[n].revision
                    = RevisionAfter(n - 1)' + (IF op = "adjust" THEN 1 ELSE 0)
    <3>1. CASE n = l + 1
      <4>1. n - 1 = l /\ l \in 0..l
        BY <1>8, <3>1
      <4>2. StatusAfter(n - 1)' = card.status /\ RevisionAfter(n - 1)' = card.revision
        BY <2>1, <2>2, <4>1
      <4>3. decisions'[n].request = r /\ decisions'[n].revision = next
        BY <1>6, <1>8, <3>1
      <4>4. QED
        BY <1>3, <1>4, <4>2, <4>3
    <3>2. CASE n # l + 1
      <4>1. n \in DOMAIN decisions /\ n - 1 \in 0..l
        BY <1>8, <3>2
      <4>2. /\ StatusAfter(n - 1)' = StatusAfter(n - 1)
            /\ RevisionAfter(n - 1)' = RevisionAfter(n - 1)
            /\ decisions'[n] = decisions[n]
        BY <1>8, <2>1, <4>1
      <4>3. QED
        BY <1>2, <4>1, <4>2 DEF CardFollowsDecisions
    <3>3. QED
      BY <3>1, <3>2
  <2>5. QED
    BY <1>11, <2>3, <2>4 DEF CardFollowsDecisions
<1>14. NoCardYet'
  BY <1>11 DEF NoCardYet
<1>15. SandboxIsCurrent'
  <2>1. card.status # "approved"
    BY <1>3 DEF CanApply
  <2>2. QED
    BY <2>1, NoSandboxYet
<1>16. AnswersStay
  <2> SUFFICES ASSUME NEW q, NEW s, NEW response,
                      IsAnswer(q, s, response, decisions, outcomes)
               PROVE  IsAnswer(q, s, response, decisions', outcomes')
    BY DEF AnswersStay
  <2>1. \A n \in DOMAIN decisions : SubSeq(decisions', 1, n) = SubSeq(decisions, 1, n)
    BY <1>1, <1>2, <1>6, SubSeqs
  <2>2. QED
    BY <1>1, <1>8, <2>1 DEF IsAnswer
<1>17. AnswerWritten(c)
  <2>1. SubSeq(decisions', 1, l + 1) = decisions'
    BY <1>8, SubSeqs
  <2>2. /\ l + 1 \in DOMAIN decisions' /\ decisions'[l + 1].key = k
        /\ [status |-> card'.status, revision |-> card'.revision, decisions |-> decisions']
             = [status |-> Applied(r.op), revision |-> decisions'[l + 1].revision,
                decisions |-> SubSeq(decisions', 1, l + 1)]
    BY <1>6, <1>8, <1>11, <2>1
  <2>3. r.op # "outcome"
    BY DEF Commands
  <2>4. QED
    BY <2>2, <2>3 DEF AnswerWritten, IsAnswer
<1>18. QED
  BY <1>10, <1>12, <1>13, <1>14, <1>15, <1>16, <1>17 DEF RecordFits

LEMMA WrittenKeeps ==
  ASSUME CardsInv, NEW c \in Clerks, clerk[c].pc = "commit", ~Clashes(c), Written(c),
         UNCHANGED sandbox
  PROVE  RecordTyped' /\ RecordFits' /\ SandboxIsCurrent' /\ AnswersStay /\ AnswerWritten(c)
<1>1. clerk[c].request \in CardRequest \cup {Creation}
  BY ClerkTyped DEF CardsInv
<1>2. CASE clerk[c].request = Creation
  BY <1>2, CreationWrites DEF Clashes
<1>3. CASE clerk[c].request # Creation
  <2>1. HoldsRow(c) /\ (clerk[c].request.op = "outcome" \/ clerk[c].request.op \in Commands)
    BY <1>1, <1>3, RequestKinds DEF HoldsRow
  <2>2. QED
    BY <2>1, OutcomeWrites, DecisionWrites
<1>4. QED
  BY <1>2, <1>3

LEMMA CommitStep ==
  ASSUME CardsInv, NEW c \in Clerks, NEW o \in {"ok", "lost", "fail"}, Commit(c, o)
  PROVE  CardsInv'
<1>1. /\ clerk[c].pc = "commit" /\ clerk[c].pc # "idle" /\ CardsTypeOK
      /\ UNCHANGED <<entryLock, lockLost, answered, sandbox, now>>
      /\ cardFaults' \in 0..MaxCardFaults
  <2>1. CardFault \/ UNCHANGED cardFaults
    BY DEF Commit, CardOutcome
  <2>2. QED
    BY <2>1, FaultCounted DEF Commit, CardsInv
<1>2. CASE o = "fail" \/ Clashes(c)
  <2>1. UNCHANGED record /\ ToStep(c, "lookup")
    BY <1>2 DEF Commit
  <2>2. QED
    BY <1>1, <2>1, ToLookup
<1>3. CASE o # "fail" /\ ~Clashes(c)
  <2> DEFINE x == [clerk[c] EXCEPT !.pc = IF o = "ok" THEN "reread" ELSE "lookup"]
  <2>1. Written(c) /\ clerk' = [clerk EXCEPT ![c] = x]
    BY <1>3 DEF Commit, ToStep
  <2>2. clerk[c] \in Clerk
    BY <1>1, ClerkTyped
  <2>3. /\ x \in Clerk /\ x.pc \in {"reread", "lookup"} /\ x.key = clerk[c].key
        /\ x.request = clerk[c].request
    BY <2>2 DEF Clerk
  <2> HIDE DEF x
  <2>4. RecordTyped' /\ RecordFits' /\ SandboxIsCurrent' /\ AnswersStay /\ AnswerWritten(c)
    BY <1>1, <1>3, <2>1, WrittenKeeps
  <2>5. clerk'[c] = x /\ \A d \in Clerks \ {c} : clerk'[d] = clerk[d]
    BY <1>1, <2>1 DEF CardsTypeOK
  <2>6. CardsTypeOK'
    BY <1>1, <2>1, <2>3, <2>4 DEF CardsTypeOK, RecordTyped, sandbox, Clerk
  <2>7. OneHoldsRow'
    BY <2>3, <2>5 DEF CardsInv, OneHoldsRow, HoldsRow
  <2>8. ASSUME NEW d \in Clerks PROVE CommitFits(d)' /\ Keyed(d)'
    <3>1. Keyed(d)'
      BY <2>3, <2>5 DEF CardsInv, Keyed
    <3>2. ~HoldsRow(d)'
      <4>1. CASE d = c
        BY <2>3, <2>5, <4>1 DEF HoldsRow
      <4>2. CASE d # c
        <5>1. ASSUME HoldsRow(d) PROVE FALSE
          <6>1. ~HoldsRow(c) /\ card # Absent
            BY <4>2, <5>1 DEF CardsInv, OneHoldsRow, CommitFits
          <6>2. clerk[c].request = Creation
            BY <1>1, <6>1 DEF HoldsRow
          <6>3. QED
            BY <1>3, <6>1, <6>2 DEF Clashes
        <5>2. QED
          BY <2>5, <4>2, <5>1 DEF HoldsRow
      <4>3. QED
        BY <4>1, <4>2
    <3>3. QED
      BY <3>1, <3>2 DEF CommitFits
  <2>9. ASSUME ~lockLost PROVE LockFits'
    <3>1. entryLock = c /\ \A d \in Clerks \ {c} : clerk[d].pc = "idle"
      BY <1>1, <2>9, OnlyRequestOfEntry DEF Holds
    <3>2. \A d \in Clerks : clerk'[d].pc # "idle" => entryLock' = d
      BY <1>1, <2>5, <3>1
    <3>3. \A d \in Clerks : clerk'[d].pc \notin {"commit"} /\ (clerk'[d].pc = "reread" => d = c)
      BY <2>3, <2>5, <3>1
    <3>4. IsAnswer(clerk'[c].key, clerk'[c].request, CurrentAnswer(c)', decisions', outcomes')
      BY <2>3, <2>4, <2>5 DEF AnswerWritten, CurrentAnswer
    <3>5. \A a \in answered' : IsAnswer(a.key, a.request, a.response, decisions', outcomes')
      BY <1>1, <2>4, <2>9 DEF CardsInv, LockFits, AnswersStay
    <3>6. QED
      BY <3>2, <3>3, <3>4, <3>5 DEF LockFits, Holds
  <2>10. QED
    BY <1>1, <2>4, <2>6, <2>7, <2>8, <2>9 DEF CardsInv
<1>4. QED
  BY <1>2, <1>3

-----------------------------------------------------------------------------
(***************************************************************************)
(* The card: viewers                                                       *)
(***************************************************************************)

ViewersTyped ==
  /\ viewer \in [Viewers -> [status : {"absent", "arriving", "active", "lapsed", "ended"},
                             since : Times, epoch : 0..MaxEpochs]]
  /\ overlays \in [Viewers -> Seq(Overlay)]

\* What viewers, or the clock, do is nothing to the operator's requests.
LEMMA ViewersMove ==
  ASSUME CardsInv, UNCHANGED <<record, lockLost, entryLock, clerk, answered, cardFaults>>,
         now' \in Times, ViewersTyped', SandboxIsCurrent'
  PROVE  CardsInv'
<1>1. card' = card /\ decisions' = decisions /\ outcomes' = outcomes /\ clerk' = clerk
      /\ lockLost' = lockLost /\ entryLock' = entryLock /\ answered' = answered
      /\ cardFaults' = cardFaults
  BY DEF record
<1>2. CardsTypeOK'
  BY <1>1 DEF CardsInv, CardsTypeOK, ViewersTyped
<1>3. OneHoldsRow' /\ \A d \in Clerks : CommitFits(d)' /\ Keyed(d)'
  BY <1>1
     DEF CardsInv, OneHoldsRow, CommitFits, Keyed, HoldsRow, Accepted, OnRecord, OutcomeOf,
         DecisionOf
<1>4. RecordFits'
  BY <1>1
     DEF CardsInv, RecordFits, KeysOnce, NoCardYet, CardFollowsDecisions, StatusAfter,
         RevisionAfter
<1>5. ~lockLost' => LockFits'
  BY <1>1 DEF CardsInv, LockFits, Holds, CurrentAnswer
<1>6. QED
  BY <1>2, <1>3, <1>4, <1>5 DEF CardsInv

\* One viewer's session and sandbox change; nobody else's do.
LEMMA ViewerMoves ==
  ASSUME CardsInv, NEW v \in Viewers,
         UNCHANGED <<record, lockLost, entryLock, clerk, answered, now, cardFaults>>,
         NEW x \in [status : {"absent", "arriving", "active", "lapsed", "ended"},
                    since : Times, epoch : 0..MaxEpochs],
         NEW s \in Seq(Overlay),
         viewer' = [viewer EXCEPT ![v] = x], overlays' = [overlays EXCEPT ![v] = s],
         s # <<>> =>
           /\ x.status \in {"active", "lapsed"}
           /\ card.status = "approved" /\ card.at < x.since
           /\ \A n \in DOMAIN s :
                /\ s[n].epoch = x.epoch /\ s[n].base = card.revision
                /\ CanApply(IF n = 1 THEN "new" ELSE s[n - 1].status, s[n].command)
  PROVE  CardsInv'
<1>1. card' = card /\ now' \in Times
  BY DEF record, CardsInv, CardsTypeOK
<1>2. ViewersTyped'
  BY DEF CardsInv, CardsTypeOK, ViewersTyped
<1>3. /\ viewer'[v] = x /\ overlays'[v] = s
      /\ \A u \in Viewers \ {v} : viewer'[u] = viewer[u] /\ overlays'[u] = overlays[u]
  BY DEF CardsInv, CardsTypeOK
<1>4. SandboxIsCurrent'
  BY <1>1, <1>3 DEF CardsInv, SandboxIsCurrent, Eligible
<1>5. QED
  BY <1>1, <1>2, <1>4, ViewersMove

LEMMA ViewerTyped ==
  ASSUME CardsInv, NEW v \in Viewers
  PROVE  /\ viewer[v] \in [status : {"absent", "arriving", "active", "lapsed", "ended"},
                           since : Times, epoch : 0..MaxEpochs]
         /\ overlays[v] \in Seq(Overlay)
         /\ overlays = [overlays EXCEPT ![v] = overlays[v]]
         /\ viewer = [viewer EXCEPT ![v] = viewer[v]]
         /\ overlays[v] # <<>> =>
              /\ viewer[v].status \in {"active", "lapsed"}
              /\ card.status = "approved" /\ card.at < viewer[v].since
              /\ \A n \in DOMAIN overlays[v] :
                   /\ overlays[v][n].epoch = viewer[v].epoch
                   /\ overlays[v][n].base = card.revision
                   /\ CanApply(IF n = 1 THEN "new" ELSE overlays[v][n - 1].status,
                               overlays[v][n].command)
BY DEF CardsInv, CardsTypeOK, SandboxIsCurrent, Eligible

\* Sessions that are opened, end or clear their sandbox, or only pass their time.
LEMMA SessionSteps ==
  ASSUME CardsInv, NEW v \in Viewers, NEW e \in 0..MaxEpochs,
         \/ Arrive(v) \/ OpenSession(v) \/ Lapse(v) \/ EndViewer(v)
         \/ ResetSandbox(v, e) \/ ClearSandbox(v, e)
  PROVE  CardsInv'
<1> DEFINE z == viewer[v]
<1>1. /\ UNCHANGED <<record, lockLost, entryLock, clerk, answered, now, cardFaults>>
      /\ now \in Times /\ MaxEpochs \in Nat
  BY CardBoundsAssumption
     DEF Arrive, OpenSession, Lapse, EndViewer, ResetSandbox, ClearSandbox, CardsInv,
         CardsTypeOK
<1>2. /\ z \in [status : {"absent", "arriving", "active", "lapsed", "ended"},
                since : Times, epoch : 0..MaxEpochs]
      /\ overlays[v] \in Seq(Overlay) /\ <<>> \in Seq(Overlay)
      /\ overlays = [overlays EXCEPT ![v] = overlays[v]]
      /\ viewer = [viewer EXCEPT ![v] = z]
  BY ViewerTyped
<1>3. z.status \in {"absent", "arriving"} => overlays[v] = <<>>
  BY ViewerTyped
<1>4. CASE Arrive(v)
  <2> DEFINE x == [status |-> "arriving", since |-> now, epoch |-> 0]
  <2>1. x \in [status : {"absent", "arriving", "active", "lapsed", "ended"},
               since : Times, epoch : 0..MaxEpochs]
    BY <1>1
  <2>2. viewer' = [viewer EXCEPT ![v] = x] /\ overlays' = overlays /\ overlays[v] = <<>>
    BY <1>3, <1>4 DEF Arrive
  <2> HIDE DEF x
  <2>3. QED
    BY <1>1, <1>2, <2>1, <2>2, ViewerMoves
<1>5. CASE OpenSession(v)
  <2> DEFINE x == [z EXCEPT !.status = "active"]
  <2>1. x \in [status : {"absent", "arriving", "active", "lapsed", "ended"},
               since : Times, epoch : 0..MaxEpochs]
    BY <1>2
  <2>2. viewer' = [viewer EXCEPT ![v] = x] /\ overlays' = overlays /\ overlays[v] = <<>>
    BY <1>3, <1>5 DEF OpenSession
  <2> HIDE DEF x
  <2>3. QED
    BY <1>1, <1>2, <2>1, <2>2, ViewerMoves
<1>6. CASE Lapse(v)
  <2> DEFINE x == [z EXCEPT !.status = "lapsed"]
  <2>1. /\ x \in [status : {"absent", "arriving", "active", "lapsed", "ended"},
                  since : Times, epoch : 0..MaxEpochs]
        /\ x.status = "lapsed" /\ x.since = z.since /\ x.epoch = z.epoch
    BY <1>2
  <2>2. viewer' = [viewer EXCEPT ![v] = x] /\ overlays' = overlays
    BY <1>6 DEF Lapse
  <2> HIDE DEF x
  <2>3. overlays[v] # <<>> =>
          /\ x.status \in {"active", "lapsed"}
          /\ card.status = "approved" /\ card.at < x.since
          /\ \A n \in DOMAIN overlays[v] :
               /\ overlays[v][n].epoch = x.epoch /\ overlays[v][n].base = card.revision
               /\ CanApply(IF n = 1 THEN "new" ELSE overlays[v][n - 1].status,
                           overlays[v][n].command)
    BY <2>1, ViewerTyped
  <2>4. overlays' = [overlays EXCEPT ![v] = overlays[v]]
    BY <1>2, <2>2
  <2> DEFINE s == overlays[v]
  <2> HIDE DEF s
  <2>5. /\ s \in Seq(Overlay) /\ overlays' = [overlays EXCEPT ![v] = s]
        /\ s # <<>> =>
             /\ x.status \in {"active", "lapsed"}
             /\ card.status = "approved" /\ card.at < x.since
             /\ \A n \in DOMAIN s :
                  /\ s[n].epoch = x.epoch /\ s[n].base = card.revision
                  /\ CanApply(IF n = 1 THEN "new" ELSE s[n - 1].status, s[n].command)
    BY <1>2, <2>3, <2>4 DEF s
  <2>6. QED
    BY <1>1, <2>1, <2>2, <2>5, ViewerMoves
<1>7. CASE EndViewer(v)
  <2> DEFINE x == [z EXCEPT !.status = "ended"]
  <2>1. x \in [status : {"absent", "arriving", "active", "lapsed", "ended"},
               since : Times, epoch : 0..MaxEpochs]
    BY <1>2
  <2>2. viewer' = [viewer EXCEPT ![v] = x] /\ overlays' = [overlays EXCEPT ![v] = <<>>]
    BY <1>7 DEF EndViewer
  <2> HIDE DEF x
  <2>3. QED
    BY <1>1, <1>2, <2>1, <2>2, ViewerMoves
<1>8. CASE ResetSandbox(v, e)
  <2>1. viewer' = viewer /\ overlays' = [overlays EXCEPT ![v] = <<>>]
    BY <1>8 DEF ResetSandbox
  <2>2. QED
    BY <1>1, <1>2, <2>1, ViewerMoves
<1>9. CASE ClearSandbox(v, e)
  <2> DEFINE x == [z EXCEPT !.epoch = @ + 1]
  <2>1. z.epoch + 1 \in 0..MaxEpochs
    BY <1>1, <1>2, <1>9 DEF ClearSandbox
  <2>2. x \in [status : {"absent", "arriving", "active", "lapsed", "ended"},
               since : Times, epoch : 0..MaxEpochs]
    BY <1>2, <2>1
  <2>3. viewer' = [viewer EXCEPT ![v] = x] /\ overlays' = [overlays EXCEPT ![v] = <<>>]
    BY <1>9 DEF ClearSandbox
  <2> HIDE DEF x
  <2>4. QED
    BY <1>1, <1>2, <2>2, <2>3, ViewerMoves
<1>10. QED
  BY <1>4, <1>5, <1>6, <1>7, <1>8, <1>9

LEMMA SimulateStep ==
  ASSUME CardsInv, NEW v \in Viewers, NEW e \in 0..MaxEpochs, NEW k \in SandboxKeys,
         NEW command \in Commands, Simulate(v, e, k, command)
  PROVE  CardsInv'
<1> DEFINE z == viewer[v]
           o == [key |-> k, epoch |-> e, base |-> card.revision, command |-> command,
                 status |-> Applied(command)]
           s == Append(overlays[v], o)
<1>1. /\ UNCHANGED <<record, lockLost, entryLock, clerk, answered, viewer, now, cardFaults>>
      /\ z.status = "active" /\ z.epoch = e
      /\ card.status = "approved" /\ card.at < z.since
      /\ CanApply(SandboxStatus(v), command)
      /\ overlays' = [overlays EXCEPT ![v] = s]
  BY DEF Simulate, EpochHolds, Eligible
<1>2. /\ z \in [status : {"absent", "arriving", "active", "lapsed", "ended"},
                since : Times, epoch : 0..MaxEpochs]
      /\ overlays[v] \in Seq(Overlay)
      /\ viewer = [viewer EXCEPT ![v] = z]
  BY ViewerTyped
<1>3. card.revision \in Revisions
  <2>1. card # Absent /\ CardFollowsDecisions /\ decisions \in Seq(Decision)
    <3>1. card # Absent
      BY <1>1 DEF Absent
    <3>2. QED
      BY <3>1 DEF CardsInv, CardsTypeOK, RecordFits
  <2>2. card.revision = RevisionAfter(Len(decisions))
    BY <2>1 DEF CardFollowsDecisions
  <2>3. RevisionAfter(Len(decisions)) \in Revisions
    <3>1. 1 \in Revisions
      BY CardBoundsAssumption DEF Revisions
    <3>2. Len(decisions) # 0 => decisions[Len(decisions)].revision \in Revisions
      <4>1. \A n \in DOMAIN decisions : decisions[n].revision \in Revisions
        <5>1. \A n \in DOMAIN decisions : decisions[n] \in Decision
          BY <2>1
        <5>2. \A d \in Decision : d.revision \in Revisions
          BY DEF Decision
        <5>3. QED
          BY <5>1, <5>2
      <4>2. Len(decisions) # 0 => Len(decisions) \in DOMAIN decisions
        BY <2>1
      <4>3. QED
        BY <4>1, <4>2
    <3>3. QED
      BY <3>1, <3>2 DEF RevisionAfter
  <2>4. QED
    BY <2>2, <2>3
<1>4. Applied(command) \in CardStatuses
  BY DEF Applied, Commands, CardStatuses
<1>5. o \in Overlay /\ o.epoch = e /\ o.base = card.revision /\ o.command = command
  BY <1>3, <1>4 DEF Overlay
<1> HIDE DEF o
<1>6. /\ s \in Seq(Overlay) /\ Len(s) = Len(overlays[v]) + 1
      /\ DOMAIN s = DOMAIN overlays[v] \cup {Len(overlays[v]) + 1}
      /\ Len(overlays[v]) \in Nat /\ DOMAIN overlays[v] = 1..Len(overlays[v])
      /\ s[Len(overlays[v]) + 1] = o
      /\ \A n \in DOMAIN overlays[v] : s[n] = overlays[v][n]
  BY <1>2, <1>5, AppendFacts
<1> HIDE DEF s
<1>7. ASSUME NEW n \in DOMAIN s
      PROVE  /\ s[n].epoch = z.epoch /\ s[n].base = card.revision
             /\ CanApply(IF n = 1 THEN "new" ELSE s[n - 1].status, s[n].command)
  <2>1. CASE n \in DOMAIN overlays[v]
    <3>1. overlays[v] # <<>>
      BY <2>1
    <3>2. /\ overlays[v][n].epoch = z.epoch /\ overlays[v][n].base = card.revision
          /\ CanApply(IF n = 1 THEN "new" ELSE overlays[v][n - 1].status,
                      overlays[v][n].command)
      BY <2>1, <3>1, ViewerTyped
    <3>3. s[n] = overlays[v][n] /\ (n # 1 => s[n - 1] = overlays[v][n - 1])
      BY <1>6, <2>1
    <3>4. QED
      BY <3>2, <3>3
  <2>2. CASE n = Len(overlays[v]) + 1
    <3>1. s[n] = o
      BY <1>6, <2>2
    <3>2. (IF n = 1 THEN "new" ELSE s[n - 1].status) = SandboxStatus(v)
      <4>1. CASE overlays[v] = <<>>
        BY <2>2, <4>1 DEF SandboxStatus
      <4>2. CASE overlays[v] # <<>>
        <5>1. Len(overlays[v]) # 0 /\ n # 1 /\ n - 1 = Len(overlays[v])
          BY <1>2, <1>6, <2>2, <4>2
        <5>2. QED
          BY <1>6, <4>2, <5>1 DEF SandboxStatus
      <4>3. QED
        BY <4>1, <4>2
    <3>3. QED
      BY <1>1, <1>5, <3>1, <3>2
  <2>3. QED
    BY <1>6, <2>1, <2>2
<1>8. QED
  BY <1>1, <1>2, <1>6, <1>7, ViewerMoves

LEMMA CardsStart == CardsInit => CardsInv
<1> SUFFICES ASSUME CardsInit PROVE CardsInv
  OBVIOUS
<1>1. /\ \A c \in Clerks : clerk[c] = IdleClerk
      /\ \A v \in Viewers : viewer[v] = NoSession /\ overlays[v] = <<>>
      /\ Len(decisions) = 0 /\ DOMAIN decisions = {} /\ DOMAIN outcomes = {}
  BY DEF CardsInit
<1>2. IdleClerk \in Clerk /\ IdleClerk.pc = "idle" /\ IdleClerk.request = Creation
  BY TimeStarts DEF IdleClerk, Clerk
<1>3. CardsTypeOK
  <2>1. Absent \in [status : CardStatuses, revision : 0..MaxRevisions, at : Times]
    BY TimeStarts, CardBoundsAssumption DEF Absent, CardStatuses
  <2>2. NoSession \in [status : {"absent", "arriving", "active", "lapsed", "ended"},
                       since : Times, epoch : 0..MaxEpochs]
    BY TimeStarts, CardBoundsAssumption DEF NoSession
  <2>3. clerk \in [Clerks -> Clerk]
    BY <1>2 DEF CardsInit
  <2>4. 0 \in 0..MaxCardFaults
    BY CardBoundsAssumption
  <2>5. <<>> \in Seq(Decision) /\ <<>> \in Seq(Outcome) /\ <<>> \in Seq(Overlay)
    OBVIOUS
  <2>6. /\ viewer \in [Viewers -> [status : {"absent", "arriving", "active", "lapsed", "ended"},
                                   since : Times, epoch : 0..MaxEpochs]]
        /\ overlays \in [Viewers -> Seq(Overlay)]
    BY <2>2, <2>5 DEF CardsInit
  <2>7. /\ card \in [status : CardStatuses, revision : 0..MaxRevisions, at : Times]
        /\ now \in Times /\ cardFaults \in 0..MaxCardFaults
        /\ decisions \in Seq(Decision) /\ outcomes \in Seq(Outcome)
        /\ entryLock \in Clerks \cup {NoClerk} /\ lockLost \in BOOLEAN
    BY <2>1, <2>4, <2>5, TimeStarts DEF CardsInit
  <2>8. QED
    BY <2>3, <2>6, <2>7 DEF CardsTypeOK, Clerk
<1>4. OneHoldsRow /\ \A c \in Clerks : CommitFits(c) /\ Keyed(c)
  BY <1>1, <1>2 DEF OneHoldsRow, HoldsRow, CommitFits, Keyed
<1>5. RecordFits
  BY <1>1 DEF CardsInit, RecordFits, KeysOnce, NoCardYet, CardFollowsDecisions
<1>6. SandboxIsCurrent
  BY <1>1 DEF SandboxIsCurrent
<1>7. LockFits
  BY <1>1, <1>2 DEF CardsInit, LockFits
<1>8. QED
  BY <1>3, <1>4, <1>5, <1>6, <1>7 DEF CardsInv

LEMMA CardsStep == CardsInv /\ [CardsNext]_cardsVars => CardsInv'
<1> SUFFICES ASSUME CardsInv, [CardsNext]_cardsVars PROVE CardsInv'
  OBVIOUS
<1>1. ASSUME NEW c \in Clerks, Clerical(c) PROVE CardsInv'
  <2>1. ASSUME Ask(c, "no key", Creation) PROVE CardsInv'
    BY <2>1, AskStep
  <2>2. ASSUME NEW k \in CardKeys, NEW r \in CardRequest, Ask(c, k, r) PROVE CardsInv'
    BY <2>2, AskStep
  <2>3. ASSUME NEW o \in {"ok", "lost", "fail"}, Commit(c, o) PROVE CardsInv'
    BY <2>3, CommitStep
  <2>4. ASSUME LoseEntry(c) \/ Decide(c) \/ Reread(c) \/ Lookup(c) \/ CrashClerk(c)
        PROVE  CardsInv'
    BY <2>4, LoseEntryStep, DecideStep, RereadStep, LookupStep
  <2>5. QED
    BY <1>1, <2>1, <2>2, <2>3, <2>4 DEF Clerical
<1>2. ASSUME NEW v \in Viewers, Viewing(v) PROVE CardsInv'
  <2>1. 0 \in 0..MaxEpochs
    BY CardBoundsAssumption
  <2>2. QED
    BY <1>2, <2>1, SessionSteps, SimulateStep DEF Viewing
<1>3. ASSUME UNCHANGED <<record, lockLost, entryLock, clerk, answered, sandbox, cardFaults>>,
             now' \in Times
      PROVE  CardsInv'
  <2>1. card' = card /\ viewer' = viewer /\ overlays' = overlays
    BY <1>3 DEF record, sandbox
  <2>2. ViewersTyped' /\ SandboxIsCurrent'
    BY <2>1 DEF CardsInv, CardsTypeOK, ViewersTyped, SandboxIsCurrent, Eligible
  <2>3. QED
    BY <1>3, <2>2, ViewersMove
<1>4. ASSUME Tick PROVE CardsInv'
  <2>1. now' \in Times
    <3>1. now \in Times /\ now < MaxTime /\ now' = now + 1 /\ MaxTime \in Nat
      BY <1>4, CardBoundsAssumption DEF Tick, CardsInv, CardsTypeOK
    <3>2. QED
      BY <3>1 DEF Times
  <2>2. QED
    BY <1>3, <1>4, <2>1 DEF Tick
<1>5. ASSUME UNCHANGED cardsVars PROVE CardsInv'
  BY <1>3, <1>5 DEF cardsVars, CardsInv, CardsTypeOK
<1>6. QED
  BY <1>1, <1>2, <1>4, <1>5 DEF CardsNext

THEOREM CardsInvariant == CardsSpec => []CardsInv
BY CardsStart, CardsStep, PTL DEF CardsSpec

\* The tables of the cards, the sandboxes and the requests have the values that the
\* columns and the code allow, with the commands of ActionService.
THEOREM CardsTypeCorrect == CardsSpec => []CardsTypeOK
<1>1. CardsInv => CardsTypeOK
  BY DEF CardsInv
<1>2. QED
  BY <1>1, CardsInvariant, PTL

\* The row of a card is what its decisions make of it, for any number of requests,
\* keys and failures, and although the entry lock may be lost: the row lock alone
\* keeps what was found true until it is committed.
THEOREM CardsFollowDecisions == CardsSpec => []CardFollowsDecisions
<1>1. CardsInv => CardFollowsDecisions
  BY DEF CardsInv, RecordFits
<1>2. QED
  BY <1>1, CardsInvariant, PTL

\* A repeated request gets the answer that it got before, whether it is computed from
\* the commit, from the record, or from the record after an exception.
THEOREM RepeatsAreAnsweredOnce == CardsSpec => []RepeatsGetOneAnswer
<1>1. CardsInv => RepeatsGetOneAnswer
  <2> SUFFICES ASSUME CardsInv, ~lockLost,
                      NEW a \in answered, NEW b \in answered,
                      a.key = b.key, a.request = b.request
               PROVE  a.response = b.response
    BY DEF RepeatsGetOneAnswer
  <2>1. /\ IsAnswer(a.key, a.request, a.response, decisions, outcomes)
        /\ IsAnswer(a.key, a.request, b.response, decisions, outcomes)
        /\ KeysOnce
    BY DEF CardsInv, LockFits, RecordFits
  <2>2. CASE a.request.op = "create"
    BY <2>1, <2>2 DEF IsAnswer, Commands
  <2>3. CASE a.request.op = "outcome"
    <3>1. PICK m \in DOMAIN outcomes : outcomes[m].key = a.key /\ a.response = [outcome |-> m]
      BY <2>1, <2>3 DEF IsAnswer, Commands
    <3>2. PICK n \in DOMAIN outcomes : outcomes[n].key = a.key /\ b.response = [outcome |-> n]
      BY <2>1, <2>3 DEF IsAnswer, Commands
    <3>3. m = n
      BY <2>1, <3>1, <3>2 DEF KeysOnce
    <3>4. QED
      BY <3>1, <3>2, <3>3
  <2>4. CASE a.request.op \in Commands
    <3>1. a.request.op \notin {"create", "outcome"}
      BY <2>4 DEF Commands
    <3>2. PICK m \in DOMAIN decisions :
            /\ decisions[m].key = a.key
            /\ a.response = [status |-> Applied(a.request.op),
                             revision |-> decisions[m].revision,
                             decisions |-> SubSeq(decisions, 1, m)]
      BY <2>1, <3>1 DEF IsAnswer
    <3>3. PICK n \in DOMAIN decisions :
            /\ decisions[n].key = a.key
            /\ b.response = [status |-> Applied(a.request.op),
                             revision |-> decisions[n].revision,
                             decisions |-> SubSeq(decisions, 1, n)]
      BY <2>1, <3>1 DEF IsAnswer
    <3>4. m = n
      BY <2>1, <3>2, <3>3 DEF KeysOnce
    <3>5. QED
      BY <3>2, <3>3, <3>4
  <2>5. QED
    BY <2>1, <2>2, <2>3, <2>4 DEF IsAnswer
<1>2. QED
  BY <1>1, CardsInvariant, PTL

\* A sandbox shows what its viewer did since he last cleared it, on the approved card
\* that was there before he came, whatever the operator does meanwhile.
THEOREM SandboxesAreCurrent == CardsSpec => []SandboxIsCurrent
<1>1. CardsInv => SandboxIsCurrent
  BY DEF CardsInv
<1>2. QED
  BY <1>1, CardsInvariant, PTL
=============================================================================
