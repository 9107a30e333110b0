------------------------ MODULE ImportWorkflowProofs ------------------------
(***************************************************************************)
(* For any number of workflows, files, keys, request threads, mappings and *)
(* faults, with or without the maintenance job: ImportWorkflow is type     *)
(* correct, its commits are serialized, a candidate follows the mapping    *)
(* confirmed last, a commit takes every upload of its workflow, the        *)
(* versions are a history in the sense of DatasetHistory, and each keeps   *)
(* its artifact.                                                           *)
(*                                                                         *)
(* Everything rests on what a thread may rely on while others move         *)
(* (WorkerOK): the revision of its workflow only grows, and as long as it  *)
(* has not grown, the rows that the thread read are as it read them.       *)
(***************************************************************************)
EXTENDS ImportWorkflow, SequenceTheorems, TLAPS

Steps ==
  {"idle", "upload", "check_upload", "standardize", "check_candidate", "drop"}
    \cup CommitSteps
JobSteps == {"idle", "expire", "mark", "compare", "quarantine"}

LocalState ==
  [pc : Steps, f : Workflows \cup {NoId}, k : Keys \cup {NoId}, rev : Nat,
   file : Files \cup {NoFile}, map : 0..MaxMappings, holds : BOOLEAN,
   content : Contents, created : BOOLEAN, todo : SUBSET UploadIds,
   cur : UploadIds \cup {NoId}, ok : BOOLEAN]

JobState ==
  [pc : JobSteps, todo : SUBSET Objects, cur : Objects \cup {NoId}, ok : BOOLEAN,
   seen : SUBSET Objects]

TablesTyped ==
  /\ workflow \in [Workflows -> WorkflowRow]
  /\ upload \in [UploadIds -> UploadRow]
  /\ versions \in Seq(Versions)
  /\ \A f \in Workflows : workflow[f].base <= Len(versions)

StorageTyped ==
  /\ row \in [Objects -> RowStates]
  /\ blobs \subseteq Objects
  /\ expired \subseteq Objects
  /\ faults \in 0..MaxFaults

JobTyped ==
  /\ job \in JobState
  /\ job.pc = "mark" => job.cur \in Objects

WorkersTyped ==
  /\ worker \in [Workers -> LocalState]
  /\ lock \in Workers \cup {NoWorker}

\* An upload with a candidate that is recorded for good.
Settled(u) == upload[u].status \in {"accepted", "deleted"}

UploadOK(u) ==
  /\ upload[u].status # Absent => upload[u].file \in Files
  /\ Settled(u) => upload[u].cand = upload[u].map /\ upload[u].cand \in Mappings

\* What a request thread relies on.
Knows(v) ==
  /\ worker[v].pc # "idle" => worker[v].f \in Workflows /\ worker[v].k \in Keys
  /\ worker[v].pc = "upload" => worker[v].file \in Files
  /\ worker[v].pc \in CommitSteps => lock = v

MappingOK(v) ==
  worker[v].pc = "standardize" =>
    /\ worker[v].map \in Mappings
    /\ worker[v].rev <= workflow[worker[v].f].rev
    /\ RevisionHolds(v) => upload[Uid(v)].map = worker[v].map

AssemblyOK(v) ==
  /\ worker[v].pc \in {"assemble", "promote", "save_version"} =>
       /\ workflow[worker[v].f].status # Absent
       /\ worker[v].rev <= workflow[worker[v].f].rev
  /\ worker[v].pc \in {"promote", "save_version"} /\ RevisionHolds(v) =>
       /\ UploadsOf(worker[v].f) # {}
       /\ AllAccepted(UploadsOf(worker[v].f))
       /\ worker[v].content = Assembled(worker[v].f)

CleanupOK(v) ==
  /\ worker[v].pc \in CommitSteps => \A u \in worker[v].todo : Settled(u)
  /\ worker[v].pc \in {"mark_candidate", "delete_original", "mark_original"} =>
       worker[v].cur \in UploadIds /\ Settled(worker[v].cur)

WorkerOK(v) == Knows(v) /\ MappingOK(v) /\ AssemblyOK(v) /\ CleanupOK(v)

IInv ==
  /\ TablesTyped /\ StorageTyped /\ JobTyped /\ WorkersTyped
  /\ \A u \in UploadIds : UploadOK(u)
  /\ \A v \in Workers : WorkerOK(v)

\* What a step of somebody else leaves to thread v.
Frame(v) ==
  /\ worker'[v] = worker[v]
  /\ lock = v => lock' = v
  /\ \A f \in Workflows :
       /\ workflow'[f].rev \in Nat /\ workflow[f].rev <= workflow'[f].rev
       /\ workflow[f].status # Absent =>
            workflow'[f].status # Absent /\ workflow'[f].base = workflow[f].base
  /\ \A u \in UploadIds :
       /\ Settled(u) => Settled(u)'
       /\ workflow'[u[1]].rev = workflow[u[1]].rev =>
            upload'[u].map = upload[u].map
  /\ lock = v =>
       /\ versions' = versions
       /\ \A u \in UploadIds :
            workflow'[u[1]].rev = workflow[u[1]].rev => upload'[u] = upload[u]

-----------------------------------------------------------------------------
(***************************************************************************)
(* What a thread relies on, it may rely on.                                *)
(***************************************************************************)

\* The types of the rows that are there.
LEMMA RowsTyped ==
  ASSUME TablesTyped
  PROVE  /\ \A f \in Workflows :
              workflow[f].status \in Statuses /\ workflow[f].rev \in Nat
                /\ workflow[f].base \in Nat
         /\ \A u \in UploadIds :
              upload[u] \in UploadRow /\ upload[u].map \in 0..MaxMappings
                /\ upload[u].cand \in 0..MaxMappings
BY DEF TablesTyped, WorkflowRow, UploadRow

\* Thread v keeps its knowledge through every step of somebody else that
\* respects Frame: revisions (_require_revision) and the commit lock.
LEMMA FrameKeeps ==
  ASSUME TablesTyped, WorkersTyped, NEW v \in Workers, WorkerOK(v), Frame(v)
  PROVE  WorkerOK(v)'
<1>1. worker'[v] = worker[v] /\ (lock = v => lock' = v)
  BY DEF Frame
<1>2. worker[v] \in LocalState
  BY DEF WorkersTyped
<1>3. Knows(v)'
  BY <1>1 DEF WorkerOK, Knows
<1>4. MappingOK(v)'
  <2> SUFFICES ASSUME worker[v].pc = "standardize"
               PROVE  /\ worker[v].map \in Mappings
                      /\ worker[v].rev <= workflow'[worker[v].f].rev
                      /\ workflow'[worker[v].f].rev = worker[v].rev
                           => upload'[<<worker[v].f, worker[v].k>>].map = worker[v].map
    BY <1>1 DEF MappingOK, RevisionHolds, Uid
  <2>0. PICK f, u : f = worker[v].f /\ u = <<worker[v].f, worker[v].k>>
    OBVIOUS
  <2>1. f \in Workflows /\ u \in UploadIds /\ u[1] = f
    BY <2>0 DEF WorkerOK, Knows, UploadIds
  <2>2. /\ workflow[f].rev \in Nat /\ workflow'[f].rev \in Nat
        /\ workflow[f].rev <= workflow'[f].rev
    BY <2>1, RowsTyped DEF Frame
  <2>3. worker[v].rev \in Nat /\ worker[v].rev <= workflow[f].rev
    BY <1>2, <2>0 DEF WorkerOK, MappingOK, LocalState
  <2>4. workflow'[f].rev = worker[v].rev => workflow'[f].rev = workflow[f].rev
    BY <2>2, <2>3
  <2>5. workflow'[f].rev = worker[v].rev => upload'[u].map = upload[u].map
    BY <2>1, <2>4 DEF Frame
  <2> QED
    BY <2>0, <2>2, <2>3, <2>4, <2>5 DEF WorkerOK, MappingOK, RevisionHolds, Uid
<1>5. AssemblyOK(v)'
  <2>0. PICK f : f = worker[v].f
    OBVIOUS
  <2>1. ASSUME worker[v].pc \in {"assemble", "promote", "save_version"}
        PROVE  /\ f \in Workflows
               /\ workflow'[f].status # Absent
               /\ workflow'[f].base = workflow[f].base
               /\ worker[v].rev \in Nat
               /\ workflow[f].rev \in Nat /\ workflow'[f].rev \in Nat
               /\ worker[v].rev <= workflow[f].rev
               /\ workflow[f].rev <= workflow'[f].rev
    BY <1>2, <2>0, <2>1, RowsTyped DEF WorkerOK, Knows, AssemblyOK, Frame, LocalState
  <2>2. ASSUME worker[v].pc \in {"promote", "save_version"},
               workflow'[f].rev = worker[v].rev
        PROVE  /\ UploadsOf(f)' # {}
               /\ AllAccepted(UploadsOf(f))'
               /\ worker[v].content = Assembled(f)'
    <3>1. workflow'[f].rev = workflow[f].rev /\ RevisionHolds(v)
      BY <2>0, <2>1, <2>2 DEF RevisionHolds
    <3>2. lock = v
      BY <2>2 DEF WorkerOK, Knows, CommitSteps
    <3>3. versions' = versions
      BY <3>2 DEF Frame
    <3>4. \A u \in UploadIds : u[1] = f => upload'[u] = upload[u]
      BY <3>1, <3>2 DEF Frame
    <3>5. UploadsOf(f)' = UploadsOf(f)
      BY <3>4 DEF UploadsOf
    <3>6. AllAccepted(UploadsOf(f))'
      BY <2>0, <2>2, <3>1, <3>4, <3>5 DEF WorkerOK, AssemblyOK, AllAccepted, UploadsOf
    <3>7. {StandardizedFile(u) : u \in UploadsOf(f)}'
            = {StandardizedFile(u) : u \in UploadsOf(f)}
      BY <3>4, <3>5 DEF StandardizedFile, UploadsOf
    <3>8. Assembled(f)' = Assembled(f)
      BY <2>1, <2>2, <3>3, <3>7 DEF Assembled, ContentOf
    <3> QED
      BY <2>0, <2>2, <3>1, <3>5, <3>6, <3>8 DEF WorkerOK, AssemblyOK
  <2> QED
    BY <1>1, <2>0, <2>1, <2>2 DEF AssemblyOK, RevisionHolds
<1>6. CleanupOK(v)'
  <2>1. worker[v].todo \subseteq UploadIds
    BY <1>2 DEF LocalState
  <2> QED
    BY <1>1, <2>1 DEF WorkerOK, CleanupOK, Frame
<1> QED
  BY <1>3, <1>4, <1>5, <1>6 DEF WorkerOK

\* A step of thread w keeps the invariant if it respects the others (Frame).
LEMMA StepOf ==
  ASSUME IInv, NEW w \in Workers,
         TablesTyped', StorageTyped', JobTyped', WorkersTyped',
         \A u \in UploadIds : UploadOK(u)',
         \A v \in Workers \ {w} : Frame(v),
         WorkerOK(w)'
  PROVE  IInv'
<1>1. \A v \in Workers \ {w} : WorkerOK(v)'
  BY FrameKeeps DEF IInv
<1> QED
  BY <1>1 DEF IInv

\* The same for a step that writes no table row.
LEMMA LocalStep ==
  ASSUME IInv, NEW w \in Workers,
         UNCHANGED <<tables, job>>,
         StorageTyped', WorkersTyped',
         \A v \in Workers \ {w} : worker'[v] = worker[v],
         lock' = lock \/ lock = w,
         WorkerOK(w)'
  PROVE  IInv'
<1>1. TablesTyped' /\ JobTyped'
  BY DEF IInv, TablesTyped, JobTyped, tables
<1>2. \A u \in UploadIds : UploadOK(u)'
  BY DEF IInv, UploadOK, Settled, tables
<1>3. ASSUME NEW v \in Workers \ {w} PROVE Frame(v)
  <2>1. workflow' = workflow /\ upload' = upload /\ versions' = versions
    BY DEF tables
  <2>2. \A f \in Workflows : workflow[f].rev \in Nat
    BY RowsTyped DEF IInv
  <2>3. lock = v => lock' = v
    BY NobodyIsNoWorker
  <2> QED
    BY <2>1, <2>2, <2>3 DEF Frame, Settled
<1> QED
  BY <1>1, <1>2, <1>3, StepOf

\* The local state of a thread without a request is one.
LEMMA IdleTyped == IdleWorker \in LocalState
<1>1. 0 \in 0..MaxMappings /\ {} \in Contents /\ {} \in SUBSET UploadIds
  BY BoundsAreNatural DEF Contents
<1>2. "idle" \in Steps /\ 0 \in Nat /\ FALSE \in BOOLEAN /\ TRUE \in BOOLEAN
  BY DEF Steps
<1> QED
  BY <1>1, <1>2, Zenon DEF IdleWorker, LocalState

\* A request that ends gives up what it knew, and its lock.
LEMMA LeaveFacts ==
  ASSUME WorkersTyped, NEW w \in Workers, Leave(w)
  PROVE  /\ WorkersTyped'
         /\ \A v \in Workers \ {w} : worker'[v] = worker[v]
         /\ lock' = lock \/ lock = w
         /\ WorkerOK(w)'
<1>1. worker'[w] = IdleWorker /\ \A v \in Workers \ {w} : worker'[v] = worker[v]
  BY DEF Leave, WorkersTyped
<1>3. WorkersTyped'
  BY IdleTyped DEF Leave, WorkersTyped
<1>4. worker'[w].pc = "idle"
  BY <1>1 DEF IdleWorker
<1>5. WorkerOK(w)'
  BY <1>4 DEF WorkerOK, Knows, MappingOK, AssemblyOK, CleanupOK, CommitSteps
<1> QED
  BY <1>1, <1>3, <1>5 DEF Leave

\* A request that goes on changes its own local state only.
LEMMA MoveFacts ==
  ASSUME WorkersTyped, NEW w \in Workers, NEW r \in LocalState,
         worker' = [worker EXCEPT ![w] = r]
  PROVE  /\ worker' \in [Workers -> LocalState]
         /\ \A v \in Workers \ {w} : worker'[v] = worker[v]
         /\ worker'[w] = r
BY DEF WorkersTyped

\* The same when it changes nothing but its place.
LEMMA GoFacts ==
  ASSUME WorkersTyped, NEW w \in Workers, NEW p \in Steps, Go(w, p)
  PROVE  /\ worker' \in [Workers -> LocalState]
         /\ \A v \in Workers \ {w} : worker'[v] = worker[v]
         /\ worker'[w] = [worker[w] EXCEPT !.pc = p]
<1>1. worker[w] \in LocalState
  BY DEF WorkersTyped
<1>2. worker' = [worker EXCEPT ![w] = [worker[w] EXCEPT !.pc = p]]
  BY DEF Go
<1>3. [worker[w] EXCEPT !.pc = p] \in LocalState
  BY <1>1 DEF LocalState
<1> QED
  BY <1>2, <1>3 DEF WorkersTyped

\* A transaction that writes one upload row.
LEMMA UploadFacts ==
  ASSUME TablesTyped, NEW u \in UploadIds, NEW r \in UploadRow,
         upload' = [upload EXCEPT ![u] = r]
  PROVE  /\ upload' \in [UploadIds -> UploadRow]
         /\ upload'[u] = r
         /\ \A t \in UploadIds \ {u} : upload'[t] = upload[t]
BY DEF TablesTyped

\* transition_workflow raises the revision of one workflow.
LEMMA AdvanceFacts ==
  ASSUME TablesTyped, NEW f \in Workflows, NEW s \in Statuses, Advance(f, s)
  PROVE  /\ workflow' \in [Workflows -> WorkflowRow]
         /\ workflow'[f].status = s
         /\ workflow'[f].rev = workflow[f].rev + 1
         /\ workflow'[f].base = workflow[f].base
         /\ \A g \in Workflows \ {f} : workflow'[g] = workflow[g]
<1> DEFINE r == [workflow[f] EXCEPT !.status = s, !.rev = workflow[f].rev + 1]
<1>1. workflow[f] \in WorkflowRow /\ workflow' = [workflow EXCEPT ![f] = r]
  BY DEF TablesTyped, Advance
<1>2. /\ r \in WorkflowRow /\ r.status = s /\ r.rev = workflow[f].rev + 1
      /\ r.base = workflow[f].base
  BY <1>1, workflow[f].rev + 1 \in Nat, RowsTyped DEF WorkflowRow
<1> HIDE DEF r
<1> QED
  BY <1>1, <1>2 DEF TablesTyped

\* Faults are counted, whatever the outcome is called.
LEMMA FaultCounted ==
  ASSUME StorageTyped, NEW o, Fault(o)
  PROVE  faults' \in 0..MaxFaults /\ (o # "ok" => faults' \in 1..MaxFaults)
BY BoundsAreNatural DEF StorageTyped, Fault

-----------------------------------------------------------------------------
(***************************************************************************)
(* The steps that write no table row                                       *)
(***************************************************************************)
\* upload, up to its transaction.
LEMMA StartUploadKeeps ==
  ASSUME IInv, NEW w \in Workers, NEW f \in Workflows, NEW k \in Keys,
         NEW file \in Files, StartUpload(w, f, k, file)
  PROVE  IInv'
<1> DEFINE r == [IdleWorker EXCEPT !.pc = "upload", !.f = f, !.k = k,
                                   !.file = file, !.holds = TRUE]
<1>1. worker' = [worker EXCEPT ![w] = r]
  BY DEF StartUpload
<1>2. r \in LocalState
  BY IdleTyped DEF LocalState, Steps
<1>3. r.pc = "upload" /\ r.f = f /\ r.k = k /\ r.file = file
  BY DEF IdleWorker
<1> HIDE DEF r
<1>4. /\ worker' \in [Workers -> LocalState] /\ worker'[w] = r
      /\ \A v \in Workers \ {w} : worker'[v] = worker[v]
  BY <1>1, <1>2, MoveFacts DEF IInv
<1>5. WorkerOK(w)'
  BY <1>3, <1>4 DEF WorkerOK, Knows, MappingOK, AssemblyOK, CleanupOK, CommitSteps
<1>6. StorageTyped' /\ WorkersTyped' /\ lock' = lock /\ UNCHANGED <<tables, job>>
  BY <1>4 DEF StartUpload, IInv, StorageTyped, WorkersTyped, storage
<1> QED
  BY <1>4, <1>5, <1>6, LocalStep

\* standardize, up to its transaction.
LEMMA StartStandardizeKeeps ==
  ASSUME IInv, NEW w \in Workers, NEW u \in UploadIds, StartStandardize(w, u)
  PROVE  IInv'
<1> DEFINE r == [IdleWorker EXCEPT !.pc = "standardize", !.f = u[1], !.k = u[2],
                                   !.rev = workflow[u[1]].rev,
                                   !.map = upload[u].map, !.holds = TRUE]
<1>1. worker' = [worker EXCEPT ![w] = r]
  BY DEF StartStandardize
<1>2. /\ u[1] \in Workflows /\ u[2] \in Keys /\ u = <<u[1], u[2]>>
      /\ workflow[u[1]].rev \in Nat
      /\ upload[u].map \in 0..MaxMappings /\ upload[u].map > 0
  BY DEF UploadIds, IInv, TablesTyped, WorkflowRow, UploadRow, StartStandardize
<1>3. r \in LocalState
  BY <1>2, IdleTyped DEF LocalState, Steps
<1>4. /\ r.pc = "standardize" /\ r.f = u[1] /\ r.k = u[2]
      /\ r.rev = workflow[u[1]].rev /\ r.map = upload[u].map
  BY DEF IdleWorker
<1> HIDE DEF r
<1>5. /\ worker' \in [Workers -> LocalState] /\ worker'[w] = r
      /\ \A v \in Workers \ {w} : worker'[v] = worker[v]
  BY <1>1, <1>3, MoveFacts DEF IInv
<1>6. /\ StorageTyped' /\ WorkersTyped' /\ lock' = lock
      /\ UNCHANGED <<tables, job>> /\ workflow' = workflow /\ upload' = upload
  BY <1>5 DEF StartStandardize, IInv, StorageTyped, WorkersTyped, storage, tables
<1>7. MappingOK(w)'
  <2>1. upload[u].map \in Mappings
    BY <1>2, BoundsAreNatural DEF Mappings
  <2> QED
    BY <1>2, <1>4, <1>5, <1>6, <2>1 DEF MappingOK, RevisionHolds, Uid
<1>8. Knows(w)' /\ AssemblyOK(w)' /\ CleanupOK(w)'
  BY <1>2, <1>4, <1>5 DEF Knows, AssemblyOK, CleanupOK, CommitSteps
<1> QED
  BY <1>5, <1>6, <1>7, <1>8, LocalStep DEF WorkerOK

\* What follows a failed transaction of upload or standardize
\* (_committed_upload, _committed_standardization).
LEMMA CheckKeeps ==
  ASSUME IInv, NEW w \in Workers, NEW o,
         CheckUpload(w, o) \/ CheckCandidate(w, o)
  PROVE  IInv'
<1>1. UNCHANGED <<tables, job>> /\ UNCHANGED <<row, blobs, expired>> /\ Fault(o)
  BY DEF CheckUpload, CheckCandidate
<1>2. StorageTyped'
  BY <1>1, FaultCounted DEF IInv, StorageTyped
<1>3. worker[w].pc \in {"check_upload", "check_candidate"}
  BY DEF CheckUpload, CheckCandidate
<1>4. CASE Leave(w)
  BY <1>1, <1>2, <1>4, LeaveFacts, LocalStep DEF IInv
<1>5. CASE Go(w, "drop") /\ lock' = lock
  <2>1. /\ worker' \in [Workers -> LocalState]
        /\ \A v \in Workers \ {w} : worker'[v] = worker[v]
        /\ worker'[w] = [worker[w] EXCEPT !.pc = "drop"]
    BY <1>5, GoFacts DEF IInv, Steps
  <2>2. worker'[w].pc = "drop" /\ worker'[w].f = worker[w].f
                               /\ worker'[w].k = worker[w].k
    BY <2>1 DEF IInv, WorkersTyped, LocalState
  <2>3. WorkerOK(w)'
    BY <1>3, <2>2 DEF IInv, WorkerOK, Knows, MappingOK, AssemblyOK, CleanupOK, CommitSteps
  <2> QED
    BY <1>1, <1>2, <1>5, <2>1, <2>3, LocalStep DEF IInv, WorkersTyped
<1> QED
  BY <1>4, <1>5 DEF CheckUpload, CheckCandidate

\* A commit that goes on keeps its workflow and key, and cleans up no upload
\* that it did not assemble.
LEMMA CommitMove ==
  ASSUME IInv, NEW w \in Workers, NEW r \in LocalState,
         worker[w].pc \in CommitSteps,
         worker' = [worker EXCEPT ![w] = r],
         r.f = worker[w].f, r.k = worker[w].k, r.todo \subseteq worker[w].todo,
         r.pc \in {"drop"} \cup (CommitSteps \ {"assemble", "promote"}),
         r.pc = "save_version" =>
           worker[w].pc = "promote" /\ r.rev = worker[w].rev
                                    /\ r.content = worker[w].content,
         r.pc \in {"mark_candidate", "delete_original", "mark_original"} =>
           r.cur \in UploadIds /\ Settled(r.cur),
         UNCHANGED <<tables, job, lock>>, StorageTyped'
  PROVE  IInv'
<1>1. /\ worker' \in [Workers -> LocalState] /\ worker'[w] = r
      /\ \A v \in Workers \ {w} : worker'[v] = worker[v]
  BY MoveFacts DEF IInv
<1>2. workflow' = workflow /\ upload' = upload /\ versions' = versions
  BY DEF tables
<1>3. WorkersTyped'
  BY <1>1 DEF IInv, WorkersTyped
<1>4. Knows(w) /\ AssemblyOK(w) /\ CleanupOK(w)
  BY DEF IInv, WorkerOK
<1>5. Knows(w)' /\ MappingOK(w)' /\ CleanupOK(w)'
  BY <1>1, <1>2, <1>4 DEF Knows, MappingOK, CleanupOK, CommitSteps, Settled
<1>6. AssemblyOK(w)'
  <2>1. \A f : /\ UploadsOf(f)' = UploadsOf(f) /\ Assembled(f)' = Assembled(f)
               /\ AllAccepted(UploadsOf(f))' = AllAccepted(UploadsOf(f))
    BY <1>2 DEF UploadsOf, Assembled, AllAccepted, ContentOf, StandardizedFile
  <2>2. CASE r.pc = "save_version"
    BY <1>1, <1>2, <1>4, <2>1, <2>2 DEF AssemblyOK, RevisionHolds
  <2>3. CASE r.pc # "save_version"
    BY <1>1, <2>3 DEF AssemblyOK, CommitSteps
  <2> QED
    BY <2>2, <2>3
<1> QED
  BY <1>1, <1>3, <1>5, <1>6, LocalStep DEF WorkerOK

\* _delete_or_schedule_staged.
LEMMA DropStagedKeeps ==
  ASSUME IInv, NEW w \in Workers, NEW o, DropStaged(w, o)
  PROVE  IInv'
<1>1. UNCHANGED <<tables, job>> /\ Fault(o)
      /\ worker[w].pc \in {"drop", "drop_committed"}
  BY DEF DropStaged
<1>2. StorageTyped'
  <2>1. faults' \in 0..MaxFaults /\ (o = "recorded" => faults' \in 1..MaxFaults)
    BY <1>1, FaultCounted DEF IInv
  <2>2. o = "recorded" => Spare(faults') \in Objects
    BY <2>1 DEF Objects
  <2>3. CASE o = "recorded"
    BY <2>1, <2>2, <2>3 DEF DropStaged, IInv, StorageTyped, RowStates
  <2>4. CASE o # "recorded"
    BY <2>1, <2>4 DEF DropStaged, IInv, StorageTyped
  <2> QED
    BY <2>3, <2>4
<1>3. CASE Leave(w)
  BY <1>1, <1>2, <1>3, LeaveFacts, LocalStep DEF IInv
<1>4. CASE /\ worker[w].pc = "drop_committed"
           /\ worker' = [worker EXCEPT ![w].pc = "delete_candidate", ![w].holds = FALSE]
           /\ UNCHANGED lock
  <2> DEFINE r == [worker[w] EXCEPT !.pc = "delete_candidate", !.holds = FALSE]
  <2>1. worker[w] \in LocalState /\ worker' = [worker EXCEPT ![w] = r]
    BY <1>4 DEF IInv, WorkersTyped
  <2>2. /\ r \in LocalState /\ r.pc = "delete_candidate" /\ r.f = worker[w].f
        /\ r.k = worker[w].k /\ r.todo = worker[w].todo
    BY <2>1 DEF LocalState, Steps, CommitSteps
  <2> HIDE DEF r
  <2> QED
    BY <1>1, <1>2, <1>4, <2>1, <2>2, CommitMove DEF CommitSteps
<1> QED
  BY <1>3, <1>4 DEF DropStaged

\* commit takes the lock.
LEMMA OpenCommitKeeps ==
  ASSUME IInv, NEW w \in Workers, NEW f \in Workflows, NEW k \in Keys,
         OpenCommit(w, f, k)
  PROVE  IInv'
<1> DEFINE r == [IdleWorker EXCEPT !.pc = "assemble", !.f = f, !.k = k,
                                   !.rev = workflow[f].rev]
<1>1. worker' = [worker EXCEPT ![w] = r]
  BY DEF OpenCommit
<1>2. workflow[f].rev \in Nat
  BY RowsTyped DEF IInv
<1>3. r \in LocalState
  BY <1>2, IdleTyped DEF LocalState, Steps, CommitSteps
<1>4. r.pc = "assemble" /\ r.f = f /\ r.k = k /\ r.rev = workflow[f].rev /\ r.todo = {}
  BY DEF IdleWorker
<1> HIDE DEF r
<1>5. /\ worker' \in [Workers -> LocalState] /\ worker'[w] = r
      /\ \A v \in Workers \ {w} : worker'[v] = worker[v]
  BY <1>1, <1>3, MoveFacts DEF IInv
<1>6. /\ StorageTyped' /\ WorkersTyped' /\ lock = NoWorker /\ lock' = w
      /\ UNCHANGED <<tables, job>> /\ workflow' = workflow
  BY <1>5 DEF OpenCommit, CommitLockFree, IInv, StorageTyped, WorkersTyped, storage, tables
<1>7. WorkerOK(w)'
  <2>1. AssemblyOK(w)'
    BY <1>2, <1>4, <1>5, <1>6 DEF OpenCommit, AssemblyOK
  <2>2. Knows(w)' /\ MappingOK(w)' /\ CleanupOK(w)'
    BY <1>4, <1>5, <1>6 DEF Knows, MappingOK, CleanupOK, CommitSteps
  <2> QED
    BY <2>1, <2>2 DEF WorkerOK
<1> QED
  <2>1. ASSUME NEW v \in Workers \ {w} PROVE Frame(v)
    <3>1. lock # v /\ workflow' = workflow /\ upload' = upload
      BY <1>6, NobodyIsNoWorker DEF OpenCommit, tables
    <3>2. \A g \in Workflows : workflow[g].rev \in Nat
      BY RowsTyped DEF IInv
    <3> QED
      BY <1>5, <3>1, <3>2 DEF Frame, Settled
  <2>2. TablesTyped' /\ JobTyped' /\ \A u \in UploadIds : UploadOK(u)'
    BY <1>6 DEF IInv, TablesTyped, JobTyped, UploadOK, Settled, tables
  <2> QED
    BY <1>6, <1>7, <2>1, <2>2, StepOf

\* _assembly_for: what the thread assembled is what the workflow holds.
LEMMA AssembleKeeps ==
  ASSUME IInv, NEW w \in Workers, Assemble(w)
  PROVE  IInv'
<1> PICK f : f = worker[w].f
  OBVIOUS
<1> DEFINE r == [worker[w] EXCEPT !.pc = "promote", !.content = Assembled(f),
                                  !.todo = UploadsOf(f), !.holds = TRUE]
<1>1. /\ worker[w].pc = "assemble" /\ Assemblable(f)
      /\ UNCHANGED <<tables, storage, lock, job, faults>>
  BY DEF Assemble
<1>2. worker[w] \in LocalState /\ worker' = [worker EXCEPT ![w] = r]
  BY DEF Assemble, IInv, WorkersTyped
<1>3. f \in Workflows /\ lock = w /\ worker[w].k \in Keys
      /\ workflow[f].status # Absent /\ worker[w].rev <= workflow[f].rev
  BY <1>1 DEF IInv, WorkerOK, Knows, AssemblyOK, CommitSteps
<1>4. UploadsOf(f) \subseteq UploadIds /\ UploadsOf(f) # {}
      /\ AllAccepted(UploadsOf(f))
  BY <1>1 DEF UploadsOf, Assemblable
<1>5. Assembled(f) \in Contents
  <2>1. ASSUME NEW u \in UploadsOf(f) PROVE StandardizedFile(u) \in Candidates
    BY <2>1, <1>4 DEF IInv, UploadOK, Settled, AllAccepted, StandardizedFile,
                      Candidates, UploadsOf
  <2>2. ContentOf(workflow[f].base) \subseteq Candidates
    <3> PICK n : n = workflow[f].base
      OBVIOUS
    <3>1. n \in Nat /\ n <= Len(versions) /\ versions \in Seq(Versions)
      BY <1>3, RowsTyped DEF IInv, TablesTyped
    <3>2. n # 0 => versions[n] \in Versions
      BY <3>1
    <3>3. n # 0 => versions[n].content \subseteq Candidates
      BY <3>2 DEF Versions, Contents
    <3> QED
      BY <3>3 DEF ContentOf
  <2> QED
    BY <2>1, <2>2 DEF Assembled, Contents
<1>6. r \in LocalState
  BY ZenonT(30), <1>2, <1>4, <1>5 DEF LocalState, Steps, CommitSteps
<1>7. /\ r.pc = "promote" /\ r.f = f /\ r.k = worker[w].k /\ r.rev = worker[w].rev
      /\ r.todo = UploadsOf(f) /\ r.content = Assembled(f)
  BY <1>2 DEF LocalState
<1> HIDE DEF r
<1>8. /\ worker' \in [Workers -> LocalState] /\ worker'[w] = r
      /\ \A v \in Workers \ {w} : worker'[v] = worker[v]
  BY <1>2, <1>6, MoveFacts DEF IInv
<1>9. workflow' = workflow /\ upload' = upload /\ versions' = versions /\ lock' = lock
  BY <1>1 DEF tables
<1>10. UploadsOf(f)' = UploadsOf(f) /\ Assembled(f)' = Assembled(f)
       /\ AllAccepted(UploadsOf(f))' = AllAccepted(UploadsOf(f))
  BY <1>9 DEF UploadsOf, Assembled, AllAccepted, ContentOf, StandardizedFile
<1>11. AssemblyOK(w)'
  BY <1>3, <1>4, <1>7, <1>8, <1>9, <1>10 DEF AssemblyOK
<1>12. Knows(w)' /\ MappingOK(w)' /\ CleanupOK(w)'
  BY <1>3, <1>4, <1>7, <1>8, <1>9
     DEF Knows, MappingOK, CleanupOK, CommitSteps, Settled, AllAccepted
<1>13. StorageTyped' /\ WorkersTyped'
  BY <1>1, <1>8 DEF IInv, StorageTyped, WorkersTyped, storage
<1> QED
  BY <1>1, <1>8, <1>9, <1>11, <1>12, <1>13, LocalStep DEF WorkerOK

\* A refused commit, or a process that ends.
LEMMA EndKeeps ==
  ASSUME IInv, NEW w \in Workers, RefuseCommit(w) \/ Crash(w)
  PROVE  IInv'
<1>1. CASE RefuseCommit(w)
  <2>1. StorageTyped' /\ Leave(w) /\ UNCHANGED <<tables, job>>
    BY <1>1 DEF RefuseCommit, IInv, StorageTyped, storage
  <2> QED
    BY <2>1, LeaveFacts, LocalStep DEF IInv
<1>2. CASE Crash(w)
  <2>1. /\ Leave(w) /\ UNCHANGED <<tables, job>> /\ UNCHANGED <<row, blobs, expired>>
        /\ faults' \in 0..MaxFaults
    BY <1>2, FaultCounted DEF Crash, IInv
  <2>2. StorageTyped'
    BY <2>1 DEF IInv, StorageTyped
  <2> QED
    BY <2>1, <2>2, LeaveFacts, LocalStep DEF IInv
<1> QED
  BY <1>1, <1>2

\* The final object of a commit is one.
LEMMA MyFinalIsObject ==
  ASSUME IInv, NEW w \in Workers, worker[w].pc \in CommitSteps
  PROVE  MyFinal(w) \in Objects
<1>1. worker[w].f \in Workflows /\ worker[w].k \in Keys /\ worker[w].content \in Contents
  BY DEF IInv, WorkerOK, Knows, CommitSteps, WorkersTyped, LocalState
<1> QED
  BY <1>1 DEF MyFinal, Objects

\* promote.
LEMMA PromoteKeeps ==
  ASSUME IInv, NEW w \in Workers, NEW o, Promote(w, o)
  PROVE  IInv'
<1> PICK p, c : /\ p = IF o = "ok" THEN "save_version" ELSE "check_commit"
                /\ c = (o = "ok" /\ MyFinal(w) \notin blobs)
  OBVIOUS
<1> PICK r : r = [worker[w] EXCEPT !.pc = p, !.created = c]
  OBVIOUS
<1>0. p \in {"save_version", "check_commit"} /\ c \in BOOLEAN
  OBVIOUS
<1>1. /\ worker[w].pc = "promote" /\ Fault(o) /\ UNCHANGED <<tables, job, lock>>
      /\ UNCHANGED <<row, expired>>
      /\ blobs' = IF Done(o) THEN blobs \cup {MyFinal(w)} ELSE blobs
  BY DEF Promote
<1>2. worker[w] \in LocalState /\ worker' = [worker EXCEPT ![w] = r]
  BY DEF Promote, IInv, WorkersTyped
<1>3. /\ r.pc = p /\ r.f = worker[w].f /\ r.k = worker[w].k /\ r.todo = worker[w].todo
      /\ r.rev = worker[w].rev /\ r.content = worker[w].content
  BY <1>2 DEF LocalState
<1>4. p \in Steps
  BY <1>0 DEF Steps, CommitSteps
<1>5. r \in LocalState
  BY ZenonT(30), <1>0, <1>2, <1>4 DEF LocalState
<1>6. StorageTyped'
  BY <1>1, FaultCounted, MyFinalIsObject DEF IInv, StorageTyped, CommitSteps
<1> QED
  BY <1>0, <1>1, <1>2, <1>3, <1>5, <1>6, CommitMove DEF CommitSteps

\* _committed_version, after a commit that raised.
LEMMA CheckCommitKeeps ==
  ASSUME IInv, NEW w \in Workers, NEW o, CheckCommit(w, o)
  PROVE  IInv'
<1>1. /\ worker[w].pc = "check_commit" /\ UNCHANGED <<tables, job>> /\ Fault(o)
      /\ UNCHANGED <<row, blobs, expired>>
  BY DEF CheckCommit
<1>2. StorageTyped'
  BY <1>1, FaultCounted DEF IInv, StorageTyped
<1>3. CASE Leave(w)
  BY <1>1, <1>2, <1>3, LeaveFacts, LocalStep DEF IInv
<1>4. CASE Go(w, AfterFailedCommit(w)) /\ UNCHANGED lock
  <2> PICK p : p = AfterFailedCommit(w)
    OBVIOUS
  <2> DEFINE r == [worker[w] EXCEPT !.pc = p]
  <2>1. p \in {"drop_committed", "compensate"}
    BY DEF AfterFailedCommit
  <2>2. worker[w] \in LocalState /\ worker' = [worker EXCEPT ![w] = r]
    BY <1>4 DEF IInv, WorkersTyped, Go
  <2>3. /\ r \in LocalState /\ r.pc = p /\ r.f = worker[w].f /\ r.k = worker[w].k
        /\ r.todo = worker[w].todo
    BY <2>1, <2>2 DEF LocalState, Steps, CommitSteps
  <2> HIDE DEF r
  <2> QED
    BY <1>1, <1>2, <1>4, <2>1, <2>2, <2>3, CommitMove DEF CommitSteps
<1> QED
  BY <1>3, <1>4 DEF CheckCommit

\* _compensate_merged.
LEMMA CompensateKeeps ==
  ASSUME IInv, NEW w \in Workers, NEW o, Compensate(w, o)
  PROVE  IInv'
<1> DEFINE r == [worker[w] EXCEPT !.pc = "drop"]
<1>1. worker[w].pc = "compensate" /\ UNCHANGED <<tables, job, lock>> /\ Fault(o)
  BY DEF Compensate
<1>2. worker[w] \in LocalState /\ worker' = [worker EXCEPT ![w] = r]
  BY DEF Compensate, Go, IInv, WorkersTyped
<1>3. /\ r \in LocalState /\ r.pc = "drop" /\ r.f = worker[w].f
      /\ r.k = worker[w].k /\ r.todo = worker[w].todo
  BY <1>2 DEF LocalState, Steps
<1> HIDE DEF r
<1>4. StorageTyped'
  <2>1. faults' \in 0..MaxFaults /\ MyFinal(w) \in Objects
    BY <1>1, FaultCounted, MyFinalIsObject DEF IInv, CommitSteps
  <2> QED
    BY <2>1 DEF Compensate, IInv, StorageTyped, RowStates
<1> QED
  BY <1>1, <1>2, <1>3, <1>4, CommitMove DEF CommitSteps

\* The deletions of _cleanup_committed_originals.
LEMMA DeleteKeeps ==
  ASSUME IInv, NEW w \in Workers, NEW o,
         DeleteCandidate(w, o) \/ DeleteOriginal(w, o)
  PROVE  IInv'
<1>0. worker[w] \in LocalState /\ CleanupOK(w)
  BY DEF IInv, WorkersTyped, WorkerOK
<1>1. CASE DeleteCandidate(w, o)
  <2>1. PICK u \in worker[w].todo :
          /\ blobs' = IF Done(o) THEN blobs \ {CandidateOf(u)} ELSE blobs
          /\ worker' = [worker EXCEPT ![w].pc = "mark_candidate", ![w].ok = o = "ok",
                                      ![w].cur = u, ![w].todo = @ \ {u}]
    BY <1>1 DEF DeleteCandidate
  <2> PICK c : c = (o = "ok")
    OBVIOUS
  <2> DEFINE r == [worker[w] EXCEPT !.pc = "mark_candidate", !.ok = c, !.cur = u,
                                    !.todo = worker[w].todo \ {u}]
  <2>2. worker[w].pc = "delete_candidate" /\ Fault(o)
        /\ UNCHANGED <<tables, job, lock>> /\ UNCHANGED <<row, expired>>
    BY <1>1 DEF DeleteCandidate
  <2>3. c \in BOOLEAN /\ worker' = [worker EXCEPT ![w] = r]
    BY <1>0, <2>1 DEF IInv, WorkersTyped
  <2>4. u \in UploadIds /\ worker[w].todo \subseteq UploadIds /\ Settled(u)
    BY <1>0, <2>1, <2>2 DEF CleanupOK, CommitSteps, LocalState
  <2>5. /\ r \in LocalState /\ r.pc = "mark_candidate" /\ r.f = worker[w].f
        /\ r.k = worker[w].k /\ r.cur = u /\ r.todo \subseteq worker[w].todo
    BY <1>0, <2>3, <2>4 DEF LocalState, Steps, CommitSteps
  <2> HIDE DEF r
  <2>6. StorageTyped'
    BY <2>1, <2>2, FaultCounted DEF IInv, StorageTyped
  <2> QED
    BY <2>2, <2>3, <2>4, <2>5, <2>6, CommitMove DEF CommitSteps
<1>2. CASE DeleteOriginal(w, o)
  <2> PICK c : c = (o = "ok")
    OBVIOUS
  <2> DEFINE r == [worker[w] EXCEPT !.pc = "mark_original", !.ok = c]
  <2>1. /\ worker[w].pc = "delete_original" /\ Fault(o)
        /\ UNCHANGED <<tables, job, lock>> /\ UNCHANGED <<row, expired>>
        /\ blobs' \subseteq blobs
    BY <1>2 DEF DeleteOriginal
  <2>2. c \in BOOLEAN /\ worker' = [worker EXCEPT ![w] = r]
    BY <1>0, <1>2 DEF DeleteOriginal, IInv, WorkersTyped
  <2>3. /\ r \in LocalState /\ r.pc = "mark_original" /\ r.f = worker[w].f
        /\ r.k = worker[w].k /\ r.cur = worker[w].cur /\ r.todo = worker[w].todo
    BY ZenonT(30), <1>0, <2>2 DEF LocalState, Steps, CommitSteps
  <2> HIDE DEF r
  <2>4. r.cur \in UploadIds /\ Settled(r.cur)
    BY <1>0, <2>1, <2>3 DEF CleanupOK
  <2>5. StorageTyped'
    BY <2>1, FaultCounted DEF IInv, StorageTyped
  <2> QED
    BY <2>1, <2>2, <2>3, <2>4, <2>5, CommitMove DEF CommitSteps
<1> QED
  BY <1>1, <1>2

\* mark_deleted or mark_cleanup_pending for a candidate.
LEMMA MarkCandidateKeeps ==
  ASSUME IInv, NEW w \in Workers, MarkCandidate(w)
  PROVE  IInv'
<1> PICK u, x : u = worker[w].cur /\ x = CandidateOf(u)
  OBVIOUS
<1>1. /\ worker[w].pc = "mark_candidate" /\ UNCHANGED <<tables, job>>
      /\ UNCHANGED <<blobs, faults>>
  BY DEF MarkCandidate
<1>2. worker[w] \in LocalState /\ u \in UploadIds /\ Settled(u)
  BY <1>1 DEF IInv, WorkersTyped, WorkerOK, CleanupOK
<1>3. x \in Objects
  BY <1>2 DEF IInv, UploadOK, CandidateOf, Objects
<1>4. StorageTyped'
  BY <1>1, <1>3 DEF MarkCandidate, IInv, StorageTyped, RowStates
<1>5. CASE Leave(w)
  BY <1>1, <1>4, <1>5, LeaveFacts, LocalStep DEF IInv
<1>6. CASE Go(w, "delete_original") /\ UNCHANGED lock
  <2> DEFINE r == [worker[w] EXCEPT !.pc = "delete_original"]
  <2>1. worker' = [worker EXCEPT ![w] = r]
    BY <1>6 DEF Go, IInv, WorkersTyped
  <2>2. /\ r \in LocalState /\ r.pc = "delete_original" /\ r.f = worker[w].f
        /\ r.k = worker[w].k /\ r.cur = u /\ r.todo = worker[w].todo
    BY <1>2 DEF LocalState, Steps, CommitSteps
  <2> HIDE DEF r
  <2> QED
    BY <1>1, <1>2, <1>4, <1>6, <2>1, <2>2, CommitMove DEF CommitSteps
<1> QED
  BY <1>5, <1>6 DEF MarkCandidate

-----------------------------------------------------------------------------
(***************************************************************************)
(* The steps that write rows                                               *)
(***************************************************************************)
\* mark_deleted for an original, which only the holder of the commit lock does.
LEMMA MarkOriginalKeeps ==
  ASSUME IInv, NEW w \in Workers, MarkOriginal(w)
  PROVE  IInv'
<1> PICK u, x : u = worker[w].cur /\ x = Original(u)
  OBVIOUS
<1>1. /\ worker[w].pc = "mark_original" /\ UNCHANGED <<workflow, versions, job>>
      /\ UNCHANGED <<blobs, faults>>
  BY DEF MarkOriginal
<1>2. /\ worker[w] \in LocalState /\ u \in UploadIds /\ Settled(u) /\ lock = w
      /\ worker[w].f \in Workflows /\ worker[w].k \in Keys
      /\ \A t \in worker[w].todo : Settled(t)
  BY <1>1 DEF IInv, WorkersTyped, WorkerOK, Knows, CleanupOK, CommitSteps
<1> DEFINE deleted == [upload[u] EXCEPT !.status = "deleted"]
<1>3. upload' = upload \/ upload' = [upload EXCEPT ![u] = deleted]
  BY <1>2 DEF MarkOriginal, IInv, TablesTyped
<1>0. /\ deleted \in UploadRow /\ deleted.status = "deleted"
      /\ deleted.map = upload[u].map /\ deleted.cand = upload[u].cand
      /\ deleted.file = upload[u].file
  BY <1>2, RowsTyped DEF IInv, UploadRow, UploadStatuses
<1> HIDE DEF deleted
<1>4. StorageTyped'
  BY <1>1 DEF MarkOriginal, IInv, StorageTyped, RowStates
<1>5. TablesTyped'
  BY <1>0, <1>1, <1>2, <1>3, UploadFacts DEF IInv, TablesTyped
<1>6. \A t \in UploadIds : /\ Settled(t) => Settled(t)'
                           /\ upload'[t].map = upload[t].map
                           /\ upload'[t].cand = upload[t].cand
                           /\ upload'[t].file = upload[t].file
                           /\ Settled(t)' => Settled(t)
                           /\ upload'[t].status = Absent => upload[t].status = Absent
                           /\ upload[t].status = Absent => upload'[t].status = Absent
  <2>1. CASE upload' = upload
    BY <2>1 DEF Settled
  <2>2. CASE upload' = [upload EXCEPT ![u] = deleted]
    BY <1>0, <1>2, <2>2, UploadFacts DEF IInv, Settled, Absent
  <2> QED
    BY <1>3, <2>1, <2>2
<1>7. ASSUME NEW t \in UploadIds PROVE UploadOK(t)'
  BY <1>6 DEF IInv, UploadOK
<1>8. ASSUME WorkersTyped', \A v \in Workers \ {w} : worker'[v] = worker[v],
             lock' \in {lock, NoWorker}, WorkerOK(w)'
      PROVE  IInv'
  <2>1. ASSUME NEW v \in Workers \ {w} PROVE Frame(v)
    <3>1. \A f \in Workflows : workflow[f].rev \in Nat
      BY RowsTyped DEF IInv
    <3> QED
      BY <1>1, <1>2, <1>6, <1>8, <3>1 DEF Frame
  <2> QED
    BY <1>1, <1>4, <1>5, <1>7, <1>8, <2>1, StepOf DEF IInv, JobTyped
<1>9. CASE Leave(w)
  BY <1>2, <1>8, <1>9, LeaveFacts DEF IInv, Leave
<1>10. CASE Go(w, "delete_candidate") /\ UNCHANGED lock
  <2> DEFINE r == [worker[w] EXCEPT !.pc = "delete_candidate"]
  <2>1. worker' = [worker EXCEPT ![w] = r]
    BY <1>10 DEF Go, IInv, WorkersTyped
  <2>2. /\ r \in LocalState /\ r.pc = "delete_candidate" /\ r.f = worker[w].f
        /\ r.k = worker[w].k /\ r.todo = worker[w].todo
    BY <1>2 DEF LocalState, Steps, CommitSteps
  <2> HIDE DEF r
  <2>3. /\ worker' \in [Workers -> LocalState] /\ worker'[w] = r
        /\ \A v \in Workers \ {w} : worker'[v] = worker[v]
    BY <2>1, <2>2, MoveFacts DEF IInv
  <2>4. worker[w].todo \subseteq UploadIds
    BY <1>2 DEF LocalState
  <2>5. WorkerOK(w)'
    BY <1>2, <1>6, <1>10, <2>2, <2>3, <2>4
       DEF WorkerOK, Knows, MappingOK, AssemblyOK, CleanupOK, CommitSteps
  <2> QED
    BY <1>8, <1>10, <2>3, <2>5 DEF IInv, WorkersTyped
<1> QED
  BY <1>9, <1>10 DEF MarkOriginal

\* What a transaction that writes an upload row and advances its workflow does
\* to the tables and to the other threads.
LEMMA AdvanceTables ==
  ASSUME IInv, NEW u \in UploadIds, NEW r \in UploadRow,
         upload' = [upload EXCEPT ![u] = r],
         NEW s \in Statuses, s # Absent, Advance(u[1], s), versions' = versions,
         r.status # Absent => r.file \in Files,
         r.status \in {"accepted", "deleted"} => r.cand = r.map /\ r.cand \in Mappings,
         Settled(u) => r.status \in {"accepted", "deleted"}
  PROVE  /\ TablesTyped'
         /\ \A t \in UploadIds : UploadOK(t)'
         /\ \A v \in Workers :
              worker'[v] = worker[v] /\ (lock = v => lock' = v) => Frame(v)
<1> PICK f : f = u[1]
  OBVIOUS
<1>1. f \in Workflows
  BY DEF UploadIds
<1>2. /\ workflow' \in [Workflows -> WorkflowRow] /\ workflow'[f].status = s
      /\ workflow'[f].rev = workflow[f].rev + 1
      /\ workflow'[f].base = workflow[f].base
      /\ \A g \in Workflows \ {f} : workflow'[g] = workflow[g]
  BY <1>1, AdvanceFacts DEF IInv
<1>3. /\ upload' \in [UploadIds -> UploadRow] /\ upload'[u] = r
      /\ \A t \in UploadIds \ {u} : upload'[t] = upload[t]
  BY UploadFacts DEF IInv
<1>4. \A g \in Workflows : workflow[g].rev \in Nat /\ workflow[g].base \in Nat
  BY RowsTyped DEF IInv
<1>5. TablesTyped'
  BY <1>2, <1>3 DEF IInv, TablesTyped
<1>6. \A t \in UploadIds : UploadOK(t)' /\ (Settled(t) => Settled(t)')
  BY <1>3 DEF IInv, UploadOK, Settled
<1>7. ASSUME NEW v \in Workers, worker'[v] = worker[v], lock = v => lock' = v
      PROVE  Frame(v)
  <2>1. \A g \in Workflows :
          /\ workflow'[g].rev \in Nat /\ workflow[g].rev <= workflow'[g].rev
          /\ workflow[g].status # Absent =>
               workflow'[g].status # Absent /\ workflow'[g].base = workflow[g].base
    BY <1>2, <1>4
  <2>2. workflow'[u[1]].rev # workflow[u[1]].rev
    BY <1>1, <1>2, <1>4
  <2> QED
    BY <1>3, <1>6, <1>7, <2>1, <2>2 DEF Frame
<1> QED
  BY <1>5, <1>6, <1>7

\* A step of no thread keeps the invariant if it respects all of them.
LEMMA OuterStep ==
  ASSUME IInv, TablesTyped', StorageTyped', JobTyped', UNCHANGED <<worker, lock>>,
         \A u \in UploadIds : UploadOK(u)',
         \A v \in Workers : Frame(v)
  PROVE  IInv'
<1>1. \A v \in Workers : WorkerOK(v)'
  BY FrameKeeps DEF IInv
<1> QED
  BY <1>1 DEF IInv, WorkersTyped

\* recognize and confirm_mapping.
LEMMA RecognizeKeeps ==
  ASSUME IInv, NEW u \in UploadIds, Recognize(u) \/ ConfirmMapping(u)
  PROVE  IInv'
<1>1. /\ u[1] \in Workflows /\ upload[u] \in UploadRow
      /\ upload[u].map \in 0..MaxMappings
  BY RowsTyped DEF UploadIds, IInv
<1>2. /\ UNCHANGED <<versions, job, lock, worker>> /\ UNCHANGED storage /\ faults' = faults
      /\ Advance(u[1], "recognized") /\ upload[u].status \in {"staged", "recognized"}
  BY DEF Recognize, ConfirmMapping
<1>3. PICK r \in UploadRow : /\ upload' = [upload EXCEPT ![u] = r]
                             /\ r.status = "recognized" /\ r.file = upload[u].file
  <2>1. CASE Recognize(u)
    <3> DEFINE r == [upload[u] EXCEPT !.status = "recognized"]
    <3>1. upload' = [upload EXCEPT ![u] = r]
      BY <2>1 DEF Recognize, IInv, TablesTyped
    <3>2. r \in UploadRow /\ r.status = "recognized" /\ r.file = upload[u].file
      BY <1>1 DEF UploadRow, UploadStatuses
    <3> QED
      BY <3>1, <3>2
  <2>2. CASE ConfirmMapping(u)
    <3> PICK m : m = upload[u].map + 1
      OBVIOUS
    <3> DEFINE r == [upload[u] EXCEPT !.map = m]
    <3>1. upload' = [upload EXCEPT ![u] = r]
      BY <2>2 DEF ConfirmMapping, IInv, TablesTyped
    <3>2. m \in 0..MaxMappings /\ upload[u].status = "recognized"
      BY <1>1, <2>2, BoundsAreNatural DEF ConfirmMapping
    <3>3. r \in UploadRow /\ r.status = "recognized" /\ r.file = upload[u].file
      BY <1>1, <3>2 DEF UploadRow
    <3> QED
      BY <3>1, <3>3
  <2> QED
    BY <2>1, <2>2
<1>4. upload[u].file \in Files
  BY <1>2 DEF IInv, UploadOK, Absent
<1>5. /\ TablesTyped' /\ \A t \in UploadIds : UploadOK(t)'
      /\ \A v \in Workers : Frame(v)
  BY <1>2, <1>3, <1>4, AdvanceTables DEF Settled, Statuses, Absent
<1>6. StorageTyped' /\ JobTyped'
  BY <1>2 DEF IInv, StorageTyped, JobTyped, storage
<1> QED
  BY <1>2, <1>5, <1>6, OuterStep

\* create_workflow: nobody knew the workflow.
LEMMA CreateWorkflowKeeps ==
  ASSUME IInv, NEW f \in Workflows, CreateWorkflow(f)
  PROVE  IInv'
<1> DEFINE r == [workflow[f] EXCEPT !.status = "created", !.base = Len(versions)]
<1>1. /\ UNCHANGED <<upload, versions, job, lock, worker>> /\ UNCHANGED storage
      /\ faults' = faults /\ workflow[f].status = Absent
  BY DEF CreateWorkflow
<1>2. workflow[f] \in WorkflowRow /\ Len(versions) \in Nat
  BY DEF IInv, TablesTyped
<1>3. workflow' = [workflow EXCEPT ![f] = r]
  BY <1>2 DEF CreateWorkflow, IInv, TablesTyped
<1>4. /\ r \in WorkflowRow /\ r.status = "created" /\ r.rev = workflow[f].rev
      /\ r.base = Len(versions)
  BY <1>2 DEF WorkflowRow, Statuses
<1> HIDE DEF r
<1>5. /\ workflow' \in [Workflows -> WorkflowRow] /\ workflow'[f] = r
      /\ \A g \in Workflows \ {f} : workflow'[g] = workflow[g]
  BY <1>3, <1>4 DEF IInv, TablesTyped
<1>6. TablesTyped' /\ StorageTyped' /\ JobTyped' /\ \A u \in UploadIds : UploadOK(u)'
  BY <1>1, <1>2, <1>4, <1>5
     DEF IInv, TablesTyped, StorageTyped, JobTyped, UploadOK, Settled, storage
<1>7. ASSUME NEW v \in Workers PROVE Frame(v)
  <2>1. \A g \in Workflows : workflow[g].rev \in Nat
    BY RowsTyped DEF IInv
  <2> QED
    BY <1>1, <1>4, <1>5, <2>1 DEF Frame, Settled
<1> QED
  BY <1>1, <1>6, <1>7, OuterStep

\* What the transactions of upload and standardize leave to their own thread: it
\* ends, or goes on to look at the tables.
LEMMA SaveLocal ==
  ASSUME IInv, NEW w \in Workers, worker[w].pc # "idle",
         NEW p \in {"check_upload", "check_candidate"}, NEW h \in BOOLEAN,
         \/ Leave(w)
         \/ /\ worker' = [worker EXCEPT ![w].pc = p, ![w].holds = h]
            /\ UNCHANGED lock
  PROVE  /\ WorkersTyped' /\ WorkerOK(w)'
         /\ \A v \in Workers \ {w} : worker'[v] = worker[v] /\ (lock = v => lock' = v)
         /\ lock' = lock \/ lock = w
<1>1. CASE Leave(w)
  BY <1>1, LeaveFacts DEF IInv
<1>2. CASE /\ worker' = [worker EXCEPT ![w].pc = p, ![w].holds = h]
           /\ UNCHANGED lock
  <2> DEFINE r == [worker[w] EXCEPT !.pc = p, !.holds = h]
  <2>1. worker[w] \in LocalState /\ worker' = [worker EXCEPT ![w] = r]
    BY <1>2 DEF IInv, WorkersTyped
  <2>2. r \in LocalState /\ r.pc = p /\ r.f = worker[w].f /\ r.k = worker[w].k
    BY <2>1 DEF LocalState, Steps
  <2> HIDE DEF r
  <2>3. /\ worker' \in [Workers -> LocalState] /\ worker'[w] = r
        /\ \A v \in Workers \ {w} : worker'[v] = worker[v]
    BY <2>1, <2>2, MoveFacts DEF IInv
  <2>4. WorkerOK(w)'
    BY <2>2, <2>3 DEF IInv, WorkerOK, Knows, MappingOK, AssemblyOK, CleanupOK, CommitSteps
  <2> QED
    BY <1>2, <2>3, <2>4 DEF IInv, WorkersTyped
<1> QED
  BY <1>1, <1>2

\* The transaction of upload.
LEMMA SaveUploadKeeps ==
  ASSUME IInv, NEW w \in Workers, NEW o, SaveUpload(w, o)
  PROVE  IInv'
<1> PICK u, h : u = Uid(w) /\ h = (~(UploadInsertable(w) /\ Done(o)))
  OBVIOUS
<1>1. /\ worker[w].pc = "upload" /\ Fault(o)
      /\ UNCHANGED <<versions, expired, job>>
  BY DEF SaveUpload
<1>2. /\ worker[w].f \in Workflows /\ worker[w].file \in Files
      /\ u \in UploadIds /\ u[1] = worker[w].f
  BY <1>1 DEF IInv, WorkerOK, Knows, Uid, UploadIds
<1>3. /\ WorkersTyped' /\ WorkerOK(w)'
      /\ \A v \in Workers \ {w} : worker'[v] = worker[v] /\ (lock = v => lock' = v)
      /\ lock' = lock \/ lock = w
  <2>1. /\ h \in BOOLEAN
        /\ \/ Leave(w)
           \/ /\ worker' = [worker EXCEPT ![w].pc = "check_upload", ![w].holds = h]
              /\ UNCHANGED lock
    BY DEF SaveUpload
  <2> QED
    BY <1>1, <2>1, SaveLocal
<1>4. faults' \in 0..MaxFaults
  BY <1>1, FaultCounted DEF IInv
<1>5. CASE UploadInsertable(w) /\ Done(o)
  <2> DEFINE r == [upload[u] EXCEPT !.status = "staged", !.file = worker[w].file]
  <2>1. upload[u] \in UploadRow
    BY <1>2, RowsTyped DEF IInv
  <2>2. /\ upload' = [upload EXCEPT ![u] = r] /\ Advance(u[1], "uploading")
        /\ row' = [row EXCEPT ![Original(u)] = "staging"]
        /\ blobs' = blobs \cup {Original(u)} /\ upload[u].status = Absent
    BY <1>2, <1>5 DEF SaveUpload, UploadInsertable, IInv, TablesTyped
  <2>3. r \in UploadRow /\ r.status = "staged" /\ r.file \in Files
    BY <1>2, <2>1 DEF UploadRow, UploadStatuses
  <2> HIDE DEF r
  <2>4. /\ TablesTyped' /\ \A t \in UploadIds : UploadOK(t)'
        /\ \A v \in Workers \ {w} : Frame(v)
    BY <1>1, <1>2, <1>3, <2>2, <2>3, AdvanceTables DEF Settled, Statuses, Absent
  <2>5. StorageTyped'
    <3>1. Original(u) \in Objects
      BY <1>2 DEF Objects
    <3> QED
      BY <1>1, <1>4, <2>2, <3>1 DEF IInv, StorageTyped, RowStates
  <2> QED
    BY <1>1, <1>3, <2>4, <2>5, StepOf DEF IInv, JobTyped
<1>6. CASE ~(UploadInsertable(w) /\ Done(o))
  <2>1. UNCHANGED <<tables, job>> /\ StorageTyped'
    BY <1>1, <1>4, <1>6 DEF SaveUpload, tables, IInv, StorageTyped
  <2> QED
    BY <1>3, <2>1, LocalStep
<1> QED
  BY <1>5, <1>6

\* The transaction of standardize: the revision it expects is the one it read, so
\* the mapping is still the one it used.
LEMMA SaveCandidateKeeps ==
  ASSUME IInv, NEW w \in Workers, NEW o, SaveCandidate(w, o)
  PROVE  IInv'
<1> PICK u, h : u = Uid(w) /\ h = (~(CandidateInsertable(w) /\ Done(o)))
  OBVIOUS
<1>1. /\ worker[w].pc = "standardize" /\ Fault(o)
      /\ UNCHANGED <<versions, expired, job>>
  BY DEF SaveCandidate
<1>2. /\ worker[w].f \in Workflows /\ worker[w].map \in Mappings
      /\ u \in UploadIds /\ u[1] = worker[w].f
      /\ RevisionHolds(w) => upload[u].map = worker[w].map
  BY <1>1 DEF IInv, WorkerOK, Knows, MappingOK, Uid, UploadIds
<1>3. /\ WorkersTyped' /\ WorkerOK(w)'
      /\ \A v \in Workers \ {w} : worker'[v] = worker[v] /\ (lock = v => lock' = v)
      /\ lock' = lock \/ lock = w
  <2>1. /\ h \in BOOLEAN
        /\ \/ Leave(w)
           \/ /\ worker' = [worker EXCEPT ![w].pc = "check_candidate", ![w].holds = h]
              /\ UNCHANGED lock
    BY DEF SaveCandidate
  <2> QED
    BY <1>1, <2>1, SaveLocal
<1>4. faults' \in 0..MaxFaults
  BY <1>1, FaultCounted DEF IInv
<1>5. CASE CandidateInsertable(w) /\ Done(o)
  <2> DEFINE r == [upload[u] EXCEPT !.status = "accepted", !.cand = worker[w].map]
  <2>1. upload[u] \in UploadRow /\ upload[u].status = "recognized"
        /\ upload[u].map = worker[w].map
    BY <1>2, <1>5, RowsTyped DEF IInv, CandidateInsertable
  <2>2. upload[u].file \in Files
    BY <1>2, <2>1 DEF IInv, UploadOK, Absent
  <2>3. PICK s \in {"ready", "recognized"} : Advance(u[1], s)
    BY <1>2, <1>5 DEF SaveCandidate
  <2>4. /\ upload' = [upload EXCEPT ![u] = r]
        /\ row' = [row EXCEPT ![MyCandidate(w)] = "staging"]
        /\ blobs' = blobs \cup {MyCandidate(w)}
    BY <1>5 DEF SaveCandidate, IInv, TablesTyped
  <2>5. /\ r \in UploadRow /\ r.status = "accepted" /\ r.file \in Files
        /\ r.cand = r.map /\ r.cand \in Mappings
    BY <1>2, <2>1, <2>2 DEF UploadRow, UploadStatuses, Mappings
  <2> HIDE DEF r
  <2>6. /\ TablesTyped' /\ \A t \in UploadIds : UploadOK(t)'
        /\ \A v \in Workers \ {w} : Frame(v)
    BY <1>1, <1>2, <1>3, <2>3, <2>4, <2>5, AdvanceTables DEF Statuses, Absent
  <2>7. StorageTyped'
    <3>1. MyCandidate(w) \in Objects
      BY <1>2 DEF MyCandidate, Objects
    <3> QED
      BY <1>1, <1>4, <2>4, <3>1 DEF IInv, StorageTyped, RowStates
  <2> QED
    BY <1>1, <1>3, <2>6, <2>7, StepOf DEF IInv, JobTyped
<1>6. CASE ~(CandidateInsertable(w) /\ Done(o))
  <2>1. UNCHANGED <<tables, job>> /\ StorageTyped'
    BY <1>1, <1>4, <1>6 DEF SaveCandidate, tables, IInv, StorageTyped
  <2> QED
    BY <1>3, <2>1, LocalStep
<1> QED
  BY <1>5, <1>6

\* A version that SaveVersion inserts (_commit_database) holds what the workflow
\* held when the version was inserted.
LEMMA VersionFacts ==
  ASSUME IInv, NEW w \in Workers, worker[w].pc = "save_version", VersionInsertable(w)
  PROVE  /\ worker[w].f \in Workflows /\ worker[w].k \in Keys
         /\ worker[w].content \in Contents
         /\ UploadsOf(worker[w].f) # {}
         /\ AllAccepted(UploadsOf(worker[w].f))
         /\ worker[w].content = Assembled(worker[w].f)
         /\ workflow[worker[w].f].base = Len(versions)
<1>1. worker[w].f \in Workflows /\ worker[w].k \in Keys /\ worker[w].content \in Contents
  BY DEF IInv, WorkerOK, Knows, WorkersTyped, LocalState
<1>2. /\ UploadsOf(worker[w].f) # {}
      /\ AllAccepted(UploadsOf(worker[w].f))
      /\ worker[w].content = Assembled(worker[w].f)
  BY DEF IInv, WorkerOK, AssemblyOK, VersionInsertable
<1> QED
  BY <1>1, <1>2 DEF VersionInsertable, BaseIsCurrent

\* The transaction of commit.
LEMMA SaveVersionKeeps ==
  ASSUME IInv, NEW w \in Workers, NEW o, SaveVersion(w, o)
  PROVE  IInv'
<1> PICK f, p : /\ f = worker[w].f
                /\ p = IF VersionInsertable(w) /\ o = "ok" THEN "drop_committed"
                                                           ELSE "check_commit"
  OBVIOUS
<1> DEFINE r == [worker[w] EXCEPT !.pc = p]
<1>0. p \in {"drop_committed", "check_commit"}
  OBVIOUS
<1>1. /\ worker[w].pc = "save_version" /\ Fault(o)
      /\ UNCHANGED <<upload, blobs, lock, job>> /\ Go(w, p)
  BY DEF SaveVersion
<1>2. worker[w] \in LocalState /\ worker' = [worker EXCEPT ![w] = r]
  BY <1>1 DEF Go, IInv, WorkersTyped
<1>3. /\ r \in LocalState /\ r.pc = p /\ r.f = f /\ r.k = worker[w].k
      /\ r.todo = worker[w].todo
  BY <1>0, <1>2 DEF LocalState, Steps, CommitSteps
<1> HIDE DEF r
<1>4. faults' \in 0..MaxFaults /\ MyFinal(w) \in Objects
  BY <1>1, FaultCounted, MyFinalIsObject DEF IInv, CommitSteps
<1>5. CASE VersionInsertable(w) /\ Done(o)
  <2> DEFINE new == [f |-> f, k |-> worker[w].k, content |-> worker[w].content]
  <2>1. /\ versions' = Append(versions, new) /\ Advance(f, "committed")
        /\ row' = [row EXCEPT ![MyFinal(w)] = "available"]
        /\ expired' = expired \ {MyFinal(w)}
    BY <1>5 DEF SaveVersion
  <2>2. f \in Workflows /\ new \in Versions
    BY <1>1, <1>5, VersionFacts DEF Versions
  <2> HIDE DEF new
  <2>3. /\ workflow' \in [Workflows -> WorkflowRow] /\ workflow'[f].status = "committed"
        /\ workflow'[f].rev = workflow[f].rev + 1
        /\ workflow'[f].base = workflow[f].base
        /\ \A g \in Workflows \ {f} : workflow'[g] = workflow[g]
    BY <2>1, <2>2, AdvanceFacts DEF IInv, Statuses
  <2>4. /\ versions' \in Seq(Versions) /\ Len(versions') = Len(versions) + 1
        /\ Len(versions) \in Nat
    BY <2>1, <2>2 DEF IInv, TablesTyped
  <2>5. \A g \in Workflows : workflow[g].rev \in Nat /\ workflow[g].base \in Nat
                             /\ workflow[g].base <= Len(versions)
    BY RowsTyped DEF IInv, TablesTyped
  <2>6. TablesTyped'
    <3>1. \A g \in Workflows : workflow'[g].base = workflow[g].base
      BY <2>3
    <3>2. \A g \in Workflows : workflow'[g].base <= Len(versions')
      BY <2>4, <2>5, <3>1
    <3>3. upload' \in [UploadIds -> UploadRow]
      BY <1>1 DEF IInv, TablesTyped
    <3> QED
      BY <2>3, <2>4, <3>2, <3>3 DEF TablesTyped
  <2>7. StorageTyped'
    BY <1>1, <1>4, <2>1 DEF IInv, StorageTyped, RowStates
  <2>8. lock = w /\ worker[w].k \in Keys /\ \A u \in worker[w].todo : Settled(u)
    BY <1>1 DEF IInv, WorkerOK, Knows, CleanupOK, CommitSteps
  <2>9. /\ worker' \in [Workers -> LocalState] /\ worker'[w] = r
        /\ \A v \in Workers \ {w} : worker'[v] = worker[v]
    BY <1>2, <1>3, MoveFacts DEF IInv
  <2>10. ASSUME NEW v \in Workers \ {w} PROVE Frame(v)
    <3>1. \A g \in Workflows :
            /\ workflow'[g].rev \in Nat /\ workflow[g].rev <= workflow'[g].rev
            /\ workflow[g].status # Absent =>
                 workflow'[g].status # Absent /\ workflow'[g].base = workflow[g].base
      BY <2>2, <2>3, <2>5 DEF Absent
    <3> QED
      BY <1>1, <2>8, <2>9, <3>1 DEF Frame, Settled
  <2>11. WorkerOK(w)'
    BY <1>0, <1>1, <1>3, <2>2, <2>8, <2>9
       DEF WorkerOK, Knows, MappingOK, AssemblyOK, CleanupOK, CommitSteps, Settled
  <2>12. WorkersTyped' /\ JobTyped' /\ \A u \in UploadIds : UploadOK(u)'
    BY <1>1, <2>9 DEF IInv, WorkersTyped, JobTyped, UploadOK, Settled
  <2> QED
    BY <2>6, <2>7, <2>10, <2>11, <2>12, StepOf
<1>6. CASE ~(VersionInsertable(w) /\ Done(o))
  <2>1. UNCHANGED <<tables, job, lock>> /\ StorageTyped'
    BY <1>1, <1>4, <1>6 DEF SaveVersion, tables, IInv, StorageTyped
  <2> QED
    BY <1>0, <1>1, <1>2, <1>3, <2>1, CommitMove DEF CommitSteps
<1> QED
  BY <1>5, <1>6

-----------------------------------------------------------------------------
(***************************************************************************)
(* The maintenance job, and time                                           *)
(***************************************************************************)
\* The job touches storage objects only.
LEMMA MaintenanceKeeps ==
  ASSUME IInv, Maintenance \/ CrashJob \/ \E x \in Objects : Expire(x)
  PROVE  IInv'
<1>1. ASSUME UNCHANGED <<tables, lock, worker>>, StorageTyped', JobTyped'
      PROVE  IInv'
  <2>1. TablesTyped' /\ \A u \in UploadIds : UploadOK(u)'
    BY <1>1 DEF IInv, TablesTyped, UploadOK, Settled, tables
  <2>2. ASSUME NEW v \in Workers PROVE Frame(v)
    <3>1. \A f \in Workflows : workflow[f].rev \in Nat
      BY RowsTyped DEF IInv
    <3> QED
      BY <1>1, <3>1 DEF Frame, Settled, tables
  <2> QED
    BY <1>1, <2>1, <2>2, OuterStep
<1>2. /\ job.pc \in JobSteps /\ job.todo \subseteq Objects /\ job.ok \in BOOLEAN
      /\ job.cur \in Objects \cup {NoId} /\ job.seen \subseteq Objects /\ job \in JobState
  BY DEF IInv, JobTyped, JobState
<1>3. IdleJob \in JobState /\ IdleJob.pc = "idle"
  BY DEF IdleJob, JobState, JobSteps
<1>4. ASSUME NEW x \in Objects, Expire(x) PROVE IInv'
  <2>1. UNCHANGED <<tables, lock, worker>> /\ StorageTyped' /\ JobTyped'
    BY <1>4 DEF Expire, IInv, StorageTyped, JobTyped
  <2> QED
    BY <1>1, <2>1
<1>5. CASE StartJob
  <2> DEFINE listed == {x \in expired : Listed(x)}
  <2>1. listed \subseteq Objects
    BY DEF IInv, StorageTyped
  <2> HIDE DEF listed
  <2>2. JobTyped'
    BY <1>2, <1>5, <2>1 DEF StartJob, JobTyped, JobState, JobSteps, listed
  <2>3. UNCHANGED <<tables, lock, worker>> /\ StorageTyped'
    BY <1>5 DEF StartJob, storage, IInv, StorageTyped
  <2> QED
    BY <1>1, <2>2, <2>3
<1>6. ASSUME NEW o, DeleteExpired(o) PROVE IInv'
  <2>1. PICK x \in job.todo :
          job' = [job EXCEPT !.pc = "mark", !.cur = x, !.ok = o = "ok", !.todo = @ \ {x}]
    BY <1>6 DEF DeleteExpired
  <2>2. JobTyped'
    BY <1>2, <2>1 DEF JobTyped, JobState, JobSteps
  <2>3. UNCHANGED <<tables, lock, worker>> /\ StorageTyped'
    BY <1>6, FaultCounted DEF DeleteExpired, IInv, StorageTyped
  <2> QED
    BY <1>1, <2>2, <2>3
<1>7. CASE MarkExpired
  <2>1. JobTyped'
    BY <1>2, <1>3, <1>7 DEF MarkExpired, JobTyped, JobState, JobSteps, IdleJob
  <2>2. UNCHANGED <<tables, lock, worker>> /\ StorageTyped'
    BY <1>7 DEF MarkExpired, IInv, StorageTyped, RowStates
  <2> QED
    BY <1>1, <2>1, <2>2
<1>8. CASE ListBlobs
  <2>1. blobs \subseteq Objects
    BY DEF IInv, StorageTyped
  <2>2. JobTyped'
    BY <1>2, <1>8, <2>1 DEF ListBlobs, JobTyped, JobState, JobSteps
  <2>3. UNCHANGED <<tables, lock, worker>> /\ StorageTyped'
    BY <1>8 DEF ListBlobs, storage, IInv, StorageTyped
  <2> QED
    BY <1>1, <2>2, <2>3
<1>9. CASE CompareRows
  <2> DEFINE missing == {x \in Objects : Live(x)} \ job.seen
  <2>1. missing \subseteq Objects
    OBVIOUS
  <2> HIDE DEF missing
  <2>2. JobTyped'
    BY <1>3, <1>9, <2>1 DEF CompareRows, JobTyped, JobState, JobSteps, IdleJob, missing
  <2>3. UNCHANGED <<tables, lock, worker>> /\ StorageTyped'
    BY <1>9 DEF CompareRows, storage, IInv, StorageTyped
  <2> QED
    BY <1>1, <2>2, <2>3
<1>10. CASE QuarantineMissing
  <2>1. JobTyped'
    BY <1>3, <1>10 DEF QuarantineMissing, JobTyped
  <2>2. UNCHANGED <<tables, lock, worker>> /\ StorageTyped'
    BY <1>10 DEF QuarantineMissing, IInv, StorageTyped, RowStates
  <2> QED
    BY <1>1, <2>1, <2>2
<1>11. CASE CrashJob
  <2>1. JobTyped'
    BY <1>3, <1>11 DEF CrashJob, JobTyped
  <2>2. UNCHANGED <<tables, lock, worker>> /\ StorageTyped'
    BY <1>11, FaultCounted DEF CrashJob, storage, IInv, StorageTyped
  <2> QED
    BY <1>1, <2>1, <2>2
<1> QED
  BY <1>4, <1>5, <1>6, <1>7, <1>8, <1>9, <1>10, <1>11 DEF Maintenance

-----------------------------------------------------------------------------
(***************************************************************************)
(* The invariant, and what follows from it                                 *)
(***************************************************************************)
\* Before the first workflow is created, nobody knows anything.
LEMMA InitOK == Init => IInv
<1> SUFFICES ASSUME Init PROVE IInv
  OBVIOUS
<1>1. TablesTyped
  <2>1. workflow \in [Workflows -> WorkflowRow]
    BY DEF Init, WorkflowRow, Statuses
  <2>2. upload \in [UploadIds -> UploadRow]
    BY BoundsAreNatural DEF Init, UploadRow, UploadStatuses
  <2>3. versions \in Seq(Versions) /\ Len(versions) = 0
    BY DEF Init
  <2>4. \A f \in Workflows : workflow[f].base = 0
    BY DEF Init
  <2> QED
    BY <2>1, <2>2, <2>3, <2>4 DEF TablesTyped
<1>2. StorageTyped
  BY BoundsAreNatural DEF Init, StorageTyped, RowStates
<1>3. JobTyped
  BY DEF Init, JobTyped, JobState, JobSteps, IdleJob
<1>4. WorkersTyped /\ \A v \in Workers : worker[v].pc = "idle"
  <2>1. IdleWorker.pc = "idle"
    BY DEF IdleWorker
  <2> QED
    BY <2>1, IdleTyped DEF Init, WorkersTyped
<1>5. \A u \in UploadIds : UploadOK(u)
  BY DEF Init, UploadOK, Settled, Absent
<1>6. \A v \in Workers : WorkerOK(v)
  BY <1>4 DEF WorkerOK, Knows, MappingOK, AssemblyOK, CleanupOK, CommitSteps
<1> QED
  BY <1>1, <1>2, <1>3, <1>4, <1>5, <1>6 DEF IInv

\* Every step of a request keeps the invariant.
LEMMA RequestKeeps ==
  ASSUME IInv, NEW w \in Workers, Request(w)
  PROVE  IInv'
<1>1. ASSUME NEW f \in Workflows, NEW k \in Keys,
             \/ \E file \in Files : StartUpload(w, f, k, file)
             \/ StartStandardize(w, <<f, k>>)
             \/ OpenCommit(w, f, k)
      PROVE  IInv'
  <2>1. <<f, k>> \in UploadIds
    BY DEF UploadIds
  <2> QED
    BY <1>1, <2>1, StartUploadKeeps, StartStandardizeKeeps, OpenCommitKeeps
<1>2. ASSUME NEW o, \/ SaveUpload(w, o) \/ CheckUpload(w, o)
                    \/ SaveCandidate(w, o) \/ CheckCandidate(w, o)
      PROVE  IInv'
  BY <1>2, SaveUploadKeeps, SaveCandidateKeeps, CheckKeeps
<1>3. ASSUME NEW o, Promote(w, o) \/ SaveVersion(w, o) \/ CheckCommit(w, o)
      PROVE  IInv'
  BY <1>3, PromoteKeeps, SaveVersionKeeps, CheckCommitKeeps
<1>4. ASSUME NEW o, \/ DeleteCandidate(w, o) \/ DeleteOriginal(w, o)
                    \/ DropStaged(w, o) \/ Compensate(w, o)
      PROVE  IInv'
  BY <1>4, DeleteKeeps, DropStagedKeeps, CompensateKeeps
<1>5. ASSUME \/ Assemble(w) \/ RefuseCommit(w) \/ Crash(w)
             \/ MarkCandidate(w) \/ MarkOriginal(w)
      PROVE  IInv'
  BY <1>5, AssembleKeeps, EndKeeps, MarkCandidateKeeps, MarkOriginalKeeps
<1> QED
  BY <1>1, <1>2, <1>3, <1>4, <1>5 DEF Request

\* Every step keeps the invariant.
LEMMA NextKeeps == IInv /\ [Next]_vars => IInv'
<1> SUFFICES ASSUME IInv, [Next]_vars PROVE IInv'
  OBVIOUS
<1>1. CASE UNCHANGED vars
  <2>1. /\ UNCHANGED <<workflow, upload, versions, row, blobs, expired, lock>>
        /\ UNCHANGED <<worker, job, faults>>
    BY <1>1 DEF vars, tables, storage
  <2>2. TablesTyped' /\ StorageTyped' /\ JobTyped' /\ WorkersTyped'
    BY <2>1 DEF IInv, TablesTyped, StorageTyped, JobTyped, WorkersTyped
  <2>3. \A u \in UploadIds : UploadOK(u)'
    BY <2>1 DEF IInv, UploadOK, Settled
  <2>4. ASSUME NEW v \in Workers PROVE Frame(v)
    <3>1. \A f \in Workflows : workflow[f].rev \in Nat
      BY RowsTyped DEF IInv
    <3> QED
      BY <2>1, <3>1 DEF Frame, Settled
  <2> QED
    BY <2>1, <2>2, <2>3, <2>4, OuterStep
<1>2. CASE \E f \in Workflows : CreateWorkflow(f)
  BY <1>2, CreateWorkflowKeeps
<1>3. CASE \E u \in UploadIds : Recognize(u) \/ ConfirmMapping(u)
  BY <1>3, RecognizeKeeps
<1>4. CASE \E w \in Workers : Request(w)
  BY <1>4, RequestKeeps
<1>5. CASE Maintenance \/ CrashJob \/ \E x \in Objects : Expire(x)
  BY <1>5, MaintenanceKeeps
<1> QED
  BY <1>1, <1>2, <1>3, <1>4, <1>5 DEF Next

\* The invariant holds in every reachable state.
THEOREM Invariant == Spec => []IInv
  BY InitOK, NextKeeps, PTL DEF Spec

\* Every variable keeps its type, and only the holder of the commit lock is
\* between the start and the end of a commit (commit).
THEOREM TypeCorrect == Spec => []TypeOK
<1>1. IInv => TypeOK
  BY DEF IInv, TablesTyped, StorageTyped, WorkersTyped, WorkerOK, Knows, TypeOK
<1> QED
  BY <1>1, Invariant, PTL

\* A candidate is the file standardized under the mapping confirmed last, for any
\* number of threads that map and standardize the same upload (standardize).
THEOREM CandidatesCurrent == Spec => []CandidateFollowsMapping
<1>1. IInv => CandidateFollowsMapping
  BY DEF IInv, UploadOK, Settled, CandidateFollowsMapping
<1> QED
  BY <1>1, Invariant, PTL

-----------------------------------------------------------------------------
(***************************************************************************)
(* What a commit adds                                                      *)
(***************************************************************************)
NewVersion(w) ==
  [f |-> worker[w].f, k |-> worker[w].k, content |-> worker[w].content]

\* Versions change in the transaction of a commit only.
LEMMA OnlySaveVersionAdds ==
  ASSUME [Next]_vars
  PROVE  \/ versions' = versions
         \/ \E w \in Workers : /\ worker[w].pc = "save_version"
                               /\ VersionInsertable(w)
                               /\ versions' = Append(versions, NewVersion(w))
<1>1. CASE UNCHANGED vars
  BY <1>1 DEF vars, tables
<1>2. CASE \E f \in Workflows : CreateWorkflow(f)
  BY <1>2 DEF CreateWorkflow
<1>3. CASE \E u \in UploadIds : Recognize(u) \/ ConfirmMapping(u)
  BY <1>3 DEF Recognize, ConfirmMapping
<1>4. ASSUME NEW w \in Workers, Request(w)
      PROVE  \/ versions' = versions
             \/ /\ worker[w].pc = "save_version" /\ VersionInsertable(w)
                /\ versions' = Append(versions, NewVersion(w))
  <2>1. CASE \E f \in Workflows, k \in Keys :
               \/ \E file \in Files : StartUpload(w, f, k, file)
               \/ StartStandardize(w, <<f, k>>)
               \/ OpenCommit(w, f, k)
    BY <2>1 DEF StartUpload, StartStandardize, OpenCommit, tables
  <2>2. ASSUME NEW o, \/ SaveUpload(w, o) \/ CheckUpload(w, o)
                      \/ SaveCandidate(w, o) \/ CheckCandidate(w, o)
        PROVE  versions' = versions
    BY <2>2 DEF SaveUpload, CheckUpload, SaveCandidate, CheckCandidate, tables
  <2>3. ASSUME NEW o, SaveVersion(w, o)
        PROVE  \/ versions' = versions
               \/ /\ worker[w].pc = "save_version" /\ VersionInsertable(w)
                  /\ versions' = Append(versions, NewVersion(w))
    BY <2>3 DEF SaveVersion, NewVersion
  <2>4. ASSUME NEW o, \/ Promote(w, o) \/ CheckCommit(w, o)
                      \/ DeleteCandidate(w, o) \/ DeleteOriginal(w, o)
                      \/ DropStaged(w, o) \/ Compensate(w, o)
        PROVE  versions' = versions
    BY <2>4 DEF Promote, CheckCommit, DeleteCandidate, DeleteOriginal, DropStaged,
                Compensate, tables
  <2>5. CASE \/ Assemble(w) \/ RefuseCommit(w) \/ Crash(w)
             \/ MarkCandidate(w) \/ MarkOriginal(w)
    BY <2>5 DEF Assemble, RefuseCommit, Crash, MarkCandidate, MarkOriginal, tables
  <2> QED
    BY <1>4, <2>1, <2>2, <2>3, <2>4, <2>5 DEF Request
<1>5. CASE Maintenance \/ CrashJob \/ \E x \in Objects : Expire(x)
  BY <1>5 DEF Maintenance, StartJob, DeleteExpired, MarkExpired, ListBlobs,
              CompareRows, QuarantineMissing, CrashJob, Expire, tables
<1> QED
  BY <1>1, <1>2, <1>3, <1>4, <1>5 DEF Next

\* A commit takes every upload of its workflow, under any interleaving with
\* uploads, mappings, standardizations and other commits (_commit_database).
THEOREM CommitsComplete == Spec => CommitTakesAllUploads
<1>1. ASSUME IInv, [Next]_vars, NEW f \in Workflows,
             VersionOf(f) = {}, (VersionOf(f) # {})'
      PROVE  /\ AllAccepted(UploadsOf(f))
             /\ versions'[Len(versions')].content = Assembled(f)
  <2>1. versions' # versions
    BY <1>1 DEF VersionOf
  <2>2. PICK w \in Workers : /\ worker[w].pc = "save_version"
                             /\ VersionInsertable(w)
                             /\ versions' = Append(versions, NewVersion(w))
    BY <1>1, <2>1, OnlySaveVersionAdds
  <2>3. versions \in Seq(Versions) /\ Len(versions) \in Nat
    BY <1>1 DEF IInv, TablesTyped
  <2>4. /\ Len(versions') = Len(versions) + 1
        /\ versions'[Len(versions')] = NewVersion(w)
        /\ DOMAIN versions = 1..Len(versions)
        /\ DOMAIN versions' = 1..(Len(versions) + 1)
        /\ \A n \in DOMAIN versions : versions'[n] = versions[n]
    BY <2>2, <2>3
  <2>5. worker[w].f = f
    BY <1>1, <2>4 DEF VersionOf, NewVersion
  <2>6. AllAccepted(UploadsOf(f)) /\ worker[w].content = Assembled(f)
    BY <1>1, <2>2, <2>5, VersionFacts
  <2> QED
    BY <2>4, <2>6 DEF NewVersion
<1>2. IInv /\ [Next]_vars =>
        [\A f \in Workflows :
           VersionOf(f) = {} /\ (VersionOf(f) # {})' =>
             /\ AllAccepted(UploadsOf(f))
             /\ versions'[Len(versions')].content = Assembled(f)]_vars
  BY <1>1
<1> QED
  BY <1>2, Invariant, PTL DEF Spec, CommitTakesAllUploads

\* A function on 1..n is a sequence.
LEMMA SequenceOf ==
  ASSUME NEW S, NEW n \in Nat, NEW s, s \in [1..n -> S]
  PROVE  s \in Seq(S)
<1>1. s \in UNION {[1..m -> S] : m \in Nat}
  BY ZenonT(30)
<1> QED
  BY <1>1, SeqDef, Zenon

\* The lineage has an entry for each version.
LEMMA LineageFacts ==
  ASSUME versions \in Seq(Versions)
  PROVE  /\ Lineage \in Seq([source : Workflows, content : Contents])
         /\ Len(Lineage) = Len(versions) /\ DOMAIN Lineage = 1..Len(versions)
         /\ Len(versions) \in Nat
         /\ \A n \in 1..Len(versions) :
              Lineage[n] = [source |-> versions[n].f, content |-> versions[n].content]
<1> DEFINE Entries == [source : Workflows, content : Contents]
<1>1. /\ Len(versions) \in Nat /\ DOMAIN versions = 1..Len(versions)
      /\ \A n \in 1..Len(versions) : versions[n] \in Versions
  OBVIOUS
<1>2. /\ DOMAIN Lineage = 1..Len(versions)
      /\ \A n \in 1..Len(versions) :
           Lineage[n] = [source |-> versions[n].f, content |-> versions[n].content]
  BY <1>1 DEF Lineage
<1>3. Lineage \in [1..Len(versions) -> Entries]
  BY <1>1 DEF Lineage, Versions
<1>4. Lineage \in Seq(Entries)
  BY <1>1, <1>3, SequenceOf
<1> QED
  BY <1>1, <1>2, <1>4, LenProperties

\* The versions are a history: each commit extends it by what its workflow holds,
\* every other step leaves it alone.
THEOREM HistoryImplemented == Spec => ImplementsHistory
<1>1. Init => History!Init
  <2>1. ASSUME Init PROVE Lineage = << >>
    <3>1. versions = << >>
      BY <2>1 DEF Init
    <3>2. versions \in Seq(Versions) /\ Len(versions) = 0
      BY <3>1, EmptySeq
    <3>3. Lineage \in Seq([source : Workflows, content : Contents]) /\ Len(Lineage) = 0
      BY <3>2, LineageFacts
    <3> QED
      BY <3>3, EmptySeq
  <2> QED
    BY <2>1 DEF History!Init
<1>2. ASSUME IInv, [Next]_vars PROVE [History!Next]_Lineage
  <2>1. CASE versions' = versions
    BY <2>1 DEF Lineage
  <2>2. CASE \E w \in Workers : /\ worker[w].pc = "save_version"
                                /\ VersionInsertable(w)
                                /\ versions' = Append(versions, NewVersion(w))
    <3>1. PICK w \in Workers : /\ worker[w].pc = "save_version"
                               /\ VersionInsertable(w)
                               /\ versions' = Append(versions, NewVersion(w))
      BY <2>2
    <3>2. PICK f, c : f = worker[w].f /\ c = worker[w].content
      OBVIOUS
    <3>3. /\ f \in Workflows /\ worker[w].k \in Keys /\ c \in Contents
          /\ UploadsOf(f) # {} /\ AllAccepted(UploadsOf(f))
          /\ c = Assembled(f) /\ workflow[f].base = Len(versions)
      BY <1>2, <3>1, <3>2, VersionFacts
    <3>4. versions \in Seq(Versions) /\ versions' \in Seq(Versions)
      BY <1>2, <3>1, <3>2, <3>3 DEF IInv, TablesTyped, NewVersion, Versions
    <3>5. PICK added : added = {StandardizedFile(u) : u \in UploadsOf(f)}
      OBVIOUS
    <3>6. added \in SUBSET Candidates /\ added # {}
      <4>1. ASSUME NEW u \in UploadsOf(f) PROVE StandardizedFile(u) \in Candidates
        BY <1>2, <3>3, <4>1 DEF IInv, UploadOK, Settled, UploadsOf, AllAccepted,
                                StandardizedFile, Candidates
      <4> QED
        BY <3>3, <3>5, <4>1
    <3>7. /\ Lineage \in Seq([source : Workflows, content : Contents])
          /\ Len(Lineage) = Len(versions) /\ DOMAIN Lineage = 1..Len(versions)
          /\ Len(versions) \in Nat
          /\ \A n \in 1..Len(versions) :
               Lineage[n] = [source |-> versions[n].f, content |-> versions[n].content]
      BY <3>4, LineageFacts
    <3>8. /\ Lineage' \in Seq([source : Workflows, content : Contents])
          /\ Len(Lineage') = Len(versions')
          /\ \A n \in 1..Len(versions') :
               Lineage'[n] = [source |-> versions'[n].f, content |-> versions'[n].content]
      <4>1. ASSUME versions' \in Seq(Versions)
            PROVE  /\ Lineage' \in Seq([source : Workflows, content : Contents])
                   /\ Len(Lineage') = Len(versions')
                   /\ \A n \in 1..Len(versions') :
                        Lineage'[n] = [source |-> versions'[n].f,
                                       content |-> versions'[n].content]
        <5> DEFINE Entries == [source : Workflows, content : Contents]
        <5>1. /\ Len(versions') \in Nat /\ DOMAIN versions' = 1..Len(versions')
              /\ \A n \in 1..Len(versions') : versions'[n] \in Versions
          BY <4>1
        <5>2. Lineage' \in [1..Len(versions') -> Entries]
          BY <5>1 DEF Lineage, Versions
        <5>3. Lineage' \in Seq(Entries)
          BY <5>1, <5>2, SequenceOf
        <5> QED
          BY <5>1, <5>2, <5>3, LenProperties DEF Lineage
      <4> QED
        BY <3>4, <4>1
    <3>9. /\ Len(versions') = Len(versions) + 1
          /\ \A n \in 1..Len(versions) : versions'[n] = versions[n]
          /\ versions'[Len(versions) + 1].f = f
          /\ versions'[Len(versions) + 1].content = c
      BY <3>1, <3>2, <3>4, <3>7 DEF NewVersion
    <3>10. PICK e : e = [source |-> f, content |-> c]
      OBVIOUS
    <3>11. Lineage' = Append(Lineage, e)
      <4>1. /\ Append(Lineage, e) \in Seq([source : Workflows, content : Contents])
            /\ Len(Append(Lineage, e)) = Len(Lineage) + 1
            /\ \A n \in 1..Len(Lineage) : Append(Lineage, e)[n] = Lineage[n]
            /\ Append(Lineage, e)[Len(Lineage) + 1] = e
        BY <3>3, <3>7, <3>10
      <4>2. \A n \in 1..Len(Lineage') : Lineage'[n] = Append(Lineage, e)[n]
        BY <3>7, <3>8, <3>9, <3>10, <4>1
      <4> QED
        BY <3>7, <3>8, <3>9, <4>1, <4>2, SeqEqual
    <3>12. c = History!Latest \cup added
      BY <3>3, <3>5, <3>7 DEF Assembled, ContentOf, History!Latest, History!Content
    <3>13. \A n \in DOMAIN Lineage : Lineage[n].source # f /\ Lineage[n].content # c
      BY <3>1, <3>2, <3>7 DEF VersionInsertable, VersionOf, ContentIsNew
    <3>14. History!Extend(f, added)
      BY <3>6, <3>10, <3>11, <3>12, <3>13 DEF History!Extend
    <3> QED
      BY <3>3, <3>6, <3>14 DEF History!Next
  <2> QED
    BY <1>2, <2>1, <2>2, OnlySaveVersionAdds
<1> QED
  BY <1>1, <1>2, Invariant, PTL DEF Spec, ImplementsHistory, History!Spec

-----------------------------------------------------------------------------
(***************************************************************************)
(* What a reader of the dataset relies on, from the history alone          *)
(***************************************************************************)
ChainLinks == [source : Workflows, content : SUBSET Candidates]
LineageTyped == Lineage \in Seq(ChainLinks)

\* The content to extend is that of the last version, if there is one.
LEMMA LatestFacts ==
  ASSUME LineageTyped
  PROVE  /\ Len(Lineage) \in Nat /\ DOMAIN Lineage = 1..Len(Lineage)
         /\ Len(Lineage) # 0 => History!Latest = Lineage[Len(Lineage)].content
         /\ History!Latest \in SUBSET Candidates
<1>1. /\ Len(Lineage) \in Nat /\ DOMAIN Lineage = 1..Len(Lineage)
      /\ \A n \in 1..Len(Lineage) : Lineage[n] \in ChainLinks
  BY DEF LineageTyped
<1>2. CASE Len(Lineage) = 0
  BY <1>1, <1>2 DEF History!Latest, History!Content
<1>3. CASE Len(Lineage) # 0
  <2>1. Len(Lineage) \in 1..Len(Lineage)
    BY <1>1, <1>3
  <2>2. Lineage[Len(Lineage)].content \in SUBSET Candidates
    BY <1>1, <2>1 DEF ChainLinks
  <2> QED
    BY <1>1, <1>3, <2>2 DEF History!Latest, History!Content
<1> QED
  BY <1>2, <1>3

\* What a step adds comes last and leaves the rest alone.
LEMMA ExtendFacts ==
  ASSUME LineageTyped, NEW source \in Workflows, NEW added \in SUBSET Candidates,
         History!Extend(source, added)
  PROVE  /\ LineageTyped'
         /\ Len(Lineage) \in Nat /\ Len(Lineage') = Len(Lineage) + 1
         /\ DOMAIN Lineage = 1..Len(Lineage)
         /\ DOMAIN Lineage' = 1..(Len(Lineage) + 1)
         /\ \A n \in 1..Len(Lineage) : Lineage'[n] = Lineage[n]
         /\ Lineage'[Len(Lineage) + 1].source = source
         /\ Lineage'[Len(Lineage) + 1].content = History!Latest \cup added
<1>1. History!Latest \in SUBSET Candidates
  BY LatestFacts
<1> PICK e : e = [source |-> source, content |-> History!Latest \cup added]
  OBVIOUS
<1>2. e \in ChainLinks /\ e.source = source /\ e.content = History!Latest \cup added
  BY <1>1 DEF ChainLinks
<1>3. Lineage' = Append(Lineage, e)
  BY DEF History!Extend
<1> QED
  BY <1>2, <1>3 DEF LineageTyped

\* The lineage is a sequence of versions.
LEMMA LineageIsTyped == History!Spec => []LineageTyped
<1>1. History!Init => LineageTyped
  BY DEF History!Init, LineageTyped
<1>2. LineageTyped /\ [History!Next]_Lineage => LineageTyped'
  <2> SUFFICES ASSUME LineageTyped, [History!Next]_Lineage PROVE LineageTyped'
    OBVIOUS
  <2>1. CASE UNCHANGED Lineage
    BY <2>1 DEF LineageTyped
  <2>2. CASE History!Next
    BY <2>2, ExtendFacts DEF History!Next
  <2> QED
    BY <2>1, <2>2
<1> QED
  BY <1>1, <1>2, PTL DEF History!Spec

\* A version holds all that any earlier one held and something more: a commit
\* never loses a record (commit).
THEOREM HistoryGrows == Spec => []History!Grows
<1>1. History!Init => History!Grows
  BY DEF History!Init, History!Grows
<1>2. LineageTyped /\ History!Grows /\ [History!Next]_Lineage => History!Grows'
  <2> SUFFICES ASSUME LineageTyped, History!Grows, [History!Next]_Lineage PROVE History!Grows'
    OBVIOUS
  <2>1. CASE UNCHANGED Lineage
    BY <2>1 DEF History!Grows
  <2>2. CASE History!Next
    <3>1. PICK source \in Workflows, added \in SUBSET Candidates : History!Extend(source, added)
      BY <2>2 DEF History!Next
    <3> PICK last : last = Len(Lineage) + 1
      OBVIOUS
    <3>2. /\ Len(Lineage) \in Nat
          /\ DOMAIN Lineage = 1..Len(Lineage) /\ DOMAIN Lineage' = 1..last
          /\ \A n \in 1..Len(Lineage) : Lineage'[n] = Lineage[n]
          /\ Lineage'[last].content = History!Latest \cup added
      BY <3>1, ExtendFacts
    <3>3. ASSUME NEW m \in DOMAIN Lineage
          PROVE  /\ Lineage[m].content \subseteq History!Latest
                 /\ Lineage[m].content # History!Latest \cup added
      <4>1. CASE m = Len(Lineage)
        <5>1. m # 0
          BY <3>2, <3>3
        <5> QED
          BY <3>1, <4>1, <5>1, LatestFacts DEF History!Extend
      <4>2. CASE m < Len(Lineage)
        <5>1. Len(Lineage) \in DOMAIN Lineage /\ Len(Lineage) # 0
          BY <3>2, <3>3
        <5>2. Lineage[m].content \subseteq History!Latest
          BY <4>2, <5>1, LatestFacts DEF History!Grows
        <5> QED
          BY <3>1, <5>2 DEF History!Extend
      <4> QED
        BY <3>2, <4>1, <4>2
    <3>4. ASSUME NEW m \in DOMAIN Lineage', NEW n \in DOMAIN Lineage', m < n
          PROVE  /\ Lineage'[m].content \subseteq Lineage'[n].content
                 /\ Lineage'[m].content # Lineage'[n].content
      <4>1. CASE n = last
        <5>1. m \in DOMAIN Lineage /\ Lineage'[m] = Lineage[m]
          BY <3>2, <3>4, <4>1
        <5> QED
          BY <3>2, <3>3, <4>1, <5>1
      <4>2. CASE n # last
        <5>1. /\ m \in DOMAIN Lineage /\ Lineage'[m] = Lineage[m]
              /\ n \in DOMAIN Lineage /\ Lineage'[n] = Lineage[n]
          BY <3>2, <3>4, <4>2
        <5> QED
          BY <3>4, <5>1 DEF History!Grows
      <4> QED
        BY <4>1, <4>2
    <3> QED
      BY <3>4 DEF History!Grows
  <2> QED
    BY <2>1, <2>2
<1> QED
  BY <1>1, <1>2, LineageIsTyped, HistoryImplemented, PTL DEF ImplementsHistory, History!Spec

\* However often a commit is repeated, its workflow adds one version (commit).
THEOREM HistoryOnce == Spec => []History!OncePerSource
<1>1. History!Init => History!OncePerSource
  BY DEF History!Init, History!OncePerSource
<1>2. LineageTyped /\ History!OncePerSource /\ [History!Next]_Lineage => History!OncePerSource'
  <2> SUFFICES ASSUME LineageTyped, History!OncePerSource, [History!Next]_Lineage PROVE History!OncePerSource'
    OBVIOUS
  <2>1. CASE UNCHANGED Lineage
    BY <2>1 DEF History!OncePerSource
  <2>2. CASE History!Next
    <3>1. PICK source \in Workflows, added \in SUBSET Candidates : History!Extend(source, added)
      BY <2>2 DEF History!Next
    <3> PICK last : last = Len(Lineage) + 1
      OBVIOUS
    <3>2. /\ Len(Lineage) \in Nat
          /\ DOMAIN Lineage = 1..Len(Lineage) /\ DOMAIN Lineage' = 1..last
          /\ \A n \in 1..Len(Lineage) : Lineage'[n] = Lineage[n]
          /\ Lineage'[last].source = source
      BY <3>1, ExtendFacts
    <3>3. \A n \in DOMAIN Lineage : Lineage[n].source # source
      BY <3>1 DEF History!Extend
    <3>4. ASSUME NEW m \in DOMAIN Lineage', NEW n \in DOMAIN Lineage',
                 Lineage'[m].source = Lineage'[n].source
          PROVE  m = n
      <4>1. \A i \in DOMAIN Lineage' : i # last => i \in DOMAIN Lineage
        BY <3>2
      <4>2. \A i \in DOMAIN Lineage : Lineage'[i] = Lineage[i]
        BY <3>2
      <4> QED
        BY <3>2, <3>3, <3>4, <4>1, <4>2 DEF History!OncePerSource
    <3> QED
      BY <3>4 DEF History!OncePerSource
  <2> QED
    BY <2>1, <2>2
<1> QED
  BY <1>1, <1>2, LineageIsTyped, HistoryImplemented, PTL DEF ImplementsHistory, History!Spec

-----------------------------------------------------------------------------
(***************************************************************************)
(* The artifact of a version.  Whoever undoes a promotion holds the commit *)
(* lock and has seen that its workflow has no version; what the job marks  *)
(* was temporary when it read the row, and so is no final object, unless a *)
(* compensation has scheduled one.                                         *)
(***************************************************************************)
Finals == {Final(f, k, c) : f \in Workflows, k \in Keys, c \in Contents}

\* No final object waits for the job: every compensation could delete its blob.
NothingScheduled == \A x \in Finals : ~Disposable(x)

JobSpares ==
  /\ ~Maintained => job = IdleJob
  /\ job.pc \in {"expire", "mark"} => job.todo \cap Finals = {}
  /\ job.pc = "mark" => job.cur \notin Finals

ArtifactInv ==
  /\ ArtifactHasBlob
  /\ \A w \in Workers : worker[w].pc = "save_version" => MyFinal(w) \in blobs
  /\ \A w \in Workers : worker[w].pc = "compensate" => VersionOf(worker[w].f) = {}
  /\ JobSpares

LEMMA OtherObjects ==
  /\ \A u : Original(u) \notin Finals
  /\ \A u, m : Candidate(u, m) \notin Finals
  /\ \A n : Spare(n) \notin Finals
  BY DEF Original, Candidate, Spare, Finals, Final

LEMMA FinalsThere ==
  ASSUME IInv
  PROVE  /\ \A n \in DOMAIN versions : FinalOf(n) \in Finals
         /\ \A w \in Workers : worker[w].pc \in CommitSteps => MyFinal(w) \in Finals
         /\ Finals \subseteq Objects
<1>1. ASSUME NEW n \in DOMAIN versions PROVE FinalOf(n) \in Finals
  <2>1. versions[n] \in Versions
    BY DEF IInv, TablesTyped
  <2> QED BY <2>1 DEF FinalOf, Finals, Versions
<1>2. ASSUME NEW w \in Workers, worker[w].pc \in CommitSteps PROVE MyFinal(w) \in Finals
  <2>1. worker[w].f \in Workflows /\ worker[w].k \in Keys /\ worker[w].content \in Contents
    BY <1>2 DEF IInv, WorkerOK, Knows, CommitSteps, WorkersTyped, LocalState
  <2> QED BY <2>1 DEF MyFinal, Finals
<1> QED BY <1>1, <1>2 DEF Finals, Objects

LEMMA OneCommits ==
  ASSUME IInv, NEW v \in Workers, NEW w \in Workers,
         worker[v].pc \in CommitSteps, worker[w].pc \in CommitSteps
  PROVE  v = w
  BY DEF IInv, WorkerOK, Knows

\* Who moves, and how it comes to the two steps.
LEMMA OtherWorker ==
  ASSUME NEW w \in Workers, NEW v \in Workers, v # w, WorkersTyped,
         \/ Leave(v) \/ \E p : Go(v, p)
         \/ \E r : worker' = [worker EXCEPT ![v] = r]
  PROVE  worker'[w] = worker[w]
  BY DEF Leave, Go, WorkersTyped

\* The steps of a request that leave the final objects alone.
Quiet(w) ==
  \/ \E f \in Workflows, k \in Keys :
       \/ \E file \in Files : StartUpload(w, f, k, file)
       \/ StartStandardize(w, <<f, k>>)
       \/ OpenCommit(w, f, k)
  \/ \E o \in Outcomes :
       \/ SaveUpload(w, o) \/ CheckUpload(w, o) \/ SaveCandidate(w, o)
       \/ CheckCandidate(w, o) \/ CheckCommit(w, o)
       \/ DeleteCandidate(w, o) \/ DeleteOriginal(w, o)
  \/ \E o \in DropOutcomes : DropStaged(w, o)
  \/ Assemble(w) \/ RefuseCommit(w) \/ MarkCandidate(w) \/ MarkOriginal(w) \/ Crash(w)

LEMMA RequestCases ==
  ASSUME NEW w \in Workers, Request(w)
  PROVE  \/ Quiet(w)
         \/ \E o \in Outcomes : Promote(w, o) \/ SaveVersion(w, o)
         \/ \E o \in DropOutcomes : Compensate(w, o)
  BY DEF Request, Quiet

Spared ==
  /\ \A x \in Finals : x \in blobs => x \in blobs'
  /\ \A x \in Finals : row'[x] = row[x]

LEMMA QuietSpares ==
  ASSUME IInv, NEW w \in Workers, Quiet(w)
  PROVE  Spared
<1> USE DEF Spared
<1>1. row \in [Objects -> RowStates] /\ Finals \subseteq Objects
  BY FinalsThere DEF IInv, StorageTyped
<1>2. CASE \E f \in Workflows, k \in Keys :
             \/ \E file \in Files : StartUpload(w, f, k, file)
             \/ StartStandardize(w, <<f, k>>)
             \/ OpenCommit(w, f, k)
  BY <1>2 DEF StartUpload, StartStandardize, OpenCommit, storage
<1>3. ASSUME NEW o, SaveUpload(w, o) \/ CheckUpload(w, o) \/ CheckCandidate(w, o)
      PROVE  Spared
  BY <1>1, <1>3, OtherObjects DEF SaveUpload, CheckUpload, CheckCandidate
<1>4. ASSUME NEW o, SaveCandidate(w, o) PROVE Spared
  BY <1>1, <1>4, OtherObjects DEF SaveCandidate, MyCandidate
<1>5. ASSUME NEW o, CheckCommit(w, o) \/ DeleteOriginal(w, o) \/ DropStaged(w, o)
      PROVE  Spared
  BY <1>1, <1>5, OtherObjects DEF CheckCommit, DeleteOriginal, DropStaged
<1>6. ASSUME NEW o, DeleteCandidate(w, o) PROVE Spared
  BY <1>1, <1>6, OtherObjects DEF DeleteCandidate, CandidateOf
<1>7. CASE Assemble(w) \/ RefuseCommit(w) \/ Crash(w)
  BY <1>7 DEF Assemble, RefuseCommit, Crash, storage
<1>8. CASE MarkCandidate(w)
  <2>1. CandidateOf(worker[w].cur) \notin Finals
    BY OtherObjects DEF CandidateOf
  <2> QED BY <1>1, <1>8, <2>1 DEF MarkCandidate
<1>9. CASE MarkOriginal(w)
  <2>1. Original(worker[w].cur) \notin Finals
    BY OtherObjects
  <2> QED BY <1>1, <1>9, <2>1 DEF MarkOriginal
<1> QED BY <1>2, <1>3, <1>4, <1>5, <1>6, <1>7, <1>8, <1>9 DEF Quiet

LEMMA QuietMoves ==
  ASSUME IInv, NEW w \in Workers, Quiet(w)
  PROVE  /\ \A v \in Workers \ {w} : worker'[v] = worker[v]
         /\ UNCHANGED <<versions, job>>
         /\ worker'[w].pc # "save_version"
         /\ worker'[w].pc = "compensate" => VersionOf(worker'[w].f) = {}
<1>0. worker \in [Workers -> LocalState] /\ worker[w] \in LocalState
  BY DEF IInv, WorkersTyped
<1>1. ASSUME NEW r, worker' = [worker EXCEPT ![w] = r],
             r.pc \notin {"save_version", "compensate"}
      PROVE  /\ \A v \in Workers \ {w} : worker'[v] = worker[v]
             /\ worker'[w].pc \notin {"save_version", "compensate"}
  BY <1>0, <1>1
<1>2. IdleWorker.pc = "idle"
  BY DEF IdleWorker
<1>3. ASSUME Leave(w)
      PROVE  /\ \A v \in Workers \ {w} : worker'[v] = worker[v]
             /\ worker'[w].pc \notin {"save_version", "compensate"}
  BY <1>0, <1>2, <1>3 DEF Leave
<1>4. ASSUME NEW p, Go(w, p), p \notin {"save_version", "compensate"}
      PROVE  /\ \A v \in Workers \ {w} : worker'[v] = worker[v]
             /\ worker'[w].pc \notin {"save_version", "compensate"}
  <2>1. worker' = [worker EXCEPT ![w] = [worker[w] EXCEPT !.pc = p]]
    BY <1>4 DEF Go
  <2>2. [worker[w] EXCEPT !.pc = p].pc = p
    BY <1>0 DEF LocalState
  <2> QED BY <1>1, <1>4, <2>1, <2>2
<1>5. CASE \E f \in Workflows, k \in Keys :
             \/ \E file \in Files : StartUpload(w, f, k, file)
             \/ StartStandardize(w, <<f, k>>)
             \/ OpenCommit(w, f, k)
  <2>1. PICK p, r : /\ worker' = [worker EXCEPT ![w] = r] /\ r.pc = p
                    /\ p \in {"upload", "standardize", "assemble"}
    <3>1. \A r : [IdleWorker EXCEPT !.pc = r].pc = r
      BY DEF IdleWorker
    <3>2. CASE \E f \in Workflows, k \in Keys, file \in Files : StartUpload(w, f, k, file)
      BY <3>2 DEF StartUpload, IdleWorker
    <3>3. CASE \E f \in Workflows, k \in Keys : StartStandardize(w, <<f, k>>)
      BY <3>3 DEF StartStandardize, IdleWorker
    <3>4. CASE \E f \in Workflows, k \in Keys : OpenCommit(w, f, k)
      BY <3>4 DEF OpenCommit, IdleWorker
    <3> QED BY <1>5, <3>2, <3>3, <3>4
  <2>2. UNCHANGED <<versions, job>>
    BY <1>5 DEF StartUpload, StartStandardize, OpenCommit, tables
  <2> QED BY <1>1, <2>1, <2>2
<1>6. ASSUME NEW o, SaveUpload(w, o) \/ SaveCandidate(w, o)
      PROVE  /\ \A v \in Workers \ {w} : worker'[v] = worker[v]
             /\ worker'[w].pc \notin {"save_version", "compensate"}
             /\ UNCHANGED <<versions, job>>
  <2>1. UNCHANGED <<versions, job>>
    BY <1>6 DEF SaveUpload, SaveCandidate
  <2>2. CASE Leave(w)
    BY <1>3, <2>1, <2>2
  <2>3. CASE ~Leave(w)
    <3>1. PICK p, h : /\ p \in {"check_upload", "check_candidate"}
                      /\ worker' = [worker EXCEPT ![w].pc = p, ![w].holds = h]
      BY <1>6, <2>3 DEF SaveUpload, SaveCandidate
    <3>2. worker' = [worker EXCEPT ![w] = [worker[w] EXCEPT !.pc = p, !.holds = h]]
      BY <3>1
    <3>3. [worker[w] EXCEPT !.pc = p, !.holds = h].pc = p
      BY <1>0 DEF LocalState
    <3> QED BY <1>1, <2>1, <3>1, <3>2, <3>3
  <2> QED BY <2>2, <2>3
<1>7. ASSUME NEW o, CheckUpload(w, o) \/ CheckCandidate(w, o)
      PROVE  /\ \A v \in Workers \ {w} : worker'[v] = worker[v]
             /\ worker'[w].pc \notin {"save_version", "compensate"}
             /\ UNCHANGED <<versions, job>>
  BY <1>3, <1>4, <1>7 DEF CheckUpload, CheckCandidate, tables
<1>8. ASSUME NEW o, CheckCommit(w, o)
      PROVE  /\ \A v \in Workers \ {w} : worker'[v] = worker[v]
             /\ worker'[w].pc # "save_version"
             /\ worker'[w].pc = "compensate" => VersionOf(worker'[w].f) = {}
             /\ UNCHANGED <<versions, job>>
  <2>1. UNCHANGED <<versions, job>>
    BY <1>8 DEF CheckCommit, tables
  <2>2. CASE Leave(w)
    BY <1>3, <2>1, <2>2
  <2>3. CASE ~Leave(w)
    <3>1. /\ OwnVersion(w) \/ VersionOf(worker[w].f) = {}
          /\ Go(w, AfterFailedCommit(w))
      BY <1>8, <2>3 DEF CheckCommit
    <3>2. CASE OwnVersion(w)
      BY <1>4, <2>1, <3>1, <3>2 DEF AfterFailedCommit
    <3>3. CASE ~OwnVersion(w)
      <4>1. VersionOf(worker[w].f) = {} /\ Go(w, "compensate")
        BY <3>1, <3>3 DEF AfterFailedCommit
      <4>2. /\ \A v \in Workers \ {w} : worker'[v] = worker[v]
            /\ worker'[w] = [worker[w] EXCEPT !.pc = "compensate"]
        BY <1>0, <4>1 DEF Go
      <4>3. worker'[w].pc = "compensate" /\ worker'[w].f = worker[w].f
        BY <1>0, <4>2 DEF LocalState
      <4> QED BY <2>1, <4>1, <4>2, <4>3
    <3> QED BY <3>2, <3>3
  <2> QED BY <2>2, <2>3
<1>9. ASSUME NEW o, DeleteCandidate(w, o) \/ DeleteOriginal(w, o)
      PROVE  /\ \A v \in Workers \ {w} : worker'[v] = worker[v]
             /\ worker'[w].pc \notin {"save_version", "compensate"}
             /\ UNCHANGED <<versions, job>>
  <2>1. UNCHANGED <<versions, job>>
    BY <1>9 DEF DeleteCandidate, DeleteOriginal, tables
  <2>2. PICK p, r : /\ worker' = [worker EXCEPT ![w] = r] /\ r.pc = p
                    /\ p \in {"mark_candidate", "mark_original"}
    <3>1. CASE DeleteCandidate(w, o)
      <4>1. PICK u \in worker[w].todo :
              worker' = [worker EXCEPT ![w].pc = "mark_candidate", ![w].ok = o = "ok",
                                       ![w].cur = u, ![w].todo = @ \ {u}]
        BY <3>1 DEF DeleteCandidate
      <4> DEFINE r == [worker[w] EXCEPT !.pc = "mark_candidate", !.ok = o = "ok",
                                       !.cur = u, !.todo = @ \ {u}]
      <4>2. worker' = [worker EXCEPT ![w] = r]
        BY <4>1
      <4>3. r.pc = "mark_candidate"
        BY <1>0 DEF LocalState
      <4> QED BY <4>2, <4>3
    <3>2. CASE DeleteOriginal(w, o)
      <4> DEFINE r == [worker[w] EXCEPT !.pc = "mark_original", !.ok = o = "ok"]
      <4>1. worker' = [worker EXCEPT ![w] = r]
        BY <3>2 DEF DeleteOriginal
      <4>2. r.pc = "mark_original"
        BY <1>0 DEF LocalState
      <4> QED BY <4>1, <4>2
    <3> QED BY <1>9, <3>1, <3>2
  <2> QED BY <1>1, <2>1, <2>2
<1>10. ASSUME NEW o, DropStaged(w, o)
       PROVE  /\ \A v \in Workers \ {w} : worker'[v] = worker[v]
              /\ worker'[w].pc \notin {"save_version", "compensate"}
              /\ UNCHANGED <<versions, job>>
  <2>1. UNCHANGED <<versions, job>>
    BY <1>10 DEF DropStaged, tables
  <2>2. CASE Leave(w)
    BY <1>3, <2>1, <2>2
  <2>3. CASE ~Leave(w)
    <3> DEFINE r == [worker[w] EXCEPT !.pc = "delete_candidate", !.holds = FALSE]
    <3>1. worker' = [worker EXCEPT ![w] = r]
      BY <1>10, <2>3 DEF DropStaged
    <3>2. r.pc = "delete_candidate"
      BY <1>0 DEF LocalState
    <3> QED BY <1>1, <2>1, <3>1, <3>2
  <2> QED BY <2>2, <2>3
<1>11. CASE Assemble(w)
  <2> DEFINE r == [worker[w] EXCEPT !.pc = "promote", !.content = Assembled(worker[w].f),
                                   !.todo = UploadsOf(worker[w].f), !.holds = TRUE]
  <2>1. worker' = [worker EXCEPT ![w] = r] /\ UNCHANGED <<versions, job>>
    BY <1>11 DEF Assemble, tables
  <2>2. r.pc = "promote"
    BY <1>0 DEF LocalState
  <2> QED BY <1>1, <2>1, <2>2
<1>12. CASE RefuseCommit(w) \/ Crash(w)
  BY <1>3, <1>12 DEF RefuseCommit, Crash, tables
<1>13. CASE MarkCandidate(w) \/ MarkOriginal(w)
  BY <1>3, <1>4, <1>13 DEF MarkCandidate, MarkOriginal, tables
<1> QED BY <1>5, <1>6, <1>7, <1>8, <1>9, <1>10, <1>11, <1>12, <1>13 DEF Quiet

\* A step that leaves the final objects and the versions alone.
LEMMA ArtifactStays ==
  ASSUME IInv, ArtifactInv, Spared, UNCHANGED versions, JobSpares',
         \A v \in Workers :
           \/ worker'[v] = worker[v]
           \/ /\ worker'[v].pc = "save_version" => MyFinal(v)' \in blobs'
              /\ worker'[v].pc = "compensate" => VersionOf(worker'[v].f) = {}
  PROVE  ArtifactInv'
<1>1. \A v : VersionOf(worker[v].f)' = VersionOf(worker'[v].f)
  BY DEF VersionOf
<1>2. \A n \in DOMAIN versions : FinalOf(n)' = FinalOf(n)
  BY DEF FinalOf
<1>3. ArtifactHasBlob'
  BY <1>2, FinalsThere DEF ArtifactInv, ArtifactHasBlob, Spared
<1>4. ASSUME NEW v \in Workers
      PROVE  /\ worker'[v].pc = "save_version" => MyFinal(v)' \in blobs'
             /\ worker'[v].pc = "compensate" => (VersionOf(worker[v].f) = {})'
  <2>1. CASE worker'[v] # worker[v]
    BY <1>1, <2>1
  <2>2. CASE worker'[v] = worker[v]
    <3>1. worker'[v] = worker[v]
      BY <2>2
    <3>2. MyFinal(v)' = MyFinal(v)
      BY <3>1 DEF MyFinal
    <3>3. worker[v].pc = "save_version" => MyFinal(v) \in blobs /\ MyFinal(v) \in Finals
      BY FinalsThere DEF ArtifactInv, CommitSteps
    <3>4. worker[v].pc = "compensate" => VersionOf(worker[v].f) = {}
      BY DEF ArtifactInv
    <3> QED BY <1>1, <3>1, <3>2, <3>3, <3>4 DEF Spared
  <2> QED BY <2>1, <2>2
<1> QED BY <1>3, <1>4 DEF ArtifactInv

LEMMA QuietKeeps ==
  ASSUME IInv, ArtifactInv, NEW w \in Workers, Quiet(w)
  PROVE  ArtifactInv'
<1>1. JobSpares'
  BY QuietMoves DEF ArtifactInv, JobSpares
<1>2. /\ worker'[w].pc # "save_version"
      /\ worker'[w].pc = "compensate" => VersionOf(worker'[w].f) = {}
      /\ \A v \in Workers \ {w} : worker'[v] = worker[v]
      /\ UNCHANGED versions
  BY QuietMoves
<1>3. Spared
  BY QuietSpares
<1> QED BY <1>1, <1>2, <1>3, ArtifactStays

\* promote.
LEMMA PromoteStays ==
  ASSUME IInv, ArtifactInv, NEW w \in Workers, NEW o, Promote(w, o)
  PROVE  ArtifactInv'
<1>1. UNCHANGED <<versions, job, row>>
  BY DEF Promote, tables
<1>2. JobSpares'
  BY <1>1 DEF ArtifactInv, JobSpares
<1>3. Spared
  BY <1>1 DEF Promote, Spared
<1>4. worker \in [Workers -> LocalState] /\ worker[w] \in LocalState
  BY DEF IInv, WorkersTyped
<1>5. PICK p, c : /\ p = IF o = "ok" THEN "save_version" ELSE "check_commit"
                  /\ worker' = [worker EXCEPT ![w].pc = p, ![w].created = c]
  BY DEF Promote
<1>6. worker'[w] = [worker[w] EXCEPT !.pc = p, !.created = c]
      /\ \A v \in Workers \ {w} : worker'[v] = worker[v]
  BY <1>4, <1>5
<1>7. worker'[w].pc = p /\ MyFinal(w)' = MyFinal(w)
  BY <1>4, <1>6 DEF LocalState, MyFinal
<1>8. worker'[w].pc = "save_version" => MyFinal(w)' \in blobs'
  BY <1>5, <1>7 DEF Promote, Done
<1>9. worker'[w].pc # "compensate"
  BY <1>5, <1>7
<1> QED BY <1>1, <1>2, <1>3, <1>6, <1>8, <1>9, ArtifactStays

\* _compensate_merged: its workflow has no version.
LEMMA CompensateStays ==
  ASSUME IInv, ArtifactInv, NEW w \in Workers, NEW o, Compensate(w, o)
  PROVE  ArtifactInv'
<1>1. worker[w].pc = "compensate" /\ UNCHANGED <<versions, job>> /\ Go(w, "drop")
  BY DEF Compensate, tables
<1>2. VersionOf(worker[w].f) = {}
  BY <1>1 DEF ArtifactInv
<1>3. worker \in [Workers -> LocalState] /\ worker[w] \in LocalState
  BY DEF IInv, WorkersTyped
<1>4. worker'[w] = [worker[w] EXCEPT !.pc = "drop"] /\ \A v \in Workers \ {w} : worker'[v] = worker[v]
  BY <1>1, <1>3 DEF Go
<1>5. worker'[w].pc = "drop"
  BY <1>3, <1>4 DEF LocalState
<1>6. \A f : VersionOf(f)' = VersionOf(f)
  BY <1>1 DEF VersionOf
<1>7. ASSUME NEW n \in DOMAIN versions
      PROVE  FinalOf(n) # MyFinal(w) /\ FinalOf(n)' = FinalOf(n)
  <2>1. versions[n].f # worker[w].f
    BY <1>2 DEF VersionOf
  <2> QED BY <1>1, <2>1 DEF FinalOf, MyFinal, Final
<1>8. \A x \in Objects : x # MyFinal(w) =>
        row'[x] = row[x] /\ (x \in blobs => x \in blobs')
  BY DEF Compensate, IInv, StorageTyped
<1>9. ArtifactHasBlob'
  <2> SUFFICES ASSUME NEW n \in DOMAIN versions
               PROVE  /\ FinalOf(n) \in blobs'
                      /\ \/ row'[FinalOf(n)] = "available"
                         \/ Maintained /\ row'[FinalOf(n)] = "quarantined"
    BY <1>1, <1>7 DEF ArtifactHasBlob
  <2>1. FinalOf(n) \in Objects
    BY FinalsThere
  <2> QED BY <1>7, <1>8, <2>1 DEF ArtifactInv, ArtifactHasBlob
<1>10. ASSUME NEW v \in Workers
       PROVE  /\ worker'[v].pc = "save_version" => MyFinal(v)' \in blobs'
              /\ worker'[v].pc = "compensate" => (VersionOf(worker[v].f) = {})'
  <2>1. CASE v = w
    BY <1>5, <2>1
  <2>2. CASE v # w
    <3>1. worker'[v] = worker[v]
      BY <1>4, <2>2
    <3>2. worker[v].pc \notin {"save_version", "compensate"}
      BY <1>1, <2>2, OneCommits DEF CommitSteps
    <3> QED BY <3>1, <3>2
  <2> QED BY <2>1, <2>2
<1>11. JobSpares'
  BY <1>1 DEF ArtifactInv, JobSpares
<1> QED BY <1>9, <1>10, <1>11 DEF ArtifactInv

\* _commit_database: the version is written next to the promoted blob.
LEMMA SaveVersionStays ==
  ASSUME IInv, ArtifactInv, NEW w \in Workers, NEW o, SaveVersion(w, o)
  PROVE  ArtifactInv'
<1>1. worker[w].pc = "save_version" /\ UNCHANGED <<blobs, job>>
  BY DEF SaveVersion
<1>2. PICK p : Go(w, p) /\ p \in {"drop_committed", "check_commit"}
  BY DEF SaveVersion
<1>3. worker \in [Workers -> LocalState] /\ worker[w] \in LocalState
  BY DEF IInv, WorkersTyped
<1>4. worker'[w] = [worker[w] EXCEPT !.pc = p] /\ \A v \in Workers \ {w} : worker'[v] = worker[v]
  BY <1>2, <1>3 DEF Go
<1>5. worker'[w].pc \notin {"save_version", "compensate"}
  BY <1>2, <1>3, <1>4 DEF LocalState
<1>6. ASSUME NEW v \in Workers
      PROVE  worker'[v].pc \notin {"save_version", "compensate"}
  <2>1. CASE v = w
    BY <1>5, <2>1
  <2>2. CASE v # w
    <3>1. worker'[v] = worker[v]
      BY <1>4, <2>2
    <3>2. worker[v].pc \notin {"save_version", "compensate"}
      BY <1>1, <2>2, OneCommits DEF CommitSteps
    <3> QED BY <3>1, <3>2
  <2> QED BY <2>1, <2>2
<1>7. JobSpares'
  BY <1>1 DEF ArtifactInv, JobSpares
<1>8. row \in [Objects -> RowStates] /\ MyFinal(w) \in Objects /\ MyFinal(w) \in blobs
  BY <1>1, FinalsThere DEF ArtifactInv, CommitSteps, IInv, StorageTyped
<1>9. CASE VersionInsertable(w) /\ Done(o)
  <2>1. /\ versions' = Append(versions, NewVersion(w))
        /\ row' = [row EXCEPT ![MyFinal(w)] = "available"]
    BY <1>9 DEF SaveVersion, NewVersion
  <2>2. versions \in Seq(Versions) /\ Len(versions) \in Nat
    BY DEF IInv, TablesTyped
  <2>3. /\ versions'[Len(versions) + 1] = NewVersion(w)
        /\ \A n \in DOMAIN versions : versions'[n] = versions[n]
        /\ \A n \in DOMAIN versions' : n \in DOMAIN versions \/ n = Len(versions) + 1
    BY <2>1, <2>2
  <2>4. \A x \in Objects : row'[x] = IF x = MyFinal(w) THEN "available" ELSE row[x]
    BY <1>8, <2>1
  <2>5. ASSUME NEW n \in DOMAIN versions'
        PROVE  /\ FinalOf(n)' \in blobs'
               /\ \/ row'[FinalOf(n)'] = "available"
                  \/ Maintained /\ row'[FinalOf(n)'] = "quarantined"
    <3>1. CASE n = Len(versions) + 1
      <4>1. FinalOf(n)' = MyFinal(w)
        BY <2>3, <3>1 DEF FinalOf, MyFinal, NewVersion
      <4> QED BY <1>1, <1>8, <2>4, <4>1
    <3>2. CASE n \in DOMAIN versions
      <4>1. FinalOf(n)' = FinalOf(n)
        BY <2>3, <3>2 DEF FinalOf
      <4>2. FinalOf(n) \in Objects
        BY <3>2, FinalsThere
      <4> QED BY <1>1, <2>4, <3>2, <4>1, <4>2 DEF ArtifactInv, ArtifactHasBlob
    <3> QED BY <2>3, <3>1, <3>2
  <2>6. ArtifactHasBlob'
    BY <2>5 DEF ArtifactHasBlob
  <2> QED BY <1>6, <1>7, <2>6 DEF ArtifactInv
<1>10. CASE ~(VersionInsertable(w) /\ Done(o))
  <2>1. UNCHANGED <<versions, row>>
    BY <1>10 DEF SaveVersion
  <2>2. ArtifactHasBlob'
    BY <1>1, <2>1 DEF ArtifactInv, ArtifactHasBlob, FinalOf
  <2> QED BY <1>6, <1>7, <2>2 DEF ArtifactInv
<1> QED BY <1>9, <1>10

\* The job: what it lists as temporary is no final object.
LEMMA JobStays ==
  ASSUME IInv, ArtifactInv, Maintained => NothingScheduled, Maintenance \/ CrashJob
  PROVE  ArtifactInv'
<1>1. UNCHANGED <<versions, worker>>
  BY DEF Maintenance, StartJob, DeleteExpired, MarkExpired, ListBlobs,
         CompareRows, QuarantineMissing, CrashJob, tables
<1>2. CASE ~Maintained
  <2>1. job.pc = "idle"
    BY <1>2 DEF ArtifactInv, JobSpares, IdleJob
  <2> QED
    BY <1>2, <2>1 DEF Maintenance, StartJob, DeleteExpired, MarkExpired, ListBlobs,
                      CompareRows, QuarantineMissing, CrashJob
<1>3. CASE Maintained
  <2>1. IdleJob.pc = "idle" /\ IdleJob.todo = {}
    BY DEF IdleJob
  <2>2. job \in JobState /\ row \in [Objects -> RowStates] /\ Finals \subseteq Objects
    BY FinalsThere DEF IInv, JobTyped, StorageTyped
  <2>3. ASSUME Spared, JobSpares' PROVE ArtifactInv'
    <3>1. \A v \in Workers : worker'[v] = worker[v]
      BY <1>1
    <3> QED BY <1>1, <2>3, <3>1, ArtifactStays
  <2>4. CASE StartJob
    <3>1. {x \in expired : Listed(x)} \cap Finals = {}
      BY <1>3 DEF NothingScheduled, Listed
    <3>2. job'.todo = {x \in expired : Listed(x)} /\ job'.pc = "expire"
      BY <2>2, <2>4 DEF StartJob, JobState
    <3> QED BY <1>3, <2>3, <2>4, <3>1, <3>2 DEF StartJob, JobSpares, Spared, storage
  <2>5. ASSUME NEW o, DeleteExpired(o) PROVE ArtifactInv'
    <3>1. PICK x \in job.todo :
            /\ blobs' = IF Done(o) THEN blobs \ {x} ELSE blobs
            /\ job' = [job EXCEPT !.pc = "mark", !.cur = x, !.ok = o = "ok", !.todo = @ \ {x}]
      BY <2>5 DEF DeleteExpired
    <3>2. job.todo \cap Finals = {}
      BY <2>5 DEF DeleteExpired, ArtifactInv, JobSpares
    <3>3. job'.pc = "mark" /\ job'.cur = x /\ job'.todo = job.todo \ {x}
      BY <2>2, <3>1 DEF JobState
    <3> QED BY <1>3, <2>3, <2>5, <3>1, <3>2, <3>3 DEF DeleteExpired, JobSpares, Spared
  <2>6. CASE MarkExpired
    <3>1. job.cur \notin Finals /\ job.todo \cap Finals = {}
      BY <2>6 DEF MarkExpired, ArtifactInv, JobSpares
    <3>2. Spared
      BY <2>2, <2>6, <3>1 DEF MarkExpired, Spared
    <3>3. job'.todo \cap Finals = {} /\ job'.pc # "mark"
      <4>1. [IdleJob EXCEPT !.pc = "expire", !.todo = job.todo].todo = job.todo
            /\ [IdleJob EXCEPT !.pc = "expire", !.todo = job.todo].pc = "expire"
        BY DEF IdleJob
      <4>2. \/ job' = [IdleJob EXCEPT !.pc = "expire", !.todo = job.todo]
            \/ job' = IdleJob
        BY <2>6 DEF MarkExpired
      <4> QED BY <2>1, <3>1, <4>1, <4>2
    <3> QED BY <1>3, <2>3, <3>2, <3>3 DEF JobSpares
  <2>7. CASE ListBlobs \/ CompareRows
    <3>1. job'.pc \in {"compare", "quarantine"}
      BY <2>2, <2>7 DEF ListBlobs, CompareRows, JobState, IdleJob
    <3> QED BY <1>3, <2>3, <2>7, <3>1 DEF ListBlobs, CompareRows, JobSpares, Spared, storage
  <2>8. CASE QuarantineMissing
    <3>1. job' = IdleJob /\ UNCHANGED blobs
      BY <2>8 DEF QuarantineMissing
    <3>2. \A x \in Objects : row'[x] = row[x] \/ row'[x] = "quarantined"
      BY <2>2, <2>8 DEF QuarantineMissing
    <3>3. ArtifactHasBlob'
      <4> SUFFICES ASSUME NEW n \in DOMAIN versions
                   PROVE  /\ FinalOf(n) \in blobs'
                          /\ \/ row'[FinalOf(n)] = "available"
                             \/ Maintained /\ row'[FinalOf(n)] = "quarantined"
        BY <1>1 DEF ArtifactHasBlob, FinalOf
      <4>1. FinalOf(n) \in Objects
        BY FinalsThere
      <4> QED BY <1>3, <3>1, <3>2, <4>1 DEF ArtifactInv, ArtifactHasBlob
    <3> QED BY <1>1, <1>3, <2>1, <3>1, <3>3 DEF ArtifactInv, JobSpares, MyFinal, VersionOf
  <2>9. CASE CrashJob
    BY <1>3, <2>1, <2>3, <2>9 DEF CrashJob, JobSpares, Spared, storage
  <2> QED BY <2>4, <2>5, <2>6, <2>7, <2>8, <2>9 DEF Maintenance
<1> QED BY <1>2, <1>3

LEMMA ArtifactStep ==
  ASSUME IInv, ArtifactInv, Maintained => NothingScheduled, [Next]_vars
  PROVE  ArtifactInv'
<1>1. CASE \/ UNCHANGED vars \/ \E f \in Workflows : CreateWorkflow(f)
           \/ \E u \in UploadIds : Recognize(u) \/ ConfirmMapping(u)
           \/ \E x \in Objects : Expire(x)
  <2>1. UNCHANGED <<versions, row, blobs, worker, job>>
    BY <1>1 DEF vars, tables, storage, CreateWorkflow, Recognize, ConfirmMapping, Expire
  <2> QED BY <2>1 DEF ArtifactInv, ArtifactHasBlob, FinalOf, JobSpares, MyFinal, VersionOf
<1>2. ASSUME NEW w \in Workers, Request(w) PROVE ArtifactInv'
  BY <1>2, RequestCases, QuietKeeps, PromoteStays, SaveVersionStays, CompensateStays
<1> QED BY <1>1, <1>2, JobStays DEF Next

LEMMA ArtifactInit == Init => ArtifactInv
<1> SUFFICES ASSUME Init PROVE ArtifactInv
  OBVIOUS
<1>1. \A w \in Workers : worker[w].pc = "idle"
  BY DEF Init, IdleWorker
<1>2. DOMAIN versions = {}
  BY DEF Init
<1>3. job = IdleJob /\ IdleJob.pc = "idle"
  BY DEF Init, IdleJob
<1> QED BY <1>1, <1>2, <1>3 DEF ArtifactInv, ArtifactHasBlob, JobSpares

\* _commit_serialized, _commit_database and _compensate_merged next to
\* maintain_storage.py: whatever fails, is lost or repeated, the artifact of a version
\* has its blob and its row, which the job may only quarantine; with the job, as long
\* as no compensation had to leave its blob to it.
THEOREM ArtifactsKeepTheirBlobs ==
  Spec /\ [](Maintained => NothingScheduled) => []ArtifactHasBlob
<1>1. IInv /\ ArtifactInv /\ (Maintained => NothingScheduled) /\ [Next]_vars => ArtifactInv'
  BY ArtifactStep
<1>2. ArtifactInv => ArtifactHasBlob
  BY DEF ArtifactInv
<1> QED BY <1>1, <1>2, ArtifactInit, Invariant, PTL DEF Spec
=============================================================================
