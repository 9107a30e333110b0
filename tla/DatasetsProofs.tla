-------------------------- MODULE DatasetsProofs --------------------------
(***************************************************************************)
(* Theorems about what is made of a version, for any number of threads,    *)
(* attempts, requests, faults, products and drivers: the evidence of a     *)
(* completed analysis can be read as long as the locks hold, and its row   *)
(* is kept even when they do not; the public releases follow their         *)
(* requests, and can be served; the drivers of a profit bridge explain the *)
(* whole change; the stock is used up and costed oldest first.             *)
(*                                                                         *)
(* The last two are about sums.  Induction over their elements is done     *)
(* with the set of those that have the property, of which the others would *)
(* have a least one (InductionOnSets).                                     *)
(***************************************************************************)
EXTENDS AnalysisRun, PublicRelease, ProfitBridge, FifoCost, FiniteSetTheorems,
        SequenceTheorems, WellFoundedInduction, TLAPS

Places ==
  {"idle", "insert", "check_start", "stage", "record_staged", "check_staged",
   "promote", "find_final", "create_final", "check_final", "publish",
   "read_back", "drop_final", "mark_final", "drop_staged", "mark_staged",
   "leftover", "outcome", "fail"}

Runs ==
  [status : {"absent", "running", "failed", "completed"}, leased : BOOLEAN,
   artifact : EvidenceIds \cup {NoObject}]
Records ==
  [state : {"absent", "staging", "available", "quarantined", "deleted"},
   purpose : {"temporary", "evidence"}, etag : Nat]
Locals ==
  [at : Places, n : 0..MaxAttempts, id : EvidenceIds \cup {NoObject}, etag : Nat,
   known : BOOLEAN, done : BOOLEAN, cleaned : BOOLEAN, deleted : BOOLEAN,
   locked : BOOLEAN]

\* Every variable has its type; an attempt has a number, and has a final object
\* when it comes to publish it.
AnalysisTypeOK ==
  /\ run \in Runs
  /\ object \in [ObjectIds -> Records]
  /\ stagings \subseteq Attempts
  /\ evidence \in Nat
  /\ evidenceTags \in Nat
  /\ attempts \in 0..MaxAttempts
  /\ runner \in [Runners -> Locals]
  /\ lockLost \in BOOLEAN
  /\ runFaults \in 0..MaxRunFaults
  /\ \A w \in Runners :
       /\ runner[w].at # "idle" => runner[w].n \in Attempts
       /\ runner[w].at = "publish" => runner[w].id \in EvidenceIds

\* A completed run has no lease, and its artifact is a final object, adopted as
\* evidence.
ArtifactIsEvidence ==
  run.status = "completed" =>
    ~run.leased /\ run.artifact \in EvidenceIds /\ IsEvidence(run.artifact)

-----------------------------------------------------------------------------
(***************************************************************************)
(* Types                                                                   *)
(***************************************************************************)
\* The tables after a step, without the local states.
TablesOK ==
  /\ run \in Runs
  /\ object \in [ObjectIds -> Records]
  /\ stagings \subseteq Attempts
  /\ evidence \in Nat
  /\ evidenceTags \in Nat
  /\ attempts \in 0..MaxAttempts
  /\ lockLost \in BOOLEAN
  /\ runFaults \in 0..MaxRunFaults

LocalOK(r) ==
  /\ r \in Locals
  /\ r.at # "idle" => r.n \in Attempts
  /\ r.at = "publish" => r.id \in EvidenceIds

\* A step of one thread that leaves tables and its local state typed is typed
\* (runner is changed at w only).
LEMMA ThreadStep ==
  ASSUME AnalysisTypeOK, TablesOK', NEW w \in Runners, NEW r, LocalOK(r),
         runner' = [runner EXCEPT ![w] = r]
  PROVE  AnalysisTypeOK'
<1>1. runner' \in [Runners -> Locals]
  BY DEF AnalysisTypeOK, LocalOK
<1>2. \A v \in Runners : LocalOK(runner'[v])
  BY DEF AnalysisTypeOK, LocalOK
<1> QED BY <1>1, <1>2 DEF AnalysisTypeOK, TablesOK, LocalOK

\* The empty local state is one (NoAttempt).
LEMMA NoAttemptTyped == LocalOK(NoAttempt)
<1> USE AttemptsAreNatural
<1>1. NoAttempt \in Locals
  BY DEF NoAttempt, Locals, Places
<1> QED BY <1>1 DEF NoAttempt, LocalOK

\* An attempt that goes on to another step than the publication keeps its fields
\* (Step).
LEMMA MoveTyped ==
  ASSUME NEW r, LocalOK(r), r.at # "idle", NEW at \in Places \ {"publish"}
  PROVE  LocalOK([r EXCEPT !.at = at])
<1>1. [r EXCEPT !.at = at] \in Locals
  BY DEF LocalOK, Locals
<1>2. [r EXCEPT !.at = at].n = r.n /\ [r EXCEPT !.at = at].at = at
  BY DEF LocalOK, Locals
<1> QED BY <1>1, <1>2 DEF LocalOK

\* What the steps of a thread say of its local state and of the faults.
LEMMA StepTyped ==
  ASSUME AnalysisTypeOK, TablesOK', NEW w \in Runners, runner[w].at # "idle",
         NEW at \in Places \ {"publish"}, Step(w, at)
  PROVE  AnalysisTypeOK'
<1>1. LocalOK(runner[w])
  BY DEF AnalysisTypeOK, LocalOK
<1>2. PICK r : r = [runner[w] EXCEPT !.at = at]
  OBVIOUS
<1>3. LocalOK(r)
  BY <1>1, <1>2, MoveTyped
<1>4. runner' = [runner EXCEPT ![w] = r]
  BY <1>2 DEF Step
<1> QED BY <1>3, <1>4, ThreadStep

\* A thread that leaves has the empty local state (Return).
LEMMA ReturnTyped ==
  ASSUME AnalysisTypeOK, TablesOK', NEW w \in Runners, Return(w)
  PROVE  AnalysisTypeOK'
BY NoAttemptTyped, ThreadStep DEF Return

\* Faults are counted up to their bound (RunFault).
LEMMA FaultTyped ==
  ASSUME runFaults \in 0..MaxRunFaults, NEW o, RunFault(o)
  PROVE  runFaults' \in 0..MaxRunFaults
BY AttemptsAreNatural DEF RunFault
\* Rows of the tables are typed.
LEMMA RowTyped ==
  ASSUME NEW s \in {"absent", "staging", "available", "quarantined", "deleted"},
         NEW e \in Nat
  PROVE  TemporaryRow(s, e) \in Records
BY DEF TemporaryRow, Records

\* The names of the objects of an attempt.
LEMMA NamesTyped ==
  ASSUME NEW n \in Attempts
  PROVE  StagingOf(n) \in ObjectIds /\ EvidenceOf(n) \in EvidenceIds
BY DEF ObjectIds, EvidenceIds

\* mark_deleted and mark_cleanup_pending write a typed row (MarkObject).
LEMMA MarkTyped ==
  ASSUME object \in [ObjectIds -> Records], NEW x \in ObjectIds \cup {NoObject},
         NEW d \in BOOLEAN, NEW o, MarkObject(x, d, o)
  PROVE  object' \in [ObjectIds -> Records]
<1>1. CASE x # NoObject /\ Discardable(x) /\ Landed(o)
  <2>1. x \in ObjectIds /\ object[x] \in Records
    BY <1>1
  <2>2. object[x].etag \in Nat
    BY <2>1 DEF Records
  <2>3. TemporaryRow("deleted", 0) \in Records
    BY RowTyped
  <2>4. TemporaryRow("quarantined", object[x].etag) \in Records
    BY <2>2, RowTyped
  <2>5. PICK r \in Records : object' = [object EXCEPT ![x] = r]
    BY <1>1, <2>3, <2>4 DEF MarkObject
  <2> QED BY <2>1, <2>5
<1>2. CASE ~(x # NoObject /\ Discardable(x) /\ Landed(o))
  BY <1>2 DEF MarkObject
<1> QED BY <1>1, <1>2

\* What _record_available_for_publish returned is a final object (Recorded).
LEMMA RecordedTyped ==
  ASSUME AnalysisTypeOK, TablesOK', NEW w \in Runners, runner[w].at # "idle",
         NEW x \in EvidenceIds, Recorded(w, x)
  PROVE  AnalysisTypeOK'
<1>1. LocalOK(runner[w])
  BY DEF AnalysisTypeOK, LocalOK
<1>2. PICK at \in {"drop_final", "publish"} :
         runner' = [runner EXCEPT ![w] = [runner[w] EXCEPT !.id = x, !.at = at]]
  BY DEF Recorded, Become
<1>3. PICK r : r = [runner[w] EXCEPT !.id = x, !.at = at]
  OBVIOUS
<1>4. r \in Locals
  BY <1>1, <1>3 DEF LocalOK, Locals, Places
<1>5. r.n = runner[w].n /\ r.id = x
  BY <1>1, <1>3 DEF LocalOK, Locals
<1>6. LocalOK(r)
  BY <1>1, <1>4, <1>5 DEF LocalOK
<1> QED BY <1>2, <1>3, <1>6, ThreadStep

\* A failed record leads to one of the two clean-ups (NotRecorded).
LEMMA NotRecordedTyped ==
  ASSUME AnalysisTypeOK, TablesOK', NEW w \in Runners, runner[w].at # "idle",
         NotRecorded(w)
  PROVE  AnalysisTypeOK'
<1>1. PICK at \in {"drop_final", "drop_staged"} : Step(w, at)
  BY DEF NotRecorded
<1>2. at \in Places \ {"publish"}
  BY DEF Places
<1> QED BY <1>1, <1>2, StepTyped

\* An attempt is numbered and claims the run (BeginAttempt).
LEMMA TypeBegin ==
  ASSUME AnalysisTypeOK, NEW w \in Runners, BeginAttempt(w)
  PROVE  AnalysisTypeOK'
<1> USE AttemptsAreNatural
<1>1. attempts' \in Attempts
  BY DEF AnalysisTypeOK, BeginAttempt, Attempts
<1>2. TablesOK'
  BY <1>1 DEF AnalysisTypeOK, BeginAttempt, TablesOK, Attempts
<1>3. PICK n \in Attempts : n = attempts'
  BY <1>1
<1>4. PICK r : r = [NoAttempt EXCEPT !.at = "insert", !.n = n, !.locked = TRUE]
  OBVIOUS
<1>5. r \in Locals /\ r.at = "insert" /\ r.n = n
  <2>1. NoAttempt \in Locals
    BY NoAttemptTyped DEF LocalOK
  <2>2. n \in 0..MaxAttempts /\ "insert" \in Places
    BY DEF Attempts, Places
  <2> QED BY <1>4, <2>1, <2>2 DEF Locals
<1>6. LocalOK(r)
  BY <1>5 DEF LocalOK
<1>7. runner' = [runner EXCEPT ![w] = r]
  BY <1>3, <1>4 DEF BeginAttempt, Become
<1> QED BY <1>2, <1>6, <1>7, ThreadStep

\* The claim is written, or is not (InsertRunning, CheckStart).
LEMMA TypeClaim ==
  ASSUME AnalysisTypeOK, NEW w \in Runners, NEW o,
         InsertRunning(w, o) \/ CheckStart(w, o)
  PROVE  AnalysisTypeOK'
<1>1. runner[w].at # "idle" /\ RunFault(o)
  BY DEF InsertRunning, CheckStart
<1>2. run' \in Runs
  BY DEF AnalysisTypeOK, InsertRunning, CheckStart, Runs
<1>3. TablesOK'
  BY <1>1, <1>2, FaultTyped DEF AnalysisTypeOK, TablesOK, InsertRunning, CheckStart
<1>4. Return(w) \/ Step(w, "check_start") \/ Step(w, "stage")
  BY DEF InsertRunning, CheckStart
<1>5. "check_start" \in Places \ {"publish"} /\ "stage" \in Places \ {"publish"}
  BY DEF Places
<1> QED BY <1>1, <1>3, <1>4, <1>5, ReturnTyped, StepTyped

\* A local state of which only control and flags change.
LEMMA FlagsTyped ==
  ASSUME NEW r, NEW q, LocalOK(r), r.at # "idle", q \in Locals, q.n = r.n,
         q.at # "publish"
  PROVE  LocalOK(q)
BY DEF LocalOK

\* The staged object is written and recorded (StageEvidence, RecordStaged,
\* CheckStaged).
LEMMA TypeStaged ==
  ASSUME AnalysisTypeOK, NEW w \in Runners, NEW o,
         StageEvidence(w, o) \/ RecordStaged(w, o) \/ CheckStaged(w, o)
  PROVE  AnalysisTypeOK'
<1>1. runner[w].at # "idle" /\ RunFault(o)
  BY DEF StageEvidence, RecordStaged, CheckStaged
<1>2. LocalOK(runner[w]) /\ runner[w].n \in Attempts /\ runner[w] \in Locals
  BY <1>1 DEF AnalysisTypeOK, LocalOK
<1>3. object' \in [ObjectIds -> Records]
  BY <1>2, NamesTyped, RowTyped
     DEF AnalysisTypeOK, StageEvidence, RecordStaged, CheckStaged
<1>4. stagings' \subseteq Attempts
  BY <1>2 DEF AnalysisTypeOK, StageEvidence, RecordStaged, CheckStaged
<1>5. TablesOK'
  BY <1>1, <1>3, <1>4, FaultTyped
     DEF AnalysisTypeOK, TablesOK, StageEvidence, RecordStaged, CheckStaged
<1>6. CASE StageEvidence(w, o)
  <2>1. PICK at \in Places \ {"publish"} : Step(w, at)
    BY <1>6 DEF StageEvidence, Places
  <2> QED BY <1>1, <1>5, <2>1, StepTyped
<1>7. CASE RecordStaged(w, o) \/ CheckStaged(w, o)
  <2>1. PICK at \in {"promote", "check_staged", "drop_staged"}, k \in BOOLEAN :
          runner' = [runner EXCEPT ![w] = [runner[w] EXCEPT !.at = at, !.known = k]]
    BY <1>7 DEF RecordStaged, CheckStaged, Become
  <2>2. PICK r : r = [runner[w] EXCEPT !.at = at, !.known = k]
    OBVIOUS
  <2>3. r \in Locals /\ r.n = runner[w].n /\ r.at # "publish"
    BY <1>2, <2>2 DEF Locals, Places
  <2> QED BY <1>1, <1>2, <1>5, <2>1, <2>2, <2>3, FlagsTyped, ThreadStep
<1> QED BY <1>6, <1>7

\* The promoted blob has a new etag or the one it had (PromoteEvidence).
LEMMA TypePromote ==
  ASSUME AnalysisTypeOK, NEW w \in Runners, NEW o, PromoteEvidence(w, o)
  PROVE  AnalysisTypeOK'
<1>1. runner[w].at # "idle" /\ RunFault(o)
  BY DEF PromoteEvidence
<1>2. LocalOK(runner[w]) /\ runner[w] \in Locals
  BY <1>1 DEF AnalysisTypeOK, LocalOK
<1>3. evidence' \in Nat /\ evidenceTags' \in Nat
  BY DEF AnalysisTypeOK, PromoteEvidence
<1>4. TablesOK'
  BY <1>1, <1>3, FaultTyped DEF AnalysisTypeOK, TablesOK, PromoteEvidence
<1>5. CASE o = "ok"
  <2>1. PICK e \in Nat : e = evidence'
    BY <1>3
  <2>2. PICK r : r = [runner[w] EXCEPT !.at = "find_final", !.etag = e]
    OBVIOUS
  <2>3. runner' = [runner EXCEPT ![w] = r]
    BY <1>5, <2>1, <2>2 DEF PromoteEvidence, Become
  <2>4. r \in Locals /\ r.n = runner[w].n /\ r.at # "publish"
    BY <1>2, <2>2 DEF Locals, Places
  <2> QED BY <1>1, <1>2, <1>4, <2>3, <2>4, FlagsTyped, ThreadStep
<1>6. CASE o # "ok"
  <2>1. Step(w, "drop_staged") /\ "drop_staged" \in Places \ {"publish"}
    BY <1>6 DEF PromoteEvidence, Places
  <2> QED BY <1>1, <1>4, <2>1, StepTyped
<1> QED BY <1>5, <1>6

\* The final object is found or recorded (FindFinal, CreateFinal, CheckFinal,
\* FindLeftover).
LEMMA TypeFinal ==
  ASSUME AnalysisTypeOK, NEW w \in Runners, NEW o,
         \/ FindFinal(w, o) \/ CreateFinal(w, o)
         \/ CheckFinal(w, o) \/ FindLeftover(w, o)
  PROVE  AnalysisTypeOK'
<1>1. runner[w].at # "idle" /\ RunFault(o)
  BY DEF FindFinal, CreateFinal, CheckFinal, FindLeftover
<1>2. runner[w].n \in Attempts /\ runner[w].etag \in Nat
  BY <1>1 DEF AnalysisTypeOK, Locals
<1>3. object' \in [ObjectIds -> Records]
  BY <1>2, NamesTyped, RowTyped
     DEF AnalysisTypeOK, FindFinal, CreateFinal, CheckFinal, FindLeftover
<1>4. TablesOK'
  BY <1>1, <1>3, FaultTyped
     DEF AnalysisTypeOK, TablesOK, FindFinal, CreateFinal, CheckFinal, FindLeftover
<1>5. \/ \E x \in EvidenceIds : Recorded(w, x)
      \/ NotRecorded(w)
      \/ Return(w)
      \/ \E at \in {"create_final", "check_final", "find_final"} : Step(w, at)
  BY <1>2, NamesTyped
     DEF FindFinal, CreateFinal, CheckFinal, FindLeftover, EvidenceRow
<1>6. {"create_final", "check_final", "find_final"} \subseteq Places \ {"publish"}
  BY DEF Places
<1> QED BY <1>1, <1>4, <1>5, <1>6, RecordedTyped, NotRecordedTyped, ReturnTyped, StepTyped

\* The run is completed with its final object, or not (Publish, ReadBack).
LEMMA TypePublish ==
  ASSUME AnalysisTypeOK, NEW w \in Runners, NEW o, Publish(w, o) \/ ReadBack(w, o)
  PROVE  AnalysisTypeOK'
<1>1. runner[w].at # "idle" /\ RunFault(o)
  BY DEF Publish, ReadBack
<1>2. LocalOK(runner[w]) /\ runner[w] \in Locals
  BY <1>1 DEF AnalysisTypeOK, LocalOK
<1>3. run' \in Runs /\ object' \in [ObjectIds -> Records]
  <2>1. CASE Publish(w, o)
    <3>1. runner[w].id \in EvidenceIds
      BY <2>1 DEF AnalysisTypeOK, Publish
    <3>2. PICK x \in EvidenceIds : x = runner[w].id
      BY <3>1
    <3>3. run' \in Runs
      BY <2>1, <3>2 DEF AnalysisTypeOK, Publish, Runs
    <3>4. x \in ObjectIds /\ object[x] \in Records
      BY <3>2 DEF AnalysisTypeOK, ObjectIds
    <3>5. \/ object' = object
          \/ object' = [object EXCEPT ![x].purpose = "evidence", ![x].state = "available"]
      BY <2>1, <3>2 DEF Publish
    <3>6. \/ object' = object
          \/ object' = [object EXCEPT ![x] =
                          [object[x] EXCEPT !.purpose = "evidence", !.state = "available"]]
      BY <3>4, <3>5 DEF AnalysisTypeOK
    <3>7. [object[x] EXCEPT !.purpose = "evidence", !.state = "available"] \in Records
      BY <3>4 DEF Records
    <3> QED BY <3>3, <3>4, <3>6, <3>7 DEF AnalysisTypeOK
  <2>2. CASE ReadBack(w, o)
    BY <2>2 DEF AnalysisTypeOK, ReadBack
  <2> QED BY <2>1, <2>2
<1>4. TablesOK'
  BY <1>1, <1>3, FaultTyped DEF AnalysisTypeOK, TablesOK, Publish, ReadBack
<1>5. \/ \E at \in {"read_back", "drop_staged", "drop_final"} : Step(w, at)
      \/ runner' = [runner EXCEPT ![w] =
                      [runner[w] EXCEPT !.at = "drop_staged", !.done = TRUE]]
  BY DEF Publish, ReadBack, Become
<1>6. {"read_back", "drop_staged", "drop_final"} \subseteq Places \ {"publish"}
  BY DEF Places
<1>7. PICK r : r = [runner[w] EXCEPT !.at = "drop_staged", !.done = TRUE]
  OBVIOUS
<1>8. r \in Locals /\ r.n = runner[w].n /\ r.at # "publish"
  BY <1>2, <1>7 DEF Locals, Places
<1>9. LocalOK(r)
  BY <1>1, <1>2, <1>8, FlagsTyped
<1>10. \/ \E at \in Places \ {"publish"} : Step(w, at)
       \/ runner' = [runner EXCEPT ![w] = r]
  BY <1>5, <1>6, <1>7
<1> QED BY <1>1, <1>4, <1>9, <1>10, StepTyped, ThreadStep

\* A blob is deleted, or not (DropFinal, DropStaging).
LEMMA TypeDrop ==
  ASSUME AnalysisTypeOK, NEW w \in Runners, NEW o,
         DropFinal(w, o) \/ DropStaging(w, o)
  PROVE  AnalysisTypeOK'
<1>1. runner[w].at # "idle" /\ RunFault(o)
  BY DEF DropFinal, DropStaging
<1>2. LocalOK(runner[w]) /\ runner[w] \in Locals
  BY <1>1 DEF AnalysisTypeOK, LocalOK
<1>3. evidence' \in Nat /\ stagings' \subseteq Attempts
  BY DEF AnalysisTypeOK, DropFinal, DropStaging
<1>4. TablesOK'
  BY <1>1, <1>3, FaultTyped DEF AnalysisTypeOK, TablesOK, DropFinal, DropStaging
<1>5. PICK at \in {"mark_final", "mark_staged"}, d \in BOOLEAN :
         runner' = [runner EXCEPT ![w] = [runner[w] EXCEPT !.at = at, !.deleted = d]]
  BY DEF DropFinal, DropStaging, Become
<1>6. PICK r : r = [runner[w] EXCEPT !.at = at, !.deleted = d]
  OBVIOUS
<1>7. r \in Locals /\ r.n = runner[w].n /\ r.at # "publish"
  BY <1>2, <1>6 DEF Locals, Places
<1> QED BY <1>1, <1>2, <1>4, <1>5, <1>6, <1>7, FlagsTyped, ThreadStep

\* The row of a dropped object is marked (MarkFinal, MarkStaging).
LEMMA TypeMark ==
  ASSUME AnalysisTypeOK, NEW w \in Runners, NEW o,
         MarkFinal(w, o) \/ MarkStaging(w, o)
  PROVE  AnalysisTypeOK'
<1>1. runner[w].at # "idle" /\ RunFault(o)
  BY DEF MarkFinal, MarkStaging
<1>2. LocalOK(runner[w]) /\ runner[w] \in Locals /\ runner[w].n \in Attempts
  BY <1>1 DEF AnalysisTypeOK, LocalOK
<1>3. /\ runner[w].id \in ObjectIds \cup {NoObject} /\ runner[w].deleted \in BOOLEAN
      /\ StagingOf(runner[w].n) \in ObjectIds
  BY <1>2, NamesTyped DEF Locals, ObjectIds
<1>4. object' \in [ObjectIds -> Records]
  <2>1. CASE MarkFinal(w, o)
    BY <1>3, <2>1, MarkTyped DEF AnalysisTypeOK, MarkFinal
  <2>2. CASE MarkStaging(w, o)
    <3>1. \/ object' = [object EXCEPT ![StagingOf(runner[w].n)] = TemporaryRow("quarantined", 1)]
          \/ MarkObject(StagingOf(runner[w].n), runner[w].deleted, o)
      BY <2>2 DEF MarkStaging
    <3> QED BY <1>3, <3>1, MarkTyped, RowTyped DEF AnalysisTypeOK
  <2> QED BY <2>1, <2>2
<1>5. TablesOK'
  BY <1>1, <1>4, FaultTyped DEF AnalysisTypeOK, TablesOK, MarkFinal, MarkStaging
<1>6. CASE MarkFinal(w, o)
  <2>1. \E at \in {"outcome", "drop_staged"} : Step(w, at)
    BY <1>6 DEF MarkFinal
  <2>2. {"outcome", "drop_staged"} \subseteq Places \ {"publish"}
    BY DEF Places
  <2> QED BY <1>1, <1>5, <2>1, <2>2, StepTyped
<1>7. CASE MarkStaging(w, o) /\ runner[w].done
  BY <1>5, <1>7, ReturnTyped DEF MarkStaging
<1>8. CASE MarkStaging(w, o) /\ ~runner[w].done
  <2>1. PICK at \in {"leftover", "outcome"} :
          runner' = [runner EXCEPT ![w] =
                       [runner[w] EXCEPT !.cleaned = TRUE, !.at = at]]
    BY <1>8 DEF MarkStaging, Become
  <2>2. PICK r : r = [runner[w] EXCEPT !.cleaned = TRUE, !.at = at]
    OBVIOUS
  <2>3. r \in Locals /\ r.n = runner[w].n /\ r.at # "publish"
    BY <1>2, <2>2 DEF Locals, Places
  <2> QED BY <1>1, <1>2, <1>5, <2>1, <2>2, <2>3, FlagsTyped, ThreadStep
<1> QED BY <1>6, <1>7, <1>8

\* The attempt ends, in one way or another (CannotResolve, Outcome, FailRun,
\* CrashRunner, LoseLock).
LEMMA TypeEnd ==
  ASSUME AnalysisTypeOK, NEW w \in Runners,
         \/ CannotResolve(w) \/ CrashRunner(w) \/ LoseLock(w)
         \/ \E o \in Results : Outcome(w, o) \/ FailRun(w, o)
  PROVE  AnalysisTypeOK'
<1>1. LocalOK(runner[w]) /\ runner[w] \in Locals
  BY DEF AnalysisTypeOK, LocalOK
<1>2. \E o : RunFault(o)
  BY DEF CannotResolve, CrashRunner, LoseLock, Outcome, FailRun
<1>3. run' \in Runs
  BY DEF AnalysisTypeOK, CannotResolve, CrashRunner, LoseLock, Outcome, FailRun,
         FailedRun, Runs
<1>4. TablesOK'
  BY <1>2, <1>3, FaultTyped
     DEF AnalysisTypeOK, TablesOK, CannotResolve, CrashRunner, LoseLock, Outcome, FailRun
<1>5. CASE LoseLock(w)
  <2>1. PICK r : r = [runner[w] EXCEPT !.locked = FALSE]
    OBVIOUS
  <2>2. runner' = [runner EXCEPT ![w] = r]
    BY <1>5, <2>1 DEF LoseLock, AnalysisTypeOK
  <2>3. LocalOK(r)
    BY <1>1, <2>1 DEF LocalOK, Locals
  <2> QED BY <1>4, <2>2, <2>3, ThreadStep
<1>6. CASE ~LoseLock(w)
  <2>1. runner[w].at # "idle"
    BY <1>6 DEF CannotResolve, CrashRunner, Outcome, FailRun
  <2>2. \/ Return(w) \/ Step(w, "fail")
        \/ runner' = [runner EXCEPT ![w] = [runner[w] EXCEPT !.done = FALSE]]
           /\ runner[w].at = "drop_staged"
    BY <1>6 DEF CannotResolve, CrashRunner, Outcome, FailRun, Become
  <2>3. "fail" \in Places \ {"publish"}
    BY DEF Places
  <2>4. PICK r : r = [runner[w] EXCEPT !.done = FALSE]
    OBVIOUS
  <2>5. r \in Locals /\ r.n = runner[w].n /\ r.at = runner[w].at
    BY <1>1, <2>4 DEF Locals
  <2>6. runner[w].at = "drop_staged" => LocalOK(r)
    BY <1>1, <2>1, <2>5, FlagsTyped
  <2> QED BY <1>4, <2>1, <2>2, <2>3, <2>4, <2>6, ReturnTyped, StepTyped, ThreadStep
<1> QED BY <1>5, <1>6

\* Every step of the model keeps the types (AnalysisNext).
LEMMA TypeStep ==
  ASSUME AnalysisTypeOK, [AnalysisNext]_analysisVars
  PROVE  AnalysisTypeOK'
<1>1. CASE UNCHANGED analysisVars
  BY <1>1 DEF AnalysisTypeOK, analysisVars
<1>2. ASSUME NEW w \in Runners,
             \/ BeginAttempt(w) \/ Attempt(w) \/ CannotResolve(w)
             \/ CrashRunner(w) \/ LoseLock(w)
      PROVE  AnalysisTypeOK'
  BY <1>2, TypeBegin, TypeClaim, TypeStaged, TypePromote, TypeFinal, TypePublish,
     TypeDrop, TypeMark, TypeEnd DEF Attempt, ReadResults, Results
<1>3. CASE LeaseExpires
  <2>1. run' \in Runs
    BY <1>3 DEF AnalysisTypeOK, LeaseExpires, Runs
  <2> QED BY <1>3, <2>1 DEF AnalysisTypeOK, LeaseExpires
<1>4. CASE RecoverRunning
  <2>1. run' \in Runs
    BY <1>4 DEF AnalysisTypeOK, RecoverRunning, FailedRun, Runs
  <2>2. runFaults' \in 0..MaxRunFaults
    BY <1>4, FaultTyped DEF AnalysisTypeOK, RecoverRunning
  <2> QED BY <1>4, <2>1, <2>2 DEF AnalysisTypeOK, RecoverRunning
<1> QED BY <1>1, <1>2, <1>3, <1>4 DEF AnalysisNext

\* The initial state has its types (AnalysisInit).
LEMMA TypeInit ==
  ASSUME AnalysisInit
  PROVE  AnalysisTypeOK
<1> USE AttemptsAreNatural
<1>1. run \in Runs
  BY DEF AnalysisInit, Runs
<1>2. object \in [ObjectIds -> Records]
  BY DEF AnalysisInit, NoRecord, Records
<1>3. \A w \in Runners : runner[w] = NoAttempt
  BY DEF AnalysisInit
<1>4. runner \in [Runners -> Locals]
  BY NoAttemptTyped DEF AnalysisInit, LocalOK
<1>5. NoAttempt.at = "idle"
  BY DEF NoAttempt
<1>6. \A w \in Runners : runner[w].at = "idle"
  BY <1>3, <1>5
<1>7. stagings \subseteq Attempts /\ lockLost \in BOOLEAN
  BY DEF AnalysisInit
<1>8. evidence \in Nat /\ evidenceTags \in Nat
  BY DEF AnalysisInit
<1>9. attempts \in 0..MaxAttempts /\ runFaults \in 0..MaxRunFaults
  BY DEF AnalysisInit
<1> QED BY <1>1, <1>2, <1>4, <1>6, <1>7, <1>8, <1>9 DEF AnalysisTypeOK

\* The type invariant, for every instance (AnalysisSpec).
THEOREM TypeCorrect == AnalysisSpec => []AnalysisTypeOK
BY TypeInit, TypeStep, PTL DEF AnalysisSpec

-----------------------------------------------------------------------------
(***************************************************************************)
(* Evidence is kept, with and without the locks                            *)
(***************************************************************************)
\* What a step does to a completed run: nothing, and nothing to its evidence
\* (EvidenceIsKept).
Kept ==
  run.status = "completed" => run' = run /\ object'[run.artifact] = object[run.artifact]

\* A row that may be marked is not the evidence (MarkObject).
LEMMA MarkSpares ==
  ASSUME AnalysisTypeOK, NEW x, NEW d, NEW o, MarkObject(x, d, o),
         NEW e \in ObjectIds, IsEvidence(e)
  PROVE  object'[e] = object[e]
<1>1. ~Discardable(e)
  BY DEF Discardable, IsEvidence
<1>2. CASE x = e
  BY <1>1, <1>2 DEF MarkObject
<1>3. CASE x # e
  BY <1>3 DEF MarkObject, AnalysisTypeOK
<1> QED BY <1>2, <1>3

\* Staging and final objects have different names.
LEMMA NamesDiffer ==
  ASSUME NEW n, NEW x \in EvidenceIds
  PROVE  x # StagingOf(n)
BY DEF EvidenceIds, EvidenceOf, StagingOf

\* The rows that are not of final objects do not matter (RecordStaged, MarkStaging).
LEMMA KeptStaging ==
  ASSUME AnalysisTypeOK, ArtifactIsEvidence, NEW w \in Runners, NEW o,
         RecordStaged(w, o) \/ MarkStaging(w, o)
  PROVE  Kept
<1> SUFFICES ASSUME run.status = "completed" PROVE object'[run.artifact] = object[run.artifact]
  BY DEF Kept, RecordStaged, MarkStaging
<1>1. run.artifact \in EvidenceIds /\ IsEvidence(run.artifact) /\ run.artifact \in ObjectIds
  BY DEF ArtifactIsEvidence, ObjectIds
<1>2. PICK x : x = StagingOf(runner[w].n)
  OBVIOUS
<1>3. run.artifact # x
  BY <1>1, <1>2, NamesDiffer
<1>4. \/ object' = object
      \/ \E r : object' = [object EXCEPT ![x] = r]
      \/ MarkObject(x, runner[w].deleted, o)
  BY <1>2 DEF RecordStaged, MarkStaging
<1> QED BY <1>1, <1>3, <1>4, MarkSpares DEF AnalysisTypeOK

\* A final object is recorded only when none is (CreateFinal), adopted only by a
\* running run (Publish) and marked only when it may be (MarkFinal).
LEMMA KeptFinal ==
  ASSUME AnalysisTypeOK, ArtifactIsEvidence, NEW w \in Runners, NEW o,
         CreateFinal(w, o) \/ Publish(w, o) \/ MarkFinal(w, o)
  PROVE  Kept
<1> SUFFICES ASSUME run.status = "completed"
             PROVE  run' = run /\ object'[run.artifact] = object[run.artifact]
  BY DEF Kept
<1>1. run.artifact \in EvidenceIds /\ IsEvidence(run.artifact) /\ run.artifact \in ObjectIds
  BY DEF ArtifactIsEvidence, ObjectIds
<1>2. run.artifact \in EvidenceRow
  BY <1>1 DEF EvidenceRow, IsEvidence
<1>3. CASE CreateFinal(w, o)
  BY <1>2, <1>3 DEF CreateFinal
<1>4. CASE Publish(w, o)
  BY <1>4 DEF Publish, Publishable
<1>5. CASE MarkFinal(w, o)
  BY <1>1, <1>5, MarkSpares DEF MarkFinal
<1> QED BY <1>3, <1>4, <1>5

\* Every step keeps a completed run and its evidence (AnalysisNext).
LEMMA KeptStep ==
  ASSUME AnalysisTypeOK, ArtifactIsEvidence, [AnalysisNext]_analysisVars
  PROVE  Kept
<1>1. ASSUME NEW w \in Runners, NEW o,
             \/ RecordStaged(w, o) \/ MarkStaging(w, o)
             \/ CreateFinal(w, o) \/ Publish(w, o) \/ MarkFinal(w, o)
      PROVE  Kept
  BY <1>1, KeptStaging, KeptFinal
<1>2. ASSUME NEW w \in Runners, NEW o,
             \/ InsertRunning(w, o) \/ StageEvidence(w, o) \/ PromoteEvidence(w, o)
             \/ DropFinal(w, o) \/ DropStaging(w, o) \/ FailRun(w, o)
             \/ CheckStart(w, o) \/ CheckStaged(w, o) \/ FindFinal(w, o)
             \/ CheckFinal(w, o) \/ ReadBack(w, o) \/ FindLeftover(w, o) \/ Outcome(w, o)
      PROVE  Kept
  BY <1>2 DEF Kept, InsertRunning, Claimable, StageEvidence, PromoteEvidence, DropFinal,
              DropStaging, FailRun, GiveUp, CheckStart, CheckStaged, FindFinal,
              CheckFinal, ReadBack, FindLeftover, Outcome
<1>3. ASSUME NEW w \in Runners,
             BeginAttempt(w) \/ CannotResolve(w) \/ CrashRunner(w) \/ LoseLock(w)
      PROVE  Kept
  BY <1>3 DEF Kept, BeginAttempt, CannotResolve, CrashRunner, LoseLock
<1>4. CASE LeaseExpires \/ RecoverRunning \/ UNCHANGED analysisVars
  BY <1>4 DEF Kept, ArtifactIsEvidence, LeaseExpires, RecoverRunning, GiveUp, analysisVars
<1> QED BY <1>1, <1>2, <1>3, <1>4 DEF AnalysisNext, Attempt

\* A completed run is completed by the adoption of its artifact (Publish), and stays.
LEMMA ArtifactStep ==
  ASSUME AnalysisTypeOK, ArtifactIsEvidence, [AnalysisNext]_analysisVars
  PROVE  ArtifactIsEvidence'
<1>1. CASE run.status = "completed"
  BY <1>1, KeptStep DEF Kept, ArtifactIsEvidence, IsEvidence
<1>2. CASE run.status # "completed" /\ run'.status = "completed"
  <2>1. PICK w \in Runners, o \in Results : Publish(w, o)
    <3>1. UNCHANGED run => FALSE
      BY <1>2
    <3>2. ASSUME NEW w \in Runners, NEW o, InsertRunning(w, o) \/ FailRun(w, o)
          PROVE  FALSE
      BY <1>2, <3>2 DEF AnalysisTypeOK, Runs, InsertRunning, FailRun, FailedRun
    <3>3. ~LeaseExpires /\ ~RecoverRunning
      BY <1>2 DEF AnalysisTypeOK, Runs, LeaseExpires, RecoverRunning, FailedRun
    <3>4. ASSUME NEW w \in Runners, NEW o,
                 \/ RecordStaged(w, o) \/ MarkStaging(w, o)
                 \/ CreateFinal(w, o) \/ MarkFinal(w, o)
                 \/ StageEvidence(w, o) \/ PromoteEvidence(w, o)
                 \/ DropFinal(w, o) \/ DropStaging(w, o)
                 \/ CheckStart(w, o) \/ CheckStaged(w, o) \/ FindFinal(w, o)
                 \/ CheckFinal(w, o) \/ ReadBack(w, o) \/ FindLeftover(w, o)
                 \/ Outcome(w, o)
          PROVE  UNCHANGED run
      BY <3>4 DEF RecordStaged, MarkStaging, CreateFinal, MarkFinal, StageEvidence,
                  PromoteEvidence, DropFinal, DropStaging, CheckStart, CheckStaged,
                  FindFinal, CheckFinal, ReadBack, FindLeftover, Outcome
    <3>5. ASSUME NEW w \in Runners,
                 BeginAttempt(w) \/ CannotResolve(w) \/ CrashRunner(w) \/ LoseLock(w)
          PROVE  UNCHANGED run
      BY <3>5 DEF BeginAttempt, CannotResolve, CrashRunner, LoseLock
    <3> QED BY <3>1, <3>2, <3>3, <3>4, <3>5 DEF AnalysisNext, Attempt, analysisVars
  <2>2. PICK x \in EvidenceIds : x = runner[w].id
    BY <2>1 DEF AnalysisTypeOK, Publish
  <2>3. Publishable(w) /\ Landed(o)
    BY <1>2, <2>1 DEF Publish
  <2>4. run' = [status |-> "completed", leased |-> FALSE, artifact |-> x]
    BY <2>1, <2>2, <2>3 DEF Publish
  <2>5. object' = [object EXCEPT ![x].purpose = "evidence", ![x].state = "available"]
    BY <2>1, <2>2, <2>3 DEF Publish
  <2>6. x \in ObjectIds /\ object[x] \in Records
    BY <2>2 DEF AnalysisTypeOK, ObjectIds
  <2>7. object'[x].purpose = "evidence" /\ object'[x].state = "available"
    BY <2>5, <2>6 DEF AnalysisTypeOK, Records
  <2> QED BY <2>4, <2>7 DEF ArtifactIsEvidence, IsEvidence
<1>3. CASE run'.status # "completed"
  BY <1>3 DEF ArtifactIsEvidence
<1> QED BY <1>1, <1>2, <1>3

\* A completed run and its evidence are kept in every instance, whatever locks are
\* lost (EvidenceIsKept).
THEOREM EvidenceKept == AnalysisSpec => EvidenceIsKept
<1>1. AnalysisInit => AnalysisTypeOK /\ ArtifactIsEvidence
  <2>1. AnalysisInit => run.status = "absent"
    BY DEF AnalysisInit
  <2> QED BY <2>1, TypeInit DEF ArtifactIsEvidence
<1>2. AnalysisTypeOK /\ ArtifactIsEvidence /\ [AnalysisNext]_analysisVars
        => (AnalysisTypeOK /\ ArtifactIsEvidence)'
  BY TypeStep, ArtifactStep
<1>3. AnalysisTypeOK /\ ArtifactIsEvidence /\ [AnalysisNext]_analysisVars
        => [run.status = "completed" =>
              run' = run /\ object'[run.artifact] = object[run.artifact]]_analysisVars
  BY KeptStep DEF Kept
<1> QED BY <1>1, <1>2, <1>3, PTL DEF AnalysisSpec, EvidenceIsKept

-----------------------------------------------------------------------------
(***************************************************************************)
(* Evidence can be read as long as the locks hold                          *)
(***************************************************************************)
\* The steps of an attempt that does not know a final object.
Nameless ==
  {"insert", "check_start", "stage", "record_staged", "check_staged", "promote",
   "find_final", "create_final", "check_final", "leftover"}
Promoted == {"find_final", "create_final", "check_final", "publish"}

\* What an attempt that holds its lock may count on: r is its local state, u the
\* run and e the etag of the blob.
Safe(r, u, e) ==
  /\ r.at \in Nameless => r.id = NoObject
  /\ r.at # "idle" /\ r.id = NoObject => u.status # "completed"
  /\ r.at \in {"publish", "drop_final", "mark_final"} => u.status # "completed"
  /\ r.at = "read_back" /\ u.status = "completed" => u.artifact = r.id
  /\ r.at \in Promoted /\ ~r.cleaned => e = r.etag
  /\ r.at = "publish" => ~r.cleaned
  /\ r.at = "leftover" => r.cleaned

\* As long as no lock is lost, one attempt at most is under way, it holds its lock,
\* and a completed run has the blob it was completed with.
Guarded ==
  ~lockLost =>
    /\ \A v, w \in Runners :
         runner[v].at # "idle" /\ runner[w].at # "idle" => v = w
    /\ \A w \in Runners :
         runner[w].at # "idle" => runner[w].locked /\ Safe(runner[w], run, evidence)
    /\ run.status = "completed" => object[run.artifact].etag = evidence

\* The inductive invariant.
AnalysisInv == AnalysisTypeOK /\ ArtifactIsEvidence /\ Guarded

\* A step of the one attempt under way is judged by its new local state
\* (Become, Step).
LEMMA AttemptGuarded ==
  ASSUME AnalysisInv, NEW w \in Runners, NEW r,
         lockLost' = lockLost, runner[w].at # "idle",
         runner' = [runner EXCEPT ![w] = r],
         ~lockLost /\ r.at # "idle" => r.locked /\ Safe(r, run', evidence'),
         ~lockLost /\ run'.status = "completed" => object'[run'.artifact].etag = evidence'
  PROVE  Guarded'
<1> SUFFICES ASSUME ~lockLost PROVE Guarded'
  BY DEF Guarded
<1>1. runner' \in [Runners -> {runner[v] : v \in Runners} \cup {r}]
  BY DEF AnalysisInv, AnalysisTypeOK
<1>2. \A v \in Runners : v # w => runner[v].at = "idle" /\ runner'[v] = runner[v]
  BY DEF AnalysisInv, AnalysisTypeOK, Guarded
<1>3. runner'[w] = r
  BY DEF AnalysisInv, AnalysisTypeOK
<1>4. \A v \in Runners : runner'[v].at # "idle" => v = w
  BY <1>2
<1> QED BY <1>3, <1>4 DEF Guarded

\* Only its step changes (Step).
LEMMA StepGuarded ==
  ASSUME AnalysisInv, NEW w \in Runners, NEW at \in Places,
         UNCHANGED lockLost, runner[w].at # "idle", Step(w, at),
         ~lockLost => Safe([runner[w] EXCEPT !.at = at], run', evidence'),
         ~lockLost /\ run'.status = "completed" => object'[run'.artifact].etag = evidence'
  PROVE  Guarded'
<1>1. PICK r : r = [runner[w] EXCEPT !.at = at]
  OBVIOUS
<1>2. runner' = [runner EXCEPT ![w] = r]
  BY <1>1 DEF Step
<1>3. ~lockLost => r.locked
  BY <1>1 DEF AnalysisInv, AnalysisTypeOK, Guarded, Locals
<1> QED BY <1>1, <1>2, <1>3, AttemptGuarded

\* An attempt that ends counts on nothing (Return).
LEMMA ReturnGuarded ==
  ASSUME AnalysisInv, NEW w \in Runners,
         UNCHANGED lockLost, runner[w].at # "idle", Return(w),
         ~lockLost /\ run'.status = "completed" => object'[run'.artifact].etag = evidence'
  PROVE  Guarded'
<1>1. NoAttempt.at = "idle"
  BY DEF NoAttempt
<1> QED BY <1>1, AttemptGuarded DEF Return

\* What the attempt under way counted on before the step.
LEMMA WasSafe ==
  ASSUME AnalysisInv, ~lockLost, NEW w \in Runners, runner[w].at # "idle"
  PROVE  /\ runner[w] \in Locals
         /\ Safe(runner[w], run, evidence)
         /\ run.status = "completed" => object[run.artifact].etag = evidence
BY DEF AnalysisInv, AnalysisTypeOK, Guarded

\* A run that is not completed by the step keeps the blob of a completed one.
LEMMA BlobKept ==
  ASSUME AnalysisInv, AnalysisNext, ~lockLost, evidence' = evidence,
         run'.status = "completed" => run.status = "completed"
  PROVE  run'.status = "completed" => object'[run'.artifact].etag = evidence'
BY KeptStep DEF AnalysisInv, Guarded, Kept

\* The claim (BeginAttempt): no other attempt has the lock, and nothing is completed.
LEMMA GuardedBegin ==
  ASSUME AnalysisInv, NEW w \in Runners, BeginAttempt(w)
  PROVE  Guarded'
<1> SUFFICES ASSUME ~lockLost PROVE Guarded'
  BY DEF BeginAttempt, Guarded
<1>1. \A v \in Runners : runner[v].at = "idle"
  BY DEF AnalysisInv, Guarded, BeginAttempt, RunLockFree
<1>2. PICK r : r = [NoAttempt EXCEPT !.at = "insert", !.n = attempts', !.locked = TRUE]
  OBVIOUS
<1>3. r.at = "insert" /\ r.locked /\ r.id = NoObject
  BY <1>2 DEF NoAttempt
<1>4. run.status # "completed" /\ run' = run
  BY DEF BeginAttempt, Claimable
<1>5. Safe(r, run', evidence')
  BY <1>3, <1>4 DEF Safe, Promoted
<1>6. runner'[w] = r /\ \A v \in Runners \ {w} : runner'[v].at = "idle"
  BY <1>1, <1>2 DEF BeginAttempt, Become, AnalysisInv, AnalysisTypeOK
<1> QED BY <1>3, <1>4, <1>5, <1>6 DEF Guarded

\* A step that changes neither run nor blob: what the next one counts on is known
\* (Step).
LEMMA MoveGuarded ==
  ASSUME AnalysisInv, AnalysisNext, NEW w \in Runners, NEW at \in Places \ {"idle"},
         UNCHANGED <<run, evidence, lockLost>>, runner[w].at # "idle", Step(w, at),
         at \in Nameless => runner[w].id = NoObject,
         ~lockLost /\ at \in {"publish", "drop_final", "mark_final"}
           => run.status # "completed",
         ~lockLost /\ at = "read_back" /\ run.status = "completed"
           => run.artifact = runner[w].id,
         ~lockLost /\ at \in Promoted /\ ~runner[w].cleaned => evidence = runner[w].etag,
         ~lockLost /\ at = "publish" => ~runner[w].cleaned,
         at = "leftover" => runner[w].cleaned
  PROVE  Guarded'
<1> SUFFICES ASSUME ~lockLost PROVE Guarded'
  BY DEF Guarded
<1>1. runner[w] \in Locals /\ Safe(runner[w], run, evidence)
  BY WasSafe
<1>2. PICK r : r = [runner[w] EXCEPT !.at = at]
  OBVIOUS
<1>3. r.at = at /\ r.id = runner[w].id /\ r.etag = runner[w].etag
      /\ r.cleaned = runner[w].cleaned
  BY <1>1, <1>2 DEF Locals
<1>4. r.id = NoObject => run.status # "completed"
  BY <1>1, <1>3 DEF Safe
<1>5. Safe(r, run, evidence)
  BY <1>3, <1>4 DEF Safe
<1>6. run'.status = "completed" => object'[run'.artifact].etag = evidence'
  BY BlobKept
<1> QED BY <1>2, <1>5, <1>6, StepGuarded

\* The other steps that change neither run nor blob and end the attempt (Return).
LEMMA LeaveGuarded ==
  ASSUME AnalysisInv, AnalysisNext, NEW w \in Runners,
         UNCHANGED <<evidence, lockLost>>, runner[w].at # "idle", Return(w),
         run'.status = "completed" => run.status = "completed"
  PROVE  Guarded'
BY BlobKept, ReturnGuarded

\* The run is found claimable, so that it is not completed (InsertRunning, CheckStart).
LEMMA GuardedClaim ==
  ASSUME AnalysisInv, AnalysisNext, NEW w \in Runners, NEW o,
         InsertRunning(w, o) \/ CheckStart(w, o)
  PROVE  Guarded'
<1> SUFFICES ASSUME ~lockLost PROVE Guarded'
  BY DEF InsertRunning, CheckStart, Guarded
<1>1. runner[w].at \in {"insert", "check_start"} /\ UNCHANGED <<evidence, lockLost>>
  BY DEF InsertRunning, CheckStart
<1>2. /\ runner[w] \in Locals /\ Safe(runner[w], run, evidence)
      /\ runner[w].id = NoObject /\ run.status # "completed"
  BY <1>1, WasSafe DEF Safe, Nameless
<1>3. run'.status # "completed"
  BY <1>2 DEF InsertRunning, CheckStart, AnalysisInv, AnalysisTypeOK, Runs
<1>4. Return(w) \/ Step(w, "check_start") \/ Step(w, "stage")
  BY DEF InsertRunning, CheckStart
<1>5. ASSUME NEW at \in {"check_start", "stage"}, Step(w, at)
      PROVE  Guarded'
  <2>1. [runner[w] EXCEPT !.at = at].at = at /\ [runner[w] EXCEPT !.at = at].id = NoObject
    BY <1>2 DEF Locals
  <2>2. Safe([runner[w] EXCEPT !.at = at], run', evidence')
    BY <1>3, <2>1 DEF Safe, Promoted
  <2>3. at \in Places
    BY DEF Places
  <2> QED BY <1>1, <1>3, <1>5, <2>2, <2>3, StepGuarded
<1> QED BY <1>1, <1>3, <1>4, <1>5, LeaveGuarded

\* Nothing is published while the object is staged (StageEvidence, RecordStaged,
\* CheckStaged).
LEMMA GuardedStaged ==
  ASSUME AnalysisInv, AnalysisNext, NEW w \in Runners, NEW o,
         StageEvidence(w, o) \/ RecordStaged(w, o) \/ CheckStaged(w, o)
  PROVE  Guarded'
<1> SUFFICES ASSUME ~lockLost PROVE Guarded'
  BY DEF StageEvidence, RecordStaged, CheckStaged, Guarded
<1>1. /\ runner[w].at \in {"stage", "record_staged", "check_staged"}
      /\ UNCHANGED <<run, evidence, lockLost>>
  BY DEF StageEvidence, RecordStaged, CheckStaged
<1>2. /\ runner[w] \in Locals /\ Safe(runner[w], run, evidence)
      /\ runner[w].id = NoObject /\ run.status # "completed"
  BY <1>1, WasSafe DEF Safe, Nameless
<1>3. CASE StageEvidence(w, o)
  <2>1. PICK at \in {"record_staged", "outcome"} : Step(w, at)
    BY <1>3 DEF StageEvidence
  <2>2. at \in Places \ {"idle"}
    BY DEF Places
  <2> QED BY <1>1, <1>2, <2>1, <2>2, MoveGuarded DEF Promoted
<1>4. CASE RecordStaged(w, o) \/ CheckStaged(w, o)
  <2>1. PICK at \in {"promote", "check_staged", "drop_staged"}, k \in BOOLEAN :
          runner' = [runner EXCEPT ![w] = [runner[w] EXCEPT !.at = at, !.known = k]]
    BY <1>4 DEF RecordStaged, CheckStaged, Become
  <2>2. PICK r : r = [runner[w] EXCEPT !.at = at, !.known = k]
    OBVIOUS
  <2>3. r.at = at /\ r.id = NoObject /\ r.locked = runner[w].locked
    BY <1>2, <2>2 DEF Locals
  <2>4. Safe(r, run, evidence) /\ r.locked
    BY <1>1, <1>2, <2>3 DEF Safe, Promoted, AnalysisInv, Guarded
  <2> QED BY <1>1, <1>2, <2>1, <2>2, <2>4, AttemptGuarded
<1> QED BY <1>3, <1>4

\* Nothing is published when the blob is promoted, and the attempt knows its etag
\* (PromoteEvidence).
LEMMA GuardedPromote ==
  ASSUME AnalysisInv, AnalysisNext, NEW w \in Runners, NEW o, PromoteEvidence(w, o)
  PROVE  Guarded'
<1> SUFFICES ASSUME ~lockLost PROVE Guarded'
  BY DEF PromoteEvidence, Guarded
<1>1. runner[w].at = "promote" /\ UNCHANGED <<run, lockLost>>
  BY DEF PromoteEvidence
<1>2. /\ runner[w] \in Locals /\ Safe(runner[w], run, evidence)
      /\ runner[w].id = NoObject /\ run.status # "completed" /\ runner[w].locked
  BY <1>1, WasSafe DEF Safe, Nameless, AnalysisInv, Guarded
<1>3. CASE o = "ok"
  <2>1. PICK r : r = [runner[w] EXCEPT !.at = "find_final", !.etag = evidence']
    OBVIOUS
  <2>2. runner' = [runner EXCEPT ![w] = r]
    BY <1>3, <2>1 DEF PromoteEvidence, Become
  <2>3. r.at = "find_final" /\ r.id = NoObject /\ r.locked /\ r.etag = evidence'
    BY <1>2, <2>1 DEF Locals
  <2>4. Safe(r, run', evidence')
    BY <1>1, <1>2, <2>3 DEF Safe
  <2> QED BY <1>1, <1>2, <2>2, <2>3, <2>4, AttemptGuarded
<1>4. CASE o # "ok"
  <2>1. Step(w, "drop_staged") /\ "drop_staged" \in Places
    BY <1>4 DEF PromoteEvidence, Places
  <2>2. [runner[w] EXCEPT !.at = "drop_staged"].at = "drop_staged"
    BY <1>2 DEF Locals
  <2>3. Safe([runner[w] EXCEPT !.at = "drop_staged"], run', evidence')
    BY <1>1, <1>2, <2>2 DEF Safe, Nameless, Promoted
  <2> QED BY <1>1, <1>2, <2>1, <2>3, StepGuarded
<1> QED BY <1>3, <1>4

\* A final object is found or recorded before anything is published (FindFinal,
\* CreateFinal, CheckFinal, FindLeftover).
LEMMA GuardedFinal ==
  ASSUME AnalysisInv, AnalysisNext, NEW w \in Runners, NEW o,
         \/ FindFinal(w, o) \/ CreateFinal(w, o)
         \/ CheckFinal(w, o) \/ FindLeftover(w, o)
  PROVE  Guarded'
<1> SUFFICES ASSUME ~lockLost PROVE Guarded'
  BY DEF FindFinal, CreateFinal, CheckFinal, FindLeftover, Guarded
<1>1. /\ runner[w].at \in {"find_final", "create_final", "check_final", "leftover"}
      /\ UNCHANGED <<run, evidence, lockLost>>
  BY DEF FindFinal, CreateFinal, CheckFinal, FindLeftover
<1>2. /\ runner[w] \in Locals /\ Safe(runner[w], run, evidence)
      /\ runner[w].id = NoObject /\ run.status # "completed" /\ runner[w].locked
  BY <1>1, WasSafe DEF Safe, Nameless, AnalysisInv, Guarded
<1>3. ~runner[w].cleaned => evidence = runner[w].etag
  BY <1>1, <1>2 DEF Safe, Promoted
<1>4. \/ \E x : Recorded(w, x)
      \/ NotRecorded(w)
      \/ Return(w)
      \/ \E at \in {"create_final", "check_final", "find_final"} : Step(w, at)
  BY DEF FindFinal, CreateFinal, CheckFinal, FindLeftover
<1>5. ASSUME NEW x, Recorded(w, x)
      PROVE  Guarded'
  <2>1. PICK at \in {"drop_final", "publish"} :
          /\ at = "publish" => ~runner[w].cleaned
          /\ runner' = [runner EXCEPT ![w] = [runner[w] EXCEPT !.id = x, !.at = at]]
    BY <1>5 DEF Recorded, Become
  <2>2. PICK r : r = [runner[w] EXCEPT !.id = x, !.at = at]
    OBVIOUS
  <2>3. /\ r.at = at /\ r.locked /\ r.etag = runner[w].etag
        /\ r.cleaned = runner[w].cleaned
    BY <1>2, <2>2 DEF Locals
  <2>4. Safe(r, run', evidence')
    BY <1>1, <1>2, <1>3, <2>1, <2>3 DEF Safe, Nameless, Promoted
  <2> QED BY <1>1, <1>2, <2>1, <2>2, <2>3, <2>4, AttemptGuarded
<1>6. ASSUME NEW at \in {"create_final", "check_final", "find_final", "drop_final",
                         "drop_staged"}, Step(w, at)
      PROVE  Guarded'
  <2>1. at \in Places \ {"idle"}
    BY DEF Places
  <2> QED BY <1>1, <1>2, <1>3, <1>6, <2>1, MoveGuarded
<1>7. NotRecorded(w) => \E at \in {"drop_final", "drop_staged"} : Step(w, at)
  BY DEF NotRecorded
<1> QED BY <1>1, <1>4, <1>5, <1>6, <1>7, LeaveGuarded

\* The run is completed with the object that has the etag of the blob (Publish).
LEMMA GuardedPublish ==
  ASSUME AnalysisInv, AnalysisNext, NEW w \in Runners, NEW o, Publish(w, o)
  PROVE  Guarded'
<1> SUFFICES ASSUME ~lockLost PROVE Guarded'
  BY DEF Publish, Guarded
<1>1. runner[w].at = "publish" /\ UNCHANGED <<evidence, lockLost>>
  BY DEF Publish
<1>2. /\ runner[w] \in Locals /\ runner[w].locked /\ run.status # "completed"
      /\ evidence = runner[w].etag /\ runner[w].id # NoObject
  <2>1. Safe(runner[w], run, evidence) /\ runner[w].id \in EvidenceIds
    BY <1>1, WasSafe DEF AnalysisInv, AnalysisTypeOK
  <2>2. NoObject \notin EvidenceIds
    BY DEF NoObject, EvidenceIds, EvidenceOf
  <2> QED BY <1>1, <2>1, <2>2, WasSafe DEF Safe, Promoted, AnalysisInv, Guarded
<1>3. PICK x \in EvidenceIds : x = runner[w].id
  BY <1>1 DEF AnalysisInv, AnalysisTypeOK
<1>4. x \in ObjectIds
  BY DEF ObjectIds
<1>5. CASE Publishable(w) /\ Landed(o)
  <2>1. run' = [status |-> "completed", leased |-> FALSE, artifact |-> x]
    BY <1>3, <1>5 DEF Publish
  <2>2. object' = [object EXCEPT ![x].purpose = "evidence", ![x].state = "available"]
    BY <1>3, <1>5 DEF Publish
  <2>3. object[x].etag = runner[w].etag /\ object[x] \in Records
    BY <1>3, <1>4, <1>5 DEF Publishable, TemporaryRow, AnalysisInv, AnalysisTypeOK
  <2>4. object'[x].etag = evidence'
    BY <1>1, <1>2, <1>4, <2>2, <2>3 DEF AnalysisInv, AnalysisTypeOK, Records
  <2>5. PICK r : r = [runner[w] EXCEPT !.at = "drop_staged", !.done = TRUE]
    OBVIOUS
  <2>6. r.at = "drop_staged" /\ r.locked /\ r.id # NoObject
    BY <1>2, <2>5 DEF Locals
  <2>7. Safe(r, run', evidence')
    BY <2>6 DEF Safe, Nameless, Promoted
  <2>8. CASE o = "ok"
    <3>1. runner' = [runner EXCEPT ![w] = r]
      BY <1>5, <2>5, <2>8 DEF Publish, Become
    <3> QED BY <1>1, <2>1, <2>4, <2>6, <2>7, <3>1, AttemptGuarded
  <2>9. CASE o # "ok"
    <3>1. Step(w, "read_back") /\ "read_back" \in Places
      BY <2>9 DEF Publish, Places
    <3>2. PICK q : q = [runner[w] EXCEPT !.at = "read_back"]
      OBVIOUS
    <3>3. q.at = "read_back" /\ q.id = x /\ q.id # NoObject
      BY <1>2, <1>3, <3>2 DEF Locals
    <3>4. Safe(q, run', evidence')
      BY <2>1, <3>3 DEF Safe, Nameless, Promoted
    <3> QED BY <1>1, <2>1, <2>4, <3>1, <3>2, <3>4, StepGuarded
  <2> QED BY <2>8, <2>9
<1>6. CASE ~(Publishable(w) /\ Landed(o))
  <2>1. Step(w, "read_back") /\ run' = run
    BY <1>6 DEF Publish
  <2>2. "read_back" \in Places \ {"idle"}
    BY DEF Places
  <2> QED BY <1>1, <1>2, <2>1, <2>2, MoveGuarded DEF Nameless, Promoted
<1> QED BY <1>5, <1>6

\* A run that reads back as not its own is not completed at all: nobody else was at
\* work (ReadBack).
LEMMA GuardedReadBack ==
  ASSUME AnalysisInv, AnalysisNext, NEW w \in Runners, NEW o, ReadBack(w, o)
  PROVE  Guarded'
<1> SUFFICES ASSUME ~lockLost PROVE Guarded'
  BY DEF ReadBack, Guarded
<1>1. runner[w].at = "read_back" /\ UNCHANGED <<run, evidence, lockLost>>
  BY DEF ReadBack
<1>2. /\ runner[w] \in Locals /\ Safe(runner[w], run, evidence) /\ runner[w].locked
      /\ run.status = "completed" => object[run.artifact].etag = evidence
  BY <1>1, WasSafe DEF AnalysisInv, Guarded
<1>3. run.status = "completed" => OwnPublication(w)
  BY <1>1, <1>2 DEF Safe, OwnPublication, AnalysisInv, ArtifactIsEvidence
<1>4. runner[w].id = NoObject => run.status # "completed"
  BY <1>1, <1>2 DEF Safe
<1>5. CASE o # "ok" \/ ~OwnPublication(w)
  <2>1. PICK at \in {"drop_staged", "drop_final"} :
          Step(w, at) /\ (at = "drop_final" => ~OwnPublication(w))
    BY <1>5 DEF ReadBack
  <2>2. at \in Places \ {"idle"}
    BY DEF Places
  <2> QED BY <1>1, <1>3, <2>1, <2>2, MoveGuarded DEF Nameless, Promoted
<1>6. CASE o = "ok" /\ OwnPublication(w)
  <2>1. PICK r : r = [runner[w] EXCEPT !.at = "drop_staged", !.done = TRUE]
    OBVIOUS
  <2>2. runner' = [runner EXCEPT ![w] = r]
    BY <1>6, <2>1 DEF ReadBack, Become
  <2>3. r.at = "drop_staged" /\ r.locked /\ r.id = runner[w].id
    BY <1>2, <2>1 DEF Locals
  <2>4. Safe(r, run', evidence')
    BY <1>1, <1>4, <2>3 DEF Safe, Nameless, Promoted
  <2>5. run'.status = "completed" => object'[run'.artifact].etag = evidence'
    BY <1>1, BlobKept
  <2> QED BY <1>1, <2>2, <2>3, <2>4, <2>5, AttemptGuarded
<1> QED BY <1>5, <1>6

\* A final blob is dropped, and its row marked, only when nothing is published
\* (DropFinal, MarkFinal).
LEMMA GuardedDropFinal ==
  ASSUME AnalysisInv, AnalysisNext, NEW w \in Runners, NEW o,
         DropFinal(w, o) \/ MarkFinal(w, o)
  PROVE  Guarded'
<1> SUFFICES ASSUME ~lockLost PROVE Guarded'
  BY DEF DropFinal, MarkFinal, Guarded
<1>1. runner[w].at \in {"drop_final", "mark_final"} /\ UNCHANGED <<run, lockLost>>
  BY DEF DropFinal, MarkFinal
<1>2. runner[w] \in Locals /\ runner[w].locked /\ run.status # "completed"
  BY <1>1, WasSafe DEF Safe, AnalysisInv, Guarded
<1>3. CASE DropFinal(w, o)
  <2>1. PICK d \in BOOLEAN :
          runner' = [runner EXCEPT ![w] =
                       [runner[w] EXCEPT !.at = "mark_final", !.deleted = d]]
    BY <1>3 DEF DropFinal, Become
  <2>2. PICK r : r = [runner[w] EXCEPT !.at = "mark_final", !.deleted = d]
    OBVIOUS
  <2>3. r.at = "mark_final" /\ r.locked
    BY <1>2, <2>2 DEF Locals
  <2>4. Safe(r, run', evidence')
    BY <1>1, <1>2, <2>3 DEF Safe, Nameless, Promoted
  <2> QED BY <1>1, <1>2, <2>1, <2>2, <2>3, <2>4, AttemptGuarded
<1>4. CASE MarkFinal(w, o)
  <2>1. PICK at \in {"outcome", "drop_staged"} : Step(w, at)
    BY <1>4 DEF MarkFinal
  <2>2. at \in Places \ {"idle"}
    BY DEF Places
  <2>3. evidence' = evidence
    BY <1>4 DEF MarkFinal
  <2> QED BY <1>1, <1>2, <2>1, <2>2, <2>3, MoveGuarded DEF Nameless, Promoted
<1> QED BY <1>3, <1>4

\* A step that ends in the clean-up of the staging object, or after it, and leaves
\* run, evidence and final object as they are.
LEMMA TailGuarded ==
  ASSUME AnalysisInv, AnalysisNext, NEW w \in Runners, NEW r,
         UNCHANGED <<run, evidence, lockLost>>,
         runner[w].at \in {"drop_staged", "mark_staged"},
         runner' = [runner EXCEPT ![w] = r],
         r.at \in {"drop_staged", "mark_staged", "leftover", "outcome"},
         r.at = "leftover" => r.cleaned /\ r.id = NoObject,
         r.id = runner[w].id, r.locked = runner[w].locked
  PROVE  Guarded'
<1> SUFFICES ASSUME ~lockLost PROVE Guarded'
  BY DEF Guarded
<1>1. runner[w].at # "idle"
  OBVIOUS
<1>2. Safe(runner[w], run, evidence) /\ runner[w].locked
  BY <1>1, WasSafe DEF AnalysisInv, Guarded
<1>3. r.id = NoObject => run.status # "completed"
  BY <1>1, <1>2 DEF Safe
<1>4. Safe(r, run', evidence')
  BY <1>3 DEF Safe, Nameless, Promoted
<1>5. run'.status = "completed" => object'[run'.artifact].etag = evidence'
  BY BlobKept
<1> QED BY <1>1, <1>2, <1>4, <1>5, AttemptGuarded

\* The staging object matters to nobody else; an attempt that has no final object has
\* published nothing (DropStaging, MarkStaging, CannotResolve).
LEMMA GuardedDropStaging ==
  ASSUME AnalysisInv, AnalysisNext, NEW w \in Runners, NEW o,
         CannotResolve(w) \/ DropStaging(w, o) \/ MarkStaging(w, o)
  PROVE  Guarded'
<1>1. /\ runner[w].at \in {"drop_staged", "mark_staged"}
      /\ UNCHANGED <<run, evidence, lockLost>>
  BY DEF CannotResolve, DropStaging, MarkStaging
<1> SUFFICES ASSUME ~lockLost PROVE Guarded'
  BY <1>1 DEF Guarded
<1>2. runner[w] \in Locals
  BY <1>1, WasSafe
<1>3. CASE Return(w)
  <2>1. run'.status = "completed" => object'[run'.artifact].etag = evidence'
    BY <1>1, BlobKept
  <2> QED BY <1>1, <1>3, <2>1, ReturnGuarded
<1>4. CASE CannotResolve(w) /\ ~Return(w)
  <2>1. PICK r : r = [runner[w] EXCEPT !.done = FALSE]
    OBVIOUS
  <2>2. /\ r.at = "drop_staged"
        /\ r.id = runner[w].id /\ r.locked = runner[w].locked
    BY <1>2, <1>4, <2>1 DEF CannotResolve, Locals
  <2>3. runner' = [runner EXCEPT ![w] = r]
    BY <1>4, <2>1 DEF CannotResolve, Become
  <2> QED BY <1>1, <2>2, <2>3, TailGuarded
<1>5. CASE DropStaging(w, o)
  <2>1. PICK d \in BOOLEAN :
          runner' = [runner EXCEPT ![w] =
                       [runner[w] EXCEPT !.at = "mark_staged", !.deleted = d]]
    BY <1>5 DEF DropStaging, Become
  <2>2. PICK r : r = [runner[w] EXCEPT !.at = "mark_staged", !.deleted = d]
    OBVIOUS
  <2>3. /\ r.at = "mark_staged"
        /\ r.id = runner[w].id /\ r.locked = runner[w].locked
    BY <1>2, <2>2 DEF Locals
  <2>4. runner' = [runner EXCEPT ![w] = r]
    BY <2>1, <2>2
  <2> QED BY <1>1, <2>3, <2>4, TailGuarded
<1>6. CASE MarkStaging(w, o) /\ ~Return(w)
  <2>1. PICK at \in {"leftover", "outcome"} :
          /\ at = "leftover" => runner[w].id = NoObject
          /\ runner' = [runner EXCEPT ![w] =
                          [runner[w] EXCEPT !.cleaned = TRUE, !.at = at]]
    BY <1>6 DEF MarkStaging, Become
  <2>2. PICK r : r = [runner[w] EXCEPT !.cleaned = TRUE, !.at = at]
    OBVIOUS
  <2>3. /\ r.at = at /\ r.cleaned
        /\ r.id = runner[w].id /\ r.locked = runner[w].locked
    BY <1>2, <2>2 DEF Locals
  <2>4. runner' = [runner EXCEPT ![w] = r]
    BY <2>1, <2>2
  <2> QED BY ZenonT(30), <1>1, <2>1, <2>3, <2>4, TailGuarded
<1> QED BY <1>3, <1>4, <1>5, <1>6

\* The end of an attempt publishes nothing (Outcome, FailRun, CrashRunner).
LEMMA GuardedEnd ==
  ASSUME AnalysisInv, AnalysisNext, NEW w \in Runners,
         CrashRunner(w) \/ \E o \in Results : Outcome(w, o) \/ FailRun(w, o)
  PROVE  Guarded'
<1>1. runner[w].at # "idle" /\ UNCHANGED <<evidence, lockLost>>
  BY DEF CrashRunner, Outcome, FailRun
<1>2. run'.status = "completed" => run.status = "completed"
  BY DEF AnalysisInv, AnalysisTypeOK, Runs, CrashRunner, Outcome, FailRun, FailedRun
<1>3. CASE Return(w)
  BY <1>1, <1>2, <1>3, LeaveGuarded
<1>4. CASE ~Return(w)
  <2>1. Step(w, "fail") /\ run' = run /\ runner[w].at = "outcome"
    BY <1>4 DEF CrashRunner, Outcome, FailRun
  <2>2. "fail" \in Places \ {"idle"}
    BY DEF Places
  <2> QED BY <1>1, <2>1, <2>2, MoveGuarded DEF Nameless, Promoted
<1> QED BY <1>3, <1>4

\* A lost lock ends what is counted on (LoseLock); time and restarts complete nothing
\* (LeaseExpires, RecoverRunning).
LEMMA GuardedAround ==
  ASSUME AnalysisInv,
         \/ LeaseExpires \/ RecoverRunning \/ \E w \in Runners : LoseLock(w)
         \/ UNCHANGED analysisVars
  PROVE  Guarded'
<1>1. CASE \E w \in Runners : LoseLock(w)
  BY <1>1 DEF LoseLock, Guarded
<1>2. CASE UNCHANGED analysisVars
  BY <1>2 DEF AnalysisInv, Guarded, analysisVars
<1>3. CASE LeaseExpires \/ RecoverRunning
  <2>1. UNCHANGED <<object, evidence, runner, lockLost>>
    BY <1>3 DEF LeaseExpires, RecoverRunning
  <2>2. run.status # "completed"
    BY <1>3 DEF AnalysisInv, ArtifactIsEvidence, LeaseExpires, RecoverRunning, GiveUp
  <2>3. run'.status # "completed"
    BY <1>3, <2>2
       DEF AnalysisInv, AnalysisTypeOK, Runs, LeaseExpires, RecoverRunning, FailedRun
  <2>4. \A w \in Runners :
          Safe(runner[w], run, evidence) => Safe(runner[w], run', evidence)
    BY <2>2, <2>3 DEF Safe
  <2> QED BY <2>1, <2>3, <2>4 DEF AnalysisInv, Guarded
<1> QED BY <1>1, <1>2, <1>3

\* Every step keeps the inductive invariant (AnalysisNext).
LEMMA InvStep ==
  ASSUME AnalysisInv, [AnalysisNext]_analysisVars
  PROVE  AnalysisInv'
<1>1. AnalysisTypeOK' /\ ArtifactIsEvidence'
  BY TypeStep, ArtifactStep DEF AnalysisInv
<1>2. ASSUME AnalysisNext, NEW w \in Runners, BeginAttempt(w) \/ Attempt(w)
      PROVE  Guarded'
  BY <1>2, GuardedBegin, GuardedClaim, GuardedStaged, GuardedPromote, GuardedFinal,
     GuardedPublish, GuardedReadBack, GuardedDropFinal, GuardedDropStaging, GuardedEnd
     DEF Attempt, ReadResults, Results
<1>3. Guarded'
  BY <1>2, GuardedDropStaging, GuardedEnd, GuardedAround DEF AnalysisNext
<1> QED BY <1>1, <1>3 DEF AnalysisInv

\* The evidence of a completed run can be read, whatever fails and however often, in
\* every instance, as long as no lock is lost (CompletedOpens).
THEOREM EvidenceOpens == AnalysisSpec => []CompletedOpens
<1>1. AnalysisInit => AnalysisInv
  <2>1. AnalysisInit => run.status = "absent" /\ \A w \in Runners : runner[w].at = "idle"
    BY DEF AnalysisInit, NoAttempt
  <2> QED BY <2>1, TypeInit DEF AnalysisInv, ArtifactIsEvidence, Guarded
<1>2. AnalysisInv => CompletedOpens
  BY DEF AnalysisInv, Guarded, ArtifactIsEvidence, CompletedOpens
<1> QED BY <1>1, <1>2, InvStep, PTL DEF AnalysisSpec

-----------------------------------------------------------------------------
(***************************************************************************)
(* The public release.  A version that is ready stays so, so that what a   *)
(* request found before its transaction holds in it; a receipt is written  *)
(* once, and the release that it stands for is the last one of the chain.  *)
(***************************************************************************)
ReleaseRows == [key : PublishKeys, version : Releasable, active : BOOLEAN]
SeedRequest == [key |-> SeedKey, version |-> SeedVersion, expected |-> NoVersion]
AskedFor == PublishRequests \cup {SeedRequest}
PublisherPlaces == {"idle", "receipt", "readiness", "publish", "look_again"}

\* The tables have their types, and the bootstrap has published a version.
ReleaseTyped ==
  /\ releases \in Seq(ReleaseRows)
  /\ releases # <<>>
  /\ DOMAIN receipts = PublishKeys
  /\ publisher \in [Publishers -> [at : PublisherPlaces, request : AskedFor]]
  /\ DOMAIN prepared = Releasable
  /\ DOMAIN seedCard = Releasable \X Stores

\* What a request found before its transaction.
FoundReady ==
  \A p \in Publishers :
    publisher[p].at = "publish" => Asks(p).version \in Releasable /\ MayBePublic(Asks(p).version)

ReleasedInv == ReleaseTyped /\ FoundReady /\ ReleasesHold

\* A step keeps what is calculated and which cards are approved.
KeepsReady ==
  /\ \A v \in Releasable : prepared[v] \subseteq prepared'[v]
  /\ \A v \in Releasable, s \in Stores : ActionReady(v, s) => ActionReady(v, s)'

LEMMA ReadyStays ==
  ASSUME KeepsReady
  PROVE  \A v \in Releasable : Ready(v) => Ready(v)'
  BY DEF KeepsReady, Ready

LEMMA UnchangedKeeps ==
  ASSUME UNCHANGED <<prepared, seedCard>>
  PROVE  KeepsReady
  BY DEF KeepsReady, ActionReady

LEMMA CalculateKeeps ==
  ASSUME ReleaseTyped, NEW p \in Preparers, NEW o, CalculateItem(p, o)
  PROVE  KeepsReady /\ DOMAIN prepared' = Releasable /\ UNCHANGED <<releaseTables, publisher, seedCard>>
  BY DEF ReleaseTyped, CalculateItem, KeepsReady, ActionReady

LEMMA SeedKeeps ==
  ASSUME ReleaseTyped, NEW p \in Preparers, NEW o, SeedCommand(p, o)
  PROVE  /\ KeepsReady /\ DOMAIN seedCard' = Releasable \X Stores
         /\ UNCHANGED <<releaseTables, publisher, prepared>>
<1>1. PICK command \in {"create", "review", "approve"} :
        LET v == preparer[p].version s == Item(p)[2]
            card == seedCard[v, s] seed == Seeds(command)
            repeated == command \in card.seeded
            accepted == card.status = seed.from /\ card.revision <= 1
        IN seedCard' = IF repeated \/ ~accepted \/ o = "fail" THEN seedCard
                       ELSE [seedCard EXCEPT ![<<v, s>>] =
                              [status |-> seed.to, revision |-> 1,
                               seeded |-> @.seeded \cup {command}]]
  BY DEF SeedCommand
<1>2. UNCHANGED <<releaseTables, publisher, prepared>>
  BY DEF SeedCommand
<1>3. Seeds(command).from # "approved"
  BY DEF Seeds
<1>4. DOMAIN seedCard' = Releasable \X Stores
  BY <1>1 DEF ReleaseTyped
<1>5. ASSUME NEW v \in Releasable, NEW s \in Stores, ActionReady(v, s)
      PROVE  ActionReady(v, s)'
  <2>1. CASE seedCard' = seedCard
    BY <1>5, <2>1 DEF ActionReady
  <2>2. CASE seedCard' # seedCard
    <3> DEFINE w == preparer[p].version t == Item(p)[2]
    <3>1. seedCard[w, t].status # "approved"
      BY <1>1, <1>3, <2>2
    <3>2. <<v, s>> # <<w, t>>
      BY <3>1, <1>5 DEF ActionReady
    <3>3. <<v, s>> \in DOMAIN seedCard
      BY DEF ReleaseTyped
    <3>4. seedCard'[v, s] = seedCard[v, s]
      BY <1>1, <2>2, <3>2, <3>3
    <3> QED BY <3>4, <1>5 DEF ActionReady
  <2> QED BY <2>1, <2>2
<1> QED BY <1>2, <1>4, <1>5 DEF KeepsReady

LEMMA DecisionKeeps ==
  ASSUME ReleaseTyped, NEW w \in Releasable, NEW t \in Stores, NEW c, OperatorDecides(w, t, c)
  PROVE  /\ KeepsReady /\ DOMAIN seedCard' = Releasable \X Stores
         /\ UNCHANGED <<releaseTables, publisher, prepared>>
<1>1. seedCard[w, t].status # "approved"
  BY DEF OperatorDecides, CanDecide
<1>2. UNCHANGED <<releaseTables, publisher, prepared>> /\ DOMAIN seedCard' = Releasable \X Stores
  BY DEF OperatorDecides, ReleaseTyped
<1>3. ASSUME NEW v \in Releasable, NEW s \in Stores, ActionReady(v, s)
      PROVE  ActionReady(v, s)'
  <2>1. <<v, s>> # <<w, t>>
    BY <1>1, <1>3 DEF ActionReady
  <2>2. <<v, s>> \in DOMAIN seedCard
    BY DEF ReleaseTyped
  <2>3. seedCard'[v, s] = seedCard[v, s]
    BY <2>1, <2>2 DEF OperatorDecides
  <2> QED BY <2>3, <1>3 DEF ActionReady
<1> QED BY <1>2, <1>3 DEF KeepsReady

-----------------------------------------------------------------------------
\* The chain of releases, as a constant operator: rs are the releases, got the receipts.
Chained(rs, got) ==
  \A n \in DOMAIN rs :
    LET r == rs[n]
        before == IF n = 1 THEN NoVersion ELSE rs[n - 1].version
        request == [key |-> r.key, version |-> r.version, expected |-> before]
    IN /\ got[r.key] = ReceiptOf(request, TRUE, before)
       /\ r.active <=> n = Len(rs)
       /\ r.version # before

LEMMA ChainIsReleases == ReleasesFollowRequests <=> Chained(releases, receipts)
  BY DEF ReleasesFollowRequests, Chained

\* The last release is the public one.
LEMMA LastIsPublic ==
  ASSUME ReleaseTyped, ReleasesFollowRequests
  PROVE  Len(releases) \in DOMAIN releases /\ Public = releases[Len(releases)].version
<1>1. Len(releases) \in DOMAIN releases /\ DOMAIN releases = 1..Len(releases)
  BY DEF ReleaseTyped
<1>2. \A n \in DOMAIN releases : releases[n].active <=> n = Len(releases)
  BY DEF ReleasesFollowRequests
<1>3. (CHOOSE n \in DOMAIN releases : releases[n].active) = Len(releases)
  BY <1>1, <1>2
<1> QED BY <1>1, <1>2, <1>3 DEF Public

\* The key of a release has its receipt.
LEMMA ReceiptOfRelease ==
  ASSUME NEW rs, NEW got, Chained(rs, got), NEW n \in DOMAIN rs
  PROVE  got[rs[n].key] # NoReceipt
<1> DEFINE b == IF n = 1 THEN NoVersion ELSE rs[n - 1].version
<1>1. got[rs[n].key] =
        ReceiptOf([key |-> rs[n].key, version |-> rs[n].version, expected |-> b], TRUE, b)
  BY DEF Chained
<1>2. got[rs[n].key].created = TRUE
  BY <1>1 DEF ReceiptOf
<1>3. NoReceipt.created = FALSE
  BY DEF NoReceipt
<1> QED BY <1>2, <1>3

\* A receipt of a key that no release has does not disturb the chain.
LEMMA ReceiptAdded ==
  ASSUME NEW rs, NEW got, Chained(rs, got), NEW k, got[k] = NoReceipt, NEW new
  PROVE  Chained(rs, [got EXCEPT ![k] = new])
<1>1. \A n \in DOMAIN rs : rs[n].key # k
  BY ReceiptOfRelease
<1>3. \A n \in DOMAIN rs : [got EXCEPT ![k] = new][rs[n].key] = got[rs[n].key]
  BY <1>1
<1> QED BY <1>3 DEF Chained

\* The releases rs and one more; the transaction that adds it.
Followed(rs, k, v) ==
  Append([n \in DOMAIN rs |-> [rs[n] EXCEPT !.active = FALSE]],
         [key |-> k, version |-> v, active |-> TRUE])

LEMMA ReleaseAdded ==
  ASSUME NEW rs \in Seq(ReleaseRows), rs # <<>>, NEW got, DOMAIN got = PublishKeys,
         Chained(rs, got), NEW k \in PublishKeys, got[k] = NoReceipt, NEW v \in Releasable,
         v # rs[Len(rs)].version, NEW new,
         new = ReceiptOf([key |-> k, version |-> v, expected |-> rs[Len(rs)].version],
                         TRUE, rs[Len(rs)].version)
  PROVE  /\ Chained(Followed(rs, k, v), [got EXCEPT ![k] = new])
         /\ Followed(rs, k, v) \in Seq(ReleaseRows)
         /\ Followed(rs, k, v) # <<>>
         /\ \A n \in DOMAIN Followed(rs, k, v) :
              \/ Followed(rs, k, v)[n].version = v
              \/ \E m \in DOMAIN rs : Followed(rs, k, v)[n].version = rs[m].version
<1> DEFINE old == [n \in DOMAIN rs |-> [rs[n] EXCEPT !.active = FALSE]]
           last == [key |-> k, version |-> v, active |-> TRUE]
           more == Followed(rs, k, v)
           count == Len(rs)
<1>1. count \in Nat /\ count > 0 /\ DOMAIN rs = 1..count
  OBVIOUS
<1>2. \A n \in 1..count : rs[n] \in ReleaseRows
  BY <1>1
<1>3. \A n \in 1..count : /\ old[n] \in ReleaseRows /\ old[n].active = FALSE
                          /\ old[n].key = rs[n].key /\ old[n].version = rs[n].version
  BY <1>1, <1>2 DEF ReleaseRows
<1>4. old \in Seq(ReleaseRows) /\ Len(old) = count
  <2>1. old \in [1..count -> ReleaseRows]
    BY <1>1, <1>3
  <2> QED BY <2>1, <1>1, SeqDef, LenProperties
<1>5. last \in ReleaseRows
  BY DEF ReleaseRows
<1> HIDE DEF old, last
<1>6. /\ more \in Seq(ReleaseRows) /\ Len(more) = count + 1 /\ DOMAIN more = 1..(count + 1)
      /\ more[count + 1] = last
      /\ \A n \in 1..count : more[n] = old[n]
  BY <1>1, <1>4, <1>5, AppendProperties DEF old, last, Followed
<1> HIDE DEF more, count
<1>7. ASSUME NEW n \in 1..count
      PROVE  /\ more[n].key = rs[n].key /\ more[n].version = rs[n].version
             /\ more[n].active = FALSE
  BY <1>3, <1>6
<1>8. last.key = k /\ last.version = v /\ last.active = TRUE
  BY DEF last
<1>9. \A n \in DOMAIN rs : rs[n].key # k
  BY ReceiptOfRelease
<1> DEFINE after == [got EXCEPT ![k] = new]
<1>10. after[k] = new /\ \A n \in DOMAIN rs : after[rs[n].key] = got[rs[n].key]
  <2>1. \A n \in DOMAIN rs : rs[n].key \in PublishKeys
    BY <1>1, <1>2 DEF ReleaseRows
  <2> QED BY <2>1, <1>9
<1> HIDE DEF after
<1>11. Chained(more, after)
  <2> SUFFICES ASSUME NEW n \in 1..(count + 1)
               PROVE  LET r == more[n]
                          before == IF n = 1 THEN NoVersion ELSE more[n - 1].version
                          request == [key |-> r.key, version |-> r.version, expected |-> before]
                      IN /\ after[r.key] = ReceiptOf(request, TRUE, before)
                         /\ r.active <=> n = Len(more)
                         /\ r.version # before
    BY <1>6 DEF Chained
  <2>1. CASE n = count + 1
    <3>1. n # 1 /\ n - 1 = count /\ count \in 1..count
      BY <1>1, <2>1
    <3>2. more[n - 1].version = rs[Len(rs)].version
      BY <3>1, <1>7 DEF count
    <3> QED BY <2>1, <3>1, <3>2, <1>6, <1>8, <1>10
  <2>2. CASE n \in 1..count
    <3>1. n \in DOMAIN rs /\ (n # 1 => n - 1 \in 1..count) /\ n # Len(more) /\ n # count + 1
      BY <1>1, <1>6, <2>2
    <3> DEFINE b == IF n = 1 THEN NoVersion ELSE rs[n - 1].version
    <3>2. (IF n = 1 THEN NoVersion ELSE more[n - 1].version) = b
      BY <3>1, <1>7
    <3>3. /\ got[rs[n].key] =
               ReceiptOf([key |-> rs[n].key, version |-> rs[n].version, expected |-> b], TRUE, b)
          /\ rs[n].version # b
      BY <3>1 DEF Chained
    <3> HIDE DEF b
    <3>4. after[rs[n].key] = got[rs[n].key]
      BY <3>1, <1>10
    <3>5. more[n].key = rs[n].key /\ more[n].version = rs[n].version /\ more[n].active = FALSE
      BY <2>2, <1>7
    <3> QED BY <3>1, <3>2, <3>3, <3>4, <3>5
  <2>3. n = count + 1 \/ n \in 1..count
    BY <1>1
  <2> QED BY <2>1, <2>2, <2>3
<1>12. ASSUME NEW n \in DOMAIN more
       PROVE  more[n].version = v \/ \E m \in DOMAIN rs : more[n].version = rs[m].version
  <2>1. n = count + 1 \/ n \in 1..count
    BY <1>1, <1>6
  <2> QED BY <2>1, <1>1, <1>6, <1>7, <1>8
<1>13. more # <<>>
  BY <1>1, <1>6
<1> QED BY <1>6, <1>11, <1>12, <1>13 DEF after, more

-----------------------------------------------------------------------------
LEMMA ReleasedVersions ==
  ASSUME ReleaseTyped
  PROVE  \A n \in DOMAIN releases :
           releases[n].version \in Releasable /\ releases[n].key \in PublishKeys
<1>1. \A n \in DOMAIN releases : releases[n] \in ReleaseRows
  BY DEF ReleaseTyped
<1> QED BY <1>1 DEF ReleaseRows

\* A step of the preparation, or of the operator.
LEMMA PreparationStep ==
  ASSUME ReleasedInv, KeepsReady, UNCHANGED <<releaseTables, publisher>>,
         DOMAIN prepared' = Releasable, DOMAIN seedCard' = Releasable \X Stores
  PROVE  ReleasedInv'
<1>1. ReleaseTyped'
  BY DEF ReleasedInv, ReleaseTyped, releaseTables
<1>2. FoundReady'
  <2> SUFFICES ASSUME NEW p \in Publishers, publisher'[p].at = "publish"
               PROVE  Asks(p)' \in {Asks(p)} /\ Asks(p).version \in Releasable
                      /\ MayBePublic(Asks(p).version)'
    BY DEF FoundReady, MayBePublic, Asks
  <2>1. Asks(p).version \in Releasable /\ MayBePublic(Asks(p).version)
    BY DEF ReleasedInv, FoundReady
  <2> QED BY <2>1, ReadyStays DEF MayBePublic, Asks
<1>3. ReleasesFollowRequests'
  BY DEF ReleasedInv, ReleasesHold, ReleasesFollowRequests, releaseTables
<1>4. ReleasedIsReady'
  BY ReadyStays, ReleasedVersions
     DEF ReleasedInv, ReleasesHold, ReleasedIsReady, releaseTables
<1> QED BY <1>1, <1>2, <1>3, <1>4 DEF ReleasedInv, ReleasesHold

\* A step of a publishing thread that leaves the tables alone.
LEMMA AskingStep ==
  ASSUME ReleasedInv, UNCHANGED <<releaseTables, prepared, seedCard>>,
         NEW p \in Publishers, NEW new \in [at : PublisherPlaces, request : AskedFor],
         publisher' = [publisher EXCEPT ![p] = new],
         new.at = "publish" => new.request.version \in Releasable
                               /\ MayBePublic(new.request.version)
  PROVE  ReleasedInv'
<1>1. ReleaseTyped'
  BY DEF ReleasedInv, ReleaseTyped, releaseTables
<1>2. FoundReady'
  <2> SUFFICES ASSUME NEW q \in Publishers, publisher'[q].at = "publish"
               PROVE  \E v : /\ v = publisher'[q].request.version
                             /\ v \in Releasable /\ v \in Eligible /\ Ready(v)'
    BY DEF FoundReady, MayBePublic, Asks, Ready, ActionReady
  <2> DEFINE v == publisher'[q].request.version
  <2>1. v \in Releasable /\ MayBePublic(v)
    BY DEF ReleasedInv, FoundReady, ReleaseTyped, Asks
  <2>2. \A u : Ready(u) => Ready(u)'
    BY DEF Ready, ActionReady
  <2> HIDE DEF v
  <2>3. v \in Releasable /\ v \in Eligible /\ Ready(v)
    BY <2>1 DEF MayBePublic
  <2> QED BY <2>2, <2>3 DEF v
<1>3. ReleasesFollowRequests'
  BY DEF ReleasedInv, ReleasesHold, ReleasesFollowRequests, releaseTables
<1>4. ReleasedIsReady'
  BY DEF ReleasedInv, ReleasesHold, ReleasedIsReady, Ready, ActionReady, releaseTables
<1> QED BY <1>1, <1>2, <1>3, <1>4 DEF ReleasedInv, ReleasesHold

LEMMA IdlePublisherTyped ==
  IdlePublisher \in [at : PublisherPlaces, request : AskedFor] /\ IdlePublisher.at = "idle"
  BY DEF IdlePublisher, PublisherPlaces, AskedFor, SeedRequest

LEMMA PublisherTyped ==
  ASSUME ReleaseTyped, NEW p \in Publishers
  PROVE  /\ publisher[p] \in [at : PublisherPlaces, request : AskedFor]
         /\ publisher = [q \in Publishers |-> publisher[q]]
         /\ Asks(p) \in AskedFor
         /\ \A a \in PublisherPlaces :
              /\ [publisher[p] EXCEPT !.at = a] \in [at : PublisherPlaces, request : AskedFor]
              /\ [publisher[p] EXCEPT !.at = a].at = a
              /\ [publisher[p] EXCEPT !.at = a].request = Asks(p)
  BY DEF ReleaseTyped, Asks

\* A thread answers, dies, or goes on to a place other than the transaction.
LEMMA ReplyStep ==
  ASSUME ReleasedInv, UNCHANGED <<releaseTables, prepared, seedCard>>, NEW p \in Publishers,
         Reply(p)
  PROVE  ReleasedInv'
  BY AskingStep, IdlePublisherTyped DEF Reply

LEMMA ProceedStep ==
  ASSUME ReleasedInv, UNCHANGED <<releaseTables, prepared, seedCard>>, NEW p \in Publishers,
         NEW a \in PublisherPlaces, Proceed(p, a),
         a = "publish" => Asks(p).version \in Releasable /\ MayBePublic(Asks(p).version)
  PROVE  ReleasedInv'
<1> DEFINE new == [publisher[p] EXCEPT !.at = a]
<1>1. new \in [at : PublisherPlaces, request : AskedFor] /\ new.at = a /\ new.request = Asks(p)
  BY PublisherTyped DEF ReleasedInv
<1>2. publisher' = [publisher EXCEPT ![p] = new]
  BY DEF Proceed
<1> HIDE DEF new
<1> QED BY <1>1, <1>2, AskingStep

LEMMA AskToPublishStep ==
  ASSUME ReleasedInv, NEW p \in Publishers, NEW request \in PublishRequests,
         AskToPublish(p, request)
  PROVE  ReleasedInv'
<1> DEFINE new == [at |-> "receipt", request |-> request]
<1>1. new \in [at : PublisherPlaces, request : AskedFor] /\ new.at # "publish"
  BY DEF PublisherPlaces, AskedFor
<1>2. publisher' = [publisher EXCEPT ![p] = new] /\ UNCHANGED <<releaseTables, prepared, seedCard>>
  BY DEF AskToPublish
<1> HIDE DEF new
<1> QED BY <1>1, <1>2, AskingStep

LEMMA LookForReceiptStep ==
  ASSUME ReleasedInv, NEW p \in Publishers, LookForReceipt(p)
  PROVE  ReleasedInv'
<1>1. UNCHANGED <<releaseTables, prepared, seedCard>> /\ (Proceed(p, "readiness") \/ Reply(p))
  BY DEF LookForReceipt
<1> QED BY <1>1, ProceedStep, ReplyStep DEF PublisherPlaces

LEMMA CheckReadinessStep ==
  ASSUME ReleasedInv, NEW p \in Publishers, CheckReadiness(p)
  PROVE  ReleasedInv'
<1>1. UNCHANGED <<releaseTables, prepared, seedCard>>
  BY DEF CheckReadiness
<1>2. CASE MayBePublic(Asks(p).version)
  <2>1. Asks(p).version \in Releasable
    BY <1>2, ReleaseSets DEF MayBePublic
  <2>2. Proceed(p, "publish")
    BY <1>2 DEF CheckReadiness
  <2> QED BY <1>1, <1>2, <2>1, <2>2, ProceedStep DEF PublisherPlaces
<1>3. CASE ~MayBePublic(Asks(p).version)
  BY <1>1, <1>3, ReplyStep DEF CheckReadiness
<1> QED BY <1>2, <1>3

\* The requests and their receipts.
LEMMA AskedRequest ==
  ASSUME NEW r \in AskedFor
  PROVE  /\ r = [key |-> r.key, version |-> r.version, expected |-> r.expected]
         /\ r.key \in PublishKeys
  BY RequestsNameVersions DEF AskedFor, SeedRequest, PublishKeys

\* The transaction.
LEMMA ReleaseStep ==
  ASSUME ReleasedInv, NEW p \in Publishers, NEW o, Release(p, o)
  PROVE  ReleasedInv'
<1> DEFINE request == Asks(p)
           created == Public # request.version
           publishes == o # "fail" /\ Disposition(p) = "new" /\ AsExpected(p)
           entry == ReceiptOf(request, created, Public)
<1>1. /\ releases' = IF publishes /\ created
                     THEN Activated(request.key, request.version) ELSE releases
      /\ receipts' = IF publishes THEN [receipts EXCEPT ![request.key] = entry] ELSE receipts
      /\ Reply(p) \/ Proceed(p, "look_again")
      /\ UNCHANGED <<prepared, seedCard>>
      /\ publisher[p].at = "publish"
  BY DEF Release, Publishing
<1>2. /\ request = [key |-> request.key, version |-> request.version,
                    expected |-> request.expected]
      /\ request.key \in PublishKeys
  BY AskedRequest, PublisherTyped DEF ReleasedInv
<1>3. request.version \in Releasable /\ request.version \in Eligible /\ Ready(request.version)
  BY <1>1 DEF ReleasedInv, FoundReady, MayBePublic
<1>4. Len(releases) \in DOMAIN releases /\ Public = releases[Len(releases)].version
  BY LastIsPublic DEF ReleasedInv, ReleasesHold
<1>5. Chained(releases, receipts) /\ DOMAIN receipts = PublishKeys
      /\ releases \in Seq(ReleaseRows) /\ releases # <<>>
  BY ChainIsReleases DEF ReleasedInv, ReleasesHold, ReleaseTyped
<1>6. publishes => receipts[request.key] = NoReceipt /\ request.expected = Public
  <2>1. Disposition(p) = "new" => ReceiptFor(p) = NoReceipt
    BY DEF Disposition
  <2> QED BY <2>1 DEF ReceiptFor, AsExpected
<1> HIDE DEF request, created, publishes, entry
<1>7. /\ Chained(releases', receipts') /\ DOMAIN receipts' = PublishKeys
      /\ releases' \in Seq(ReleaseRows) /\ releases' # <<>>
      /\ \A n \in DOMAIN releases' :
           \/ releases'[n].version = request.version
           \/ \E m \in DOMAIN releases : releases'[n].version = releases[m].version
  <2>1. CASE ~publishes
    BY <1>1, <1>5, <2>1
  <2>2. CASE publishes /\ ~created
    <3>1. Chained(releases, [receipts EXCEPT ![request.key] = entry])
      BY <1>5, <1>6, <2>2, ReceiptAdded
    <3> QED BY <1>1, <1>5, <2>2, <3>1
  <2>3. CASE publishes /\ created
    <3>1. request.version # releases[Len(releases)].version
      BY <1>4, <2>3 DEF created
    <3>2. entry = ReceiptOf([key |-> request.key, version |-> request.version,
                             expected |-> releases[Len(releases)].version],
                            TRUE, releases[Len(releases)].version)
      <4>1. created = TRUE
        BY <2>3 DEF created
      <4>2. request = [key |-> request.key, version |-> request.version,
                       expected |-> releases[Len(releases)].version]
        BY <1>2, <1>4, <1>6, <2>3
      <4> QED BY <1>4, <4>1, <4>2 DEF entry
    <3> DEFINE more == Followed(releases, request.key, request.version)
    <3>3. /\ Chained(more, [receipts EXCEPT ![request.key] = entry])
          /\ more \in Seq(ReleaseRows)
          /\ more # <<>>
          /\ \A n \in DOMAIN more :
               \/ more[n].version = request.version
               \/ \E m \in DOMAIN releases : more[n].version = releases[m].version
      <4>1. receipts[request.key] = NoReceipt
        BY <1>6, <2>3
      <4> QED BY <1>2, <1>3, <1>5, <3>1, <3>2, <4>1, ReleaseAdded
    <3>4. releases' = more
      BY <1>1, <2>3 DEF Activated, Followed
    <3> HIDE DEF more
    <3> QED BY <1>1, <1>5, <2>3, <3>3, <3>4
  <2> QED BY <2>1, <2>2, <2>3
<1>8. publisher' \in [Publishers -> [at : PublisherPlaces, request : AskedFor]]
      /\ (publisher'[p].at # "publish")
      /\ \A q \in Publishers \ {p} : publisher'[q] = publisher[q]
  <2>1. "look_again" \in PublisherPlaces
    BY DEF PublisherPlaces
  <2>2. PICK new \in [at : PublisherPlaces, request : AskedFor] :
          new.at # "publish" /\ publisher' = [publisher EXCEPT ![p] = new]
    BY <1>1, <2>1, IdlePublisherTyped, PublisherTyped DEF ReleasedInv, Reply, Proceed
  <2>3. publisher \in [Publishers -> [at : PublisherPlaces, request : AskedFor]]
    BY DEF ReleasedInv, ReleaseTyped
  <2> QED BY <2>2, <2>3
<1>9. \A v : Ready(v) => Ready(v)'
  BY <1>1 DEF Ready, ActionReady
<1>10. ReleaseTyped'
  BY <1>1, <1>7, <1>8 DEF ReleasedInv, ReleaseTyped
<1>11. FoundReady'
  <2> SUFFICES ASSUME NEW q \in Publishers, publisher'[q].at = "publish"
               PROVE  \E v : /\ v = publisher'[q].request.version
                             /\ v \in Releasable /\ v \in Eligible /\ Ready(v)'
    BY DEF FoundReady, MayBePublic, Asks, Ready, ActionReady
  <2> DEFINE v == publisher[q].request.version
  <2>1. v \in Releasable /\ MayBePublic(v) /\ v = publisher'[q].request.version
    BY <1>8 DEF ReleasedInv, FoundReady, Asks
  <2> HIDE DEF v
  <2>2. v \in Eligible /\ Ready(v)
    BY <2>1 DEF MayBePublic
  <2> QED BY <1>9, <2>1, <2>2
<1>12. ReleasesFollowRequests'
  BY <1>7 DEF ReleasesFollowRequests, Chained
<1>13. ReleasedIsReady'
  <2> SUFFICES ASSUME NEW n \in DOMAIN releases'
               PROVE  \E v : v = releases'[n].version /\ Ready(v)'
    BY DEF ReleasedIsReady, Ready, ActionReady
  <2>1. \A m \in DOMAIN releases : \E v : v = releases[m].version /\ Ready(v)
    BY DEF ReleasedInv, ReleasesHold, ReleasedIsReady
  <2> QED BY <1>3, <1>7, <1>9, <2>1
<1> QED BY <1>10, <1>11, <1>12, <1>13 DEF ReleasedInv, ReleasesHold

LEMMA ReleasedStep == ReleasedInv /\ [ReleaseNext]_releaseVars => ReleasedInv'
<1> SUFFICES ASSUME ReleasedInv, [ReleaseNext]_releaseVars PROVE ReleasedInv'
  OBVIOUS
<1>0. /\ ReleaseTyped
      /\ DOMAIN prepared = Releasable /\ DOMAIN seedCard = Releasable \X Stores
  BY DEF ReleasedInv, ReleaseTyped
<1>1. CASE UNCHANGED releaseVars
  <2>1. UNCHANGED <<releaseTables, publisher, prepared, seedCard>>
    BY <1>1 DEF releaseVars, releaseTables
  <2> QED BY <1>0, <2>1, UnchangedKeeps, PreparationStep
<1>2. ASSUME NEW p \in Preparers, NEW v \in Releasable, Prepare(p, v) PROVE ReleasedInv'
  <2>1. UNCHANGED <<releaseTables, publisher, prepared, seedCard>>
    BY <1>2 DEF Prepare
  <2> QED BY <1>0, <2>1, UnchangedKeeps, PreparationStep
<1>3. ASSUME NEW p \in Preparers, NEW o, CalculateItem(p, o) PROVE ReleasedInv'
  BY <1>0, <1>3, CalculateKeeps, PreparationStep
<1>4. ASSUME NEW p \in Preparers, NEW o, SeedCommand(p, o) PROVE ReleasedInv'
  BY <1>0, <1>4, SeedKeeps, PreparationStep
<1>5. ASSUME NEW p \in Preparers, BeginActions(p) \/ PreparerDies(p) PROVE ReleasedInv'
  <2>1. UNCHANGED <<releaseTables, publisher, prepared, seedCard>>
    BY <1>5 DEF BeginActions, PreparerDies
  <2> QED BY <1>0, <2>1, UnchangedKeeps, PreparationStep
<1>6. ASSUME NEW v \in Releasable, NEW s \in Stores, NEW c, OperatorDecides(v, s, c)
      PROVE  ReleasedInv'
  BY <1>0, <1>6, DecisionKeeps, PreparationStep
<1>7. ASSUME NEW p \in Publishers, LookAgain(p) \/ PublisherDies(p) PROVE ReleasedInv'
  BY <1>7, ReplyStep DEF LookAgain, PublisherDies
<1> QED BY <1>1, <1>2, <1>3, <1>4, <1>5, <1>6, <1>7, AskToPublishStep, LookForReceiptStep,
           CheckReadinessStep, ReleaseStep DEF ReleaseNext

LEMMA ReleasedInit == ReleaseInit => ReleasedInv
<1> SUFFICES ASSUME ReleaseInit PROVE ReleasedInv
  OBVIOUS
<1> DEFINE first == [key |-> SeedKey, version |-> SeedVersion, active |-> TRUE]
<1>1. releases = <<first>> /\ first \in ReleaseRows
  BY ReleaseSets DEF ReleaseInit, ReleaseRows, PublishKeys
<1>2. /\ releases \in Seq(ReleaseRows) /\ releases # <<>> /\ Len(releases) = 1
      /\ DOMAIN releases = {1} /\ releases[1] = first
  <2> HIDE DEF first
  <2> QED BY <1>1
<1>3. receipts[SeedKey] = ReceiptOf(IdlePublisher.request, TRUE, NoVersion)
      /\ DOMAIN receipts = PublishKeys
  BY DEF ReleaseInit, PublishKeys
<1>4. ReleaseTyped
  <2>1. publisher \in [Publishers -> [at : PublisherPlaces, request : AskedFor]]
    BY IdlePublisherTyped DEF ReleaseInit
  <2>2. DOMAIN prepared = Releasable
    BY DEF ReleaseInit
  <2>3. DOMAIN seedCard = Releasable \X Stores
    BY DEF ReleaseInit
  <2> QED BY <1>2, <1>3, <2>1, <2>2, <2>3 DEF ReleaseTyped
<1>5. Ready(SeedVersion)
  <2>1. prepared[SeedVersion] = Calculations \X Stores
    BY ReleaseSets DEF ReleaseInit
  <2>2. ASSUME NEW s \in Stores PROVE seedCard[SeedVersion, s] = SeededCard
    BY ReleaseSets DEF ReleaseInit
  <2>3. SeededCard.status = "approved"
    BY DEF SeededCard
  <2> QED BY <2>1, <2>2, <2>3 DEF Ready, ActionReady
<1>6. FoundReady
  BY DEF FoundReady, ReleaseInit, IdlePublisher
<1>7. ReleasesFollowRequests
  <2>1. first.key = SeedKey /\ first.version = SeedVersion /\ first.active = TRUE
    OBVIOUS
  <2>2. IdlePublisher.request
          = [key |-> SeedKey, version |-> SeedVersion, expected |-> NoVersion]
    BY DEF IdlePublisher
  <2>3. SeedVersion # NoVersion
    BY ReleaseSets, NoVersionIsNone
  <2> HIDE DEF first
  <2> QED BY <1>2, <1>3, <2>1, <2>2, <2>3 DEF ReleasesFollowRequests
<1>8. ReleasedIsReady
  BY <1>2, <1>5 DEF ReleasedIsReady
<1> QED BY <1>4, <1>6, <1>7, <1>8 DEF ReleasedInv, ReleasesHold

\* PublicReleaseService.publish (public_release_service.py:161-278) and the
\* preparation: for any number of threads, versions, requests and faults, each release
\* was asked for by the request of its receipt, which displaced the version that it
\* expected, and whatever was ever public can be served, although readiness is read
\* before the transaction.
THEOREM ReleasesFollow == ReleaseSpec => []ReleasesHold
<1>1. ReleasedInv => ReleasesHold
  BY DEF ReleasedInv
<1> QED BY <1>1, ReleasedInit, ReleasedStep, PTL DEF ReleaseSpec

-----------------------------------------------------------------------------
(***************************************************************************)
(* Induction, with a set for the predicate                                 *)
(***************************************************************************)
LEMMA LeastNatural ==
  ASSUME NEW T, T \subseteq Nat, T # {}
  PROVE  \E x \in T : \A y \in T : x <= y
<1>1. PICK x \in T : \A y \in T : ~ (<<y, x>> \in OpToRel(<, Nat))
  BY NatLessThanWellFounded, WFMin
<1>2. \A y \in T : ~(y < x)
  BY <1>1 DEF OpToRel
<1> QED BY <1>2

LEMMA InductionOnNaturals ==
  ASSUME NEW P, 0 \in P, \A n \in Nat : n \in P => n + 1 \in P
  PROVE  Nat \subseteq P
<1> SUFFICES ASSUME Nat \ P # {} PROVE FALSE
  OBVIOUS
<1>1. PICK n \in Nat \ P : \A m \in Nat \ P : n <= m
  BY LeastNatural
<1>2. n # 0 /\ n - 1 \in Nat /\ n - 1 \in P
  BY <1>1
<1>3. (n - 1) + 1 \in P
  BY <1>2
<1> QED BY <1>1, <1>3

LEMMA InductionOnSets ==
  ASSUME NEW S, IsFiniteSet(S), NEW P, {} \in P,
         \A T \in SUBSET S : T # {} /\ (\A x \in T : T \ {x} \in P) => T \in P
  PROVE  SUBSET S \subseteq P
<1> SUFFICES ASSUME NEW A \in SUBSET S, A \notin P PROVE FALSE
  OBVIOUS
<1> DEFINE Sizes == {n \in Nat : \E T \in SUBSET S : T \notin P /\ Cardinality(T) = n}
<1>1. \A T \in SUBSET S : IsFiniteSet(T) /\ Cardinality(T) \in Nat
  BY FS_Subset, FS_CardinalityType
<1>2. Sizes # {} /\ Sizes \subseteq Nat
  BY <1>1
<1>3. PICK n \in Sizes : \A m \in Sizes : n <= m
  <2> HIDE DEF Sizes
  <2> QED BY <1>2, LeastNatural
<1>4. PICK T \in SUBSET S : T \notin P /\ Cardinality(T) = n
  BY <1>3
<1>5. T # {}
  BY <1>4
<1>6. PICK x \in T : T \ {x} \notin P
  BY <1>4, <1>5
<1>7. Cardinality(T \ {x}) = n - 1 /\ Cardinality(T \ {x}) \in Nat
  BY <1>1, <1>4, <1>6, FS_RemoveElement
<1>8. n - 1 \in Sizes
  BY <1>6, <1>7
<1> QED BY <1>2, <1>3, <1>8

-----------------------------------------------------------------------------
(***************************************************************************)
(* Sums                                                                    *)
(***************************************************************************)
First(S) == CHOOSE x \in S : TRUE
SumsUp(f, it, sets) ==
  it = [s \in sets |-> IF s = {} THEN 0 ELSE f[First(s)] + it[s \ {First(s)}]]

LEMMA SumDef ==
  ASSUME NEW f, NEW S
  PROVE  SumFunctionOnSet(f, S) = (CHOOSE it : SumsUp(f, it, SUBSET S))[S]
BY DEF SumFunctionOnSet, FoldFunctionOnSet, MapThenFoldSet, SumsUp, First

LEMMA SumExists ==
  ASSUME NEW f, NEW S, IsFiniteSet(S)
  PROVE  \E it : SumsUp(f, it, SUBSET S)
<1> DEFINE Upto(n) == {s \in SUBSET S : Cardinality(s) <= n}
           P == {n \in Nat : \E it : SumsUp(f, it, Upto(n))}
<1>0. \A s \in SUBSET S : IsFiniteSet(s) /\ Cardinality(s) \in Nat
  BY FS_Subset, FS_CardinalityType
<1>1. 0 \in P
  <2>1. Upto(0) = {{}}
    BY <1>0, FS_EmptySet
  <2>2. SumsUp(f, [s \in {{}} |-> 0], {{}})
    BY DEF SumsUp
  <2> QED BY <2>1, <2>2
<1>2. ASSUME NEW n \in Nat, n \in P PROVE n + 1 \in P
  <2>1. PICK it : SumsUp(f, it, Upto(n))
    BY <1>2
  <2> DEFINE new == [s \in Upto(n + 1) |->
                       IF s = {} THEN 0 ELSE f[First(s)] + it[s \ {First(s)}]]
  <2>2. ASSUME NEW s \in Upto(n) PROVE s \in Upto(n + 1) /\ new[s] = it[s]
    <3>1. s \in Upto(n + 1)
      BY <1>0
    <3> QED BY <2>1, <3>1 DEF SumsUp
  <2>3. ASSUME NEW s \in Upto(n + 1), s # {} PROVE s \ {First(s)} \in Upto(n)
    <3>1. First(s) \in s
      BY <2>3 DEF First
    <3>2. Cardinality(s \ {First(s)}) = Cardinality(s) - 1
      BY <1>0, <3>1, FS_RemoveElement
    <3> QED BY <1>0, <3>2
  <2>4. SumsUp(f, new, Upto(n + 1))
    <3>1. \A s \in Upto(n + 1) : s # {} =>
            new[s \ {First(s)}] = it[s \ {First(s)}]
      BY <2>2, <2>3
    <3>2. PICK up : up = Upto(n + 1)
      OBVIOUS
    <3>3. new = [s \in up |-> IF s = {} THEN 0 ELSE f[First(s)] + new[s \ {First(s)}]]
      <4>1. \A s \in up : (IF s = {} THEN 0 ELSE f[First(s)] + it[s \ {First(s)}])
                        = (IF s = {} THEN 0 ELSE f[First(s)] + new[s \ {First(s)}])
        BY <3>1, <3>2
      <4>2. new = [s \in up |-> IF s = {} THEN 0 ELSE f[First(s)] + it[s \ {First(s)}]]
        BY <3>2
      <4> HIDE DEF new
      <4> QED BY <4>1, <4>2
    <3>4. SumsUp(f, new, up)
      <4> HIDE DEF new, Upto
      <4> QED BY <3>3 DEF SumsUp
    <3> QED BY <3>2, <3>4
  <2>5. \E j : SumsUp(f, j, Upto(n + 1))
    <3> HIDE DEF new, Upto
    <3> QED BY <2>4
  <2> QED BY <2>5
<1>3. Cardinality(S) \in P
  <2> HIDE DEF P
  <2> QED BY <1>0, <1>1, <1>2, InductionOnNaturals
<1>4. Upto(Cardinality(S)) = SUBSET S
  <2> SUFFICES ASSUME NEW s \in SUBSET S PROVE Cardinality(s) <= Cardinality(S)
    OBVIOUS
  <2> QED BY FS_Subset
<1> QED BY <1>3, <1>4

LEMMA SumsAgree ==
  ASSUME NEW f, NEW S, NEW T, IsFiniteSet(S), T \subseteq S, NEW it, NEW jt,
         SumsUp(f, it, SUBSET S), SumsUp(f, jt, SUBSET T)
  PROVE  it[T] = jt[T]
<1> DEFINE P == {s \in SUBSET T : it[s] = jt[s]}
<1>1. IsFiniteSet(T)
  BY FS_Subset
<1>2. {} \in P
  BY DEF SumsUp
<1>3. ASSUME NEW s \in SUBSET T, s # {}, \A x \in s : s \ {x} \in P PROVE s \in P
  <2>1. First(s) \in s
    BY <1>3 DEF First
  <2>2. it[s \ {First(s)}] = jt[s \ {First(s)}]
    BY <1>3, <2>1
  <2> QED BY <1>3, <2>2 DEF SumsUp
<1>4. T \in P
  <2> HIDE DEF P
  <2> QED BY <1>1, <1>2, <1>3, InductionOnSets
<1> QED BY <1>4

LEMMA SumOfNone == \A f : SumFunctionOnSet(f, {}) = 0
<1> SUFFICES ASSUME NEW f PROVE SumFunctionOnSet(f, {}) = 0
  OBVIOUS
<1>1. \E it : SumsUp(f, it, SUBSET {})
  BY SumExists, FS_EmptySet
<1> QED BY <1>1, SumDef DEF SumsUp

LEMMA SumOfFirst ==
  ASSUME NEW f, NEW S, IsFiniteSet(S), S # {}
  PROVE  SumFunctionOnSet(f, S) =
           f[First(S)] + SumFunctionOnSet(f, S \ {First(S)})
<1>1. PICK T : T = S \ {First(S)}
  OBVIOUS
<1>2. First(S) \in S /\ T \in SUBSET S /\ IsFiniteSet(T)
  BY <1>1, FS_Subset DEF First
<1>3. PICK it : it = CHOOSE i : SumsUp(f, i, SUBSET S)
  OBVIOUS
<1>4. PICK jt : jt = CHOOSE j : SumsUp(f, j, SUBSET T)
  OBVIOUS
<1>5. SumsUp(f, it, SUBSET S) /\ SumsUp(f, jt, SUBSET T)
  BY <1>2, <1>3, <1>4, SumExists
<1>6. it[T] = jt[T]
  <2>1. IsFiniteSet(S) /\ T \subseteq S
    BY <1>2
  <2>2. \A i, j : SumsUp(f, i, SUBSET S) /\ SumsUp(f, j, SUBSET T) => i[T] = j[T]
    BY <2>1, SumsAgree
  <2> QED BY <1>5, <2>2
<1>7. it[S] = f[First(S)] + it[T]
  BY <1>1, <1>5 DEF SumsUp
<1> QED BY <1>1, <1>3, <1>4, <1>6, <1>7, SumDef

LEMMA SumTyped ==
  ASSUME NEW f, NEW S, IsFiniteSet(S), \A x \in S : f[x] \in Int
  PROVE  \A T \in SUBSET S : SumFunctionOnSet(f, T) \in Int
<1> DEFINE P == {T \in SUBSET S : SumFunctionOnSet(f, T) \in Int}
<1>1. {} \in P
  BY SumOfNone
<1>2. ASSUME NEW T \in SUBSET S, T # {}, \A x \in T : T \ {x} \in P PROVE T \in P
  <2>1. First(T) \in T /\ IsFiniteSet(T)
    BY <1>2, FS_Subset DEF First
  <2>2. f[First(T)] \in Int /\ SumFunctionOnSet(f, T \ {First(T)}) \in Int
    BY <1>2, <2>1
  <2>3. SumFunctionOnSet(f, T) = f[First(T)] + SumFunctionOnSet(f, T \ {First(T)})
    BY <1>2, <2>1, SumOfFirst
  <2> QED BY <2>2, <2>3
<1>3. SUBSET S \subseteq P
  <2> HIDE DEF P
  <2> QED BY <1>1, <1>2, InductionOnSets
<1> QED BY <1>3

\* Whichever element comes first.
LEMMA SumOfOne ==
  ASSUME NEW f, NEW S, IsFiniteSet(S), \A x \in S : f[x] \in Int, NEW y \in S
  PROVE  SumFunctionOnSet(f, S) = f[y] + SumFunctionOnSet(f, S \ {y})
<1> DEFINE Splits(T) ==
             \A x \in T : SumFunctionOnSet(f, T) = f[x] + SumFunctionOnSet(f, T \ {x})
           P == {T \in SUBSET S : Splits(T)}
<1>1. {} \in P
  OBVIOUS
<1>2. ASSUME NEW T \in SUBSET S, T # {}, \A x \in T : T \ {x} \in P PROVE T \in P
  <2> SUFFICES ASSUME NEW x \in T
               PROVE  SumFunctionOnSet(f, T) = f[x] + SumFunctionOnSet(f, T \ {x})
    OBVIOUS
  <2>1. PICK c : c = First(T)
    OBVIOUS
  <2>2. c \in T /\ IsFiniteSet(T)
    BY <2>1, FS_Subset DEF First
  <2>3. SumFunctionOnSet(f, T) = f[c] + SumFunctionOnSet(f, T \ {c})
    BY <2>1, <2>2, SumOfFirst
  <2>4. CASE x # c
    <3>1. (T \ {c}) \ {x} = (T \ {x}) \ {c}
      OBVIOUS
    <3>2. SumFunctionOnSet(f, T \ {c}) = f[x] + SumFunctionOnSet(f, (T \ {c}) \ {x})
      BY <1>2, <2>2, <2>4
    <3>3. SumFunctionOnSet(f, T \ {x}) = f[c] + SumFunctionOnSet(f, (T \ {x}) \ {c})
      BY <1>2, <2>2, <2>4
    <3>4. /\ f[x] \in Int /\ f[c] \in Int
      BY <2>2
    <3>5. SumFunctionOnSet(f, (T \ {c}) \ {x}) \in Int
      <4>1. (T \ {c}) \ {x} \in SUBSET S
        OBVIOUS
      <4> QED BY <4>1, SumTyped
    <3>6. SumFunctionOnSet(f, T) = f[c] + (f[x] + SumFunctionOnSet(f, (T \ {c}) \ {x}))
      BY <2>3, <3>2
    <3>7. SumFunctionOnSet(f, T \ {x}) = f[c] + SumFunctionOnSet(f, (T \ {c}) \ {x})
      BY <3>1, <3>3
    <3> QED BY <3>4, <3>5, <3>6, <3>7
  <2> QED BY <2>3, <2>4
<1>3. SUBSET S \subseteq P
  <2> HIDE DEF P
  <2> QED BY <1>1, <1>2, InductionOnSets
<1>4. S \in P
  BY <1>3
<1> QED BY <1>4

\* A sum of sums, and of multiples.
LEMMA SumIsLinear ==
  ASSUME NEW S, IsFiniteSet(S), NEW f, NEW g, NEW h, NEW c \in Int,
         \A x \in S : g[x] \in Int /\ h[x] \in Int /\ f[x] = g[x] + c * h[x]
  PROVE  SumFunctionOnSet(f, S) =
           SumFunctionOnSet(g, S) + c * SumFunctionOnSet(h, S)
<1> DEFINE P == {T \in SUBSET S : SumFunctionOnSet(f, T) =
                   SumFunctionOnSet(g, T) + c * SumFunctionOnSet(h, T)}
<1>0. \A x \in S : f[x] \in Int
  OBVIOUS
<1>1. {} \in P
  BY SumOfNone
<1>2. ASSUME NEW T \in SUBSET S, T # {}, \A x \in T : T \ {x} \in P PROVE T \in P
  <2>1. PICK x \in T : TRUE
    BY <1>2
  <2>2. IsFiniteSet(T)
    BY FS_Subset
  <2>3. PICK rest : rest = T \ {x}
    OBVIOUS
  <2>4. /\ SumFunctionOnSet(f, T) = f[x] + SumFunctionOnSet(f, rest)
        /\ SumFunctionOnSet(g, T) = g[x] + SumFunctionOnSet(g, rest)
        /\ SumFunctionOnSet(h, T) = h[x] + SumFunctionOnSet(h, rest)
    BY <1>0, <2>1, <2>2, <2>3, SumOfOne
  <2>5. SumFunctionOnSet(f, rest) =
          SumFunctionOnSet(g, rest) + c * SumFunctionOnSet(h, rest)
    BY <1>2, <2>3
  <2>6. /\ SumFunctionOnSet(g, rest) \in Int /\ SumFunctionOnSet(h, rest) \in Int
        /\ f[x] = g[x] + c * h[x] /\ g[x] \in Int /\ h[x] \in Int
    BY <2>3, SumTyped
  <2>7. \A a, b, d, e \in Int : (a + c * b) + (d + c * e) = (a + d) + c * (b + e)
    OBVIOUS
  <2>8. SumFunctionOnSet(f, T) = SumFunctionOnSet(g, T) + c * SumFunctionOnSet(h, T)
    BY <2>4, <2>5, <2>6, <2>7
  <2> QED BY <2>8
<1>3. SUBSET S \subseteq P
  <2> HIDE DEF P
  <2> QED BY <1>1, <1>2, InductionOnSets
<1>4. S \in P
  BY <1>3
<1> QED BY <1>4

\* What is nothing does not count.
LEMMA SumOfTheRest ==
  ASSUME NEW S, IsFiniteSet(S), NEW f, \A x \in S : f[x] \in Int, NEW U \in SUBSET S,
         \A x \in S \ U : f[x] = 0
  PROVE  SumFunctionOnSet(f, S) = SumFunctionOnSet(f, U)
<1> DEFINE P == {T \in SUBSET S : SumFunctionOnSet(f, T) = SumFunctionOnSet(f, T \cap U)}
<1>1. {} \in P
  BY SumOfNone
<1>2. ASSUME NEW T \in SUBSET S, T # {}, \A x \in T : T \ {x} \in P PROVE T \in P
  <2>0. IsFiniteSet(T)
    BY FS_Subset
  <2>1. CASE T \subseteq U
    <3>1. T \cap U = T
      BY <2>1
    <3> QED BY <3>1
  <2>2. CASE \E x \in T : x \notin U
    <3>1. PICK x \in T : x \notin U
      BY <2>2
    <3>2. (T \ {x}) \cap U = T \cap U
      BY <3>1
    <3>3. SumFunctionOnSet(f, T) = f[x] + SumFunctionOnSet(f, T \ {x})
      BY <2>0, SumOfOne
    <3>4. f[x] = 0 /\ SumFunctionOnSet(f, T \ {x}) \in Int
      BY <3>1, SumTyped
    <3>5. SumFunctionOnSet(f, T \ {x}) = SumFunctionOnSet(f, T \cap U)
      BY <1>2, <3>2
    <3> QED BY <3>3, <3>4, <3>5
  <2> QED BY <2>1, <2>2
<1>3. SUBSET S \subseteq P
  <2> HIDE DEF P
  <2> QED BY <1>1, <1>2, InductionOnSets
<1>4. S \in P /\ S \cap U = U
  BY <1>3
<1> QED BY <1>4

-----------------------------------------------------------------------------
(***************************************************************************)
(* The profit bridge.  What is rounded adds up, before it is rounded, to   *)
(* what is sold now less what was sold: volume and mix are together what   *)
(* the quantities change at the old margins, whatever the average margin   *)
(* is; price and cost are what the margins change at the new quantities.   *)
(***************************************************************************)
IntOrUnknown == Int \cup {Unknown}

LEMMA TotalIsSum ==
  ASSUME NEW S, IsFiniteSet(S), NEW f, DOMAIN f = S, \A x \in S : f[x] \in IntOrUnknown,
         Total(f) # Unknown
  PROVE  /\ \A x \in S : f[x] \in Int
         /\ Total(f) = SumFunctionOnSet(f, S)
         /\ Total(f) \in Int
<1>1. \A x \in S : f[x] # Unknown
  BY DEF Total, Known, Range
<1>2. \A x \in S : f[x] \in Int
  BY <1>1 DEF IntOrUnknown
<1>3. Total(f) = SumFunctionOnSet(f, S)
  BY DEF Total, SumFunction
<1>4. SumFunctionOnSet(f, S) \in Int
  BY <1>2, SumTyped
<1> QED BY <1>2, <1>3, <1>4

LEMMA MinusKnown ==
  ASSUME NEW x \in IntOrUnknown, NEW y \in IntOrUnknown
  PROVE  /\ Minus(x, y) \in IntOrUnknown
         /\ Minus(x, y) # Unknown => x \in Int /\ y \in Int /\ Minus(x, y) = x - y
         /\ x \in Int /\ y \in Int => Minus(x, y) = x - y
<1>0. Unknown \notin Int
  BY BridgeAssumption
<1>1. CASE x = Unknown \/ y = Unknown
  <2>1. Minus(x, y) = Unknown
    BY <1>1 DEF Minus, Known
  <2> QED BY <1>0, <1>1, <2>1 DEF IntOrUnknown
<1>2. CASE x # Unknown /\ y # Unknown
  <2>1. Minus(x, y) = x - y /\ x \in Int /\ y \in Int
    BY <1>2 DEF Minus, Known, IntOrUnknown
  <2> QED BY <2>1 DEF IntOrUnknown
<1> QED BY <1>1, <1>2

\* Half a cent at most.
LEMMA MoneyRounds ==
  ASSUME NEW x \in Int
  PROVE  /\ Money(x) \in Int
         /\ -Parts <= 2 * (Parts * Money(x) - x)
         /\ 2 * (Parts * Money(x) - x) <= Parts
<1>1. Parts \in Nat \ {0} /\ x # Unknown
  BY BridgeAssumption
<1>2. ASSUME NEW y \in Nat, NEW c, c = (2 * y + Parts) \div (2 * Parts)
      PROVE  /\ c \in Int
             /\ -Parts <= 2 * (Parts * c - y) /\ 2 * (Parts * c - y) <= Parts
  <2>1. PICK a \in Int, b \in Nat \ {0} : a = 2 * y + Parts /\ b = 2 * Parts
    BY <1>1
  <2>2. c = a \div b
    BY <1>2, <2>1
  <2>3. c \in Int /\ b * c <= a /\ a < b * (c + 1)
    BY <2>1, <2>2
  <2>4. b * c = 2 * (Parts * c) /\ b * (c + 1) = 2 * (Parts * c) + 2 * Parts /\ Parts * c \in Int
    BY <1>1, <2>1, <2>3
  <2> QED BY <1>1, <2>1, <2>3, <2>4
<1>3. CASE x >= 0
  <2>1. Money(x) = (2 * x + Parts) \div (2 * Parts)
    BY <1>1, <1>3 DEF Money
  <2> QED BY <1>2, <1>3, <2>1
<1>4. CASE x < 0
  <2>1. PICK c : c = (2 * (-x) + Parts) \div (2 * Parts)
    OBVIOUS
  <2>2. Money(x) = -c
    BY <1>1, <1>4, <2>1 DEF Money
  <2>3. -x \in Nat
    BY <1>4
  <2>4. c \in Int /\ -Parts <= 2 * (Parts * c - (-x)) /\ 2 * (Parts * c - (-x)) <= Parts
    BY <1>2, <2>1, <2>3
  <2>5. Parts * (-c) = -(Parts * c) /\ Parts * c \in Int
    BY <1>1, <2>4
  <2> QED BY <1>1, <2>2, <2>4, <2>5
<1> QED BY <1>3, <1>4

LEMMA LineTyped ==
  ASSUME NEW line \in Lines
  PROVE  /\ Sku(line).units = line.units /\ line.units \in Nat
         /\ Sku(line).revenue \in IntOrUnknown /\ Sku(line).cogs \in IntOrUnknown
         /\ line.revenue \in Int /\ line.cogs \in IntOrUnknown
         /\ Sku(line).revenue # Unknown =>
              line.units * Sku(line).revenue = Parts * line.revenue
         /\ Sku(line).cogs # Unknown =>
              line.cogs \in Int /\ line.units * Sku(line).cogs = Parts * line.cogs
         /\ line.units = 0 => Sku(line).revenue = Unknown /\ Sku(line).cogs = Unknown
<1>1. /\ line.units \in Nat /\ line.revenue \in Nat /\ line.cogs \in Nat \cup {Unknown}
      /\ line.units # 0 => Parts % line.units = 0
      /\ Parts \in Nat \ {0} /\ Unknown \notin Int
  BY BridgeAssumption
<1>2. ASSUME NEW amount \in Nat, line.units # 0
      PROVE  /\ (Parts * amount) \div line.units \in Int
             /\ line.units * ((Parts * amount) \div line.units) = Parts * amount
  <2>1. PICK n \in Nat \ {0} : n = line.units
    BY <1>1, <1>2
  <2>2. PICK k : k = Parts \div n
    OBVIOUS
  <2>3. k \in Int /\ Parts = n * k
    BY <1>1, <1>2, <2>1, <2>2
  <2>4. Parts * amount = n * (k * amount) /\ k * amount \in Int
    BY <2>1, <2>3
  <2>5. (n * (k * amount)) \div n = k * amount
    BY <2>1, <2>4
  <2> QED BY <2>1, <2>4, <2>5
<1>3. CASE line.units = 0
  BY <1>1, <1>3 DEF Sku, IntOrUnknown
<1>4. CASE line.units # 0
  <2>1. /\ Sku(line).units = line.units
        /\ Sku(line).revenue = (Parts * line.revenue) \div line.units
        /\ Sku(line).cogs = IF line.cogs = Unknown \/ line.shipped # line.units
                            THEN Unknown ELSE (Parts * line.cogs) \div line.units
    BY <1>4 DEF Sku
  <2>2. CASE line.cogs = Unknown \/ line.shipped # line.units
    BY <1>1, <1>2, <1>4, <2>1, <2>2 DEF IntOrUnknown
  <2>3. CASE ~(line.cogs = Unknown \/ line.shipped # line.units)
    BY <1>1, <1>2, <1>4, <2>1, <2>3 DEF IntOrUnknown
  <2> QED BY <2>2, <2>3
<1> QED BY <1>3, <1>4

LEMMA SumOfMultiples ==
  ASSUME NEW S, IsFiniteSet(S), NEW f, NEW h, NEW c \in Int,
         \A x \in S : h[x] \in Int /\ f[x] = c * h[x]
  PROVE  SumFunctionOnSet(f, S) = c * SumFunctionOnSet(h, S)
<1>1. PICK zero : zero = [x \in S |-> 0]
  OBVIOUS
<1>2. SumFunctionOnSet(zero, S) = 0
  <2>1. {} \in SUBSET S /\ \A x \in S : zero[x] = 0 /\ zero[x] \in Int
    BY <1>1
  <2>2. SumFunctionOnSet(zero, S) = SumFunctionOnSet(zero, {})
    BY <2>1, SumOfTheRest
  <2> QED BY <2>2, SumOfNone
<1>3. \A x \in S : zero[x] \in Int /\ h[x] \in Int /\ f[x] = zero[x] + c * h[x]
  <2> SUFFICES ASSUME NEW x \in S PROVE f[x] = 0 + c * h[x]
    BY <1>1
  <2>1. h[x] \in Int /\ f[x] = c * h[x] /\ c * h[x] \in Int
    OBVIOUS
  <2> QED BY <2>1
<1>4. SumFunctionOnSet(f, S) = SumFunctionOnSet(zero, S) + c * SumFunctionOnSet(h, S)
  BY <1>3, SumIsLinear
<1>5. SumFunctionOnSet(h, S) \in Int
  BY SumTyped
<1>6. c * SumFunctionOnSet(h, S) \in Int
  BY <1>5
<1> QED BY <1>2, <1>4, <1>6

LEMMA SumOfSame ==
  ASSUME NEW S, IsFiniteSet(S), NEW f, NEW g, \A x \in S : g[x] \in Int /\ f[x] = g[x]
  PROVE  SumFunctionOnSet(f, S) = SumFunctionOnSet(g, S)
<1>1. \A x \in S : g[x] \in Int /\ f[x] = 1 * g[x]
  OBVIOUS
<1>2. SumFunctionOnSet(f, S) = 1 * SumFunctionOnSet(g, S)
  BY <1>1, SumOfMultiples
<1>3. SumFunctionOnSet(g, S) \in Int
  BY SumTyped
<1> QED BY <1>2, <1>3

LEMMA SumOfNaturals ==
  ASSUME NEW f, NEW S, IsFiniteSet(S), \A x \in S : f[x] \in Nat
  PROVE  SumFunctionOnSet(f, S) \in Nat
<1> DEFINE P == {T \in SUBSET S : SumFunctionOnSet(f, T) \in Nat}
<1>1. {} \in P
  BY SumOfNone
<1>2. ASSUME NEW T \in SUBSET S, T # {}, \A x \in T : T \ {x} \in P PROVE T \in P
  <2>1. First(T) \in T /\ IsFiniteSet(T)
    BY <1>2, FS_Subset DEF First
  <2>2. f[First(T)] \in Nat /\ SumFunctionOnSet(f, T \ {First(T)}) \in Nat
    BY <1>2, <2>1
  <2>3. SumFunctionOnSet(f, T) = f[First(T)] + SumFunctionOnSet(f, T \ {First(T)})
    BY <1>2, <2>1, SumOfFirst
  <2> QED BY <2>2, <2>3
<1>3. S \in P
  <2> HIDE DEF P
  <2> QED BY <1>1, <1>2, InductionOnSets
<1> QED BY <1>3

\* What is added up in a part of a set.
LEMMA SumOfPart ==
  ASSUME NEW S, IsFiniteSet(S), NEW U \in SUBSET S, NEW f, NEW g,
         \A x \in U : g[x] \in Int /\ f[x] = g[x], \A x \in S \ U : f[x] = 0
  PROVE  SumFunctionOnSet(f, S) = SumFunctionOnSet(g, U)
<1>1. \A x \in S : f[x] \in Int
  OBVIOUS
<1>2. SumFunctionOnSet(f, S) = SumFunctionOnSet(f, U)
  BY <1>1, SumOfTheRest
<1>3. SumFunctionOnSet(f, U) = SumFunctionOnSet(g, U)
  BY FS_Subset, SumOfSame
<1> QED BY <1>2, <1>3

LEMMA SumOfDrivers ==
  ASSUME NEW f, \A d \in Valued \cup Drivers : f[d] \in Int
  PROVE  SumFunctionOnSet(f, Valued \cup Drivers) =
           f["volume"] + f["price_discount"] + f["mix"] + f["cogs"]
             + SumFunctionOnSet(f, Drivers)
<1>1. PICK c, b, a, all :
        /\ c = {"cogs"} \cup Drivers /\ b = {"mix"} \cup c
        /\ a = {"price_discount"} \cup b /\ all = {"volume"} \cup a
  OBVIOUS
<1>2. IsFiniteSet(Drivers) /\ Drivers \cap Valued = {}
  BY BridgeAssumption
<1>3. IsFiniteSet(c) /\ IsFiniteSet(b) /\ IsFiniteSet(a) /\ IsFiniteSet(all)
  BY <1>1, <1>2, FS_AddElement
<1>4. /\ all = Valued \cup Drivers
      /\ a = all \ {"volume"} /\ b = a \ {"price_discount"} /\ c = b \ {"mix"}
      /\ Drivers = c \ {"cogs"}
  BY <1>1, <1>2 DEF Valued
<1>5. /\ \A d \in all : f[d] \in Int
      /\ "volume" \in all /\ "price_discount" \in a /\ "mix" \in b /\ "cogs" \in c
      /\ a \subseteq all /\ b \subseteq all /\ c \subseteq all
  BY <1>1, <1>4
<1>6. /\ SumFunctionOnSet(f, all) = f["volume"] + SumFunctionOnSet(f, a)
      /\ SumFunctionOnSet(f, a) = f["price_discount"] + SumFunctionOnSet(f, b)
      /\ SumFunctionOnSet(f, b) = f["mix"] + SumFunctionOnSet(f, c)
      /\ SumFunctionOnSet(f, c) = f["cogs"] + SumFunctionOnSet(f, Drivers)
  <2>1. \A x \in a : f[x] \in Int
    BY <1>5
  <2>2. \A x \in b : f[x] \in Int
    BY <1>5
  <2>3. \A x \in c : f[x] \in Int
    BY <1>5
  <2>4. SumFunctionOnSet(f, all) = f["volume"] + SumFunctionOnSet(f, a)
    BY <1>3, <1>4, <1>5, SumOfOne
  <2>5. SumFunctionOnSet(f, a) = f["price_discount"] + SumFunctionOnSet(f, b)
    BY <1>3, <1>4, <1>5, <2>1, SumOfOne
  <2>6. SumFunctionOnSet(f, b) = f["mix"] + SumFunctionOnSet(f, c)
    BY <1>3, <1>4, <1>5, <2>2, SumOfOne
  <2>7. SumFunctionOnSet(f, c) = f["cogs"] + SumFunctionOnSet(f, Drivers)
    BY <1>3, <1>4, <1>5, <2>3, SumOfOne
  <2> QED BY <2>4, <2>5, <2>6, <2>7
<1>7. /\ f["volume"] \in Int /\ f["price_discount"] \in Int /\ f["mix"] \in Int
      /\ f["cogs"] \in Int /\ SumFunctionOnSet(f, Drivers) \in Int
  <2>1. SumFunctionOnSet(f, Drivers) \in Int
    BY <1>2, SumTyped
  <2> QED BY <2>1 DEF Valued
<1> QED BY <1>4, <1>6, <1>7

-----------------------------------------------------------------------------
\* Two periods whose bridge has volume and mix.
Bridged ==
  /\ base \in PeriodData /\ now \in PeriodData /\ Plain(base) /\ Plain(now)
  /\ ~MarginsMissing /\ Unpriced = {}

LEMMA SoldIsFinite ==
  /\ IsFiniteSet(Sold(base)) /\ IsFiniteSet(Sold(now)) /\ IsFiniteSet(Aligned)
  /\ Aligned \subseteq SkuIds /\ Sold(base) \subseteq Aligned /\ Sold(now) \subseteq Aligned
<1>1. Sold(base) \subseteq SkuIds /\ Sold(now) \subseteq SkuIds
  BY DEF Sold
<1> QED BY <1>1, BridgeAssumption, FS_Subset DEF Aligned

LEMMA LinesTyped ==
  ASSUME NEW p \in PeriodData
  PROVE  /\ \A s \in Sold(p) : p.lines[s] \in Lines
         /\ \A d \in Drivers : p.effects[d] \in IntOrUnknown
         /\ DOMAIN p.effects = Drivers
BY BridgeAssumption DEF PeriodData, Sold, IntOrUnknown

LEMMA MarginKnown ==
  ASSUME NEW row, row.revenue \in IntOrUnknown, row.cogs \in IntOrUnknown
  PROVE  /\ Margin(row) \in IntOrUnknown
         /\ Margin(row) # Unknown =>
              row.revenue \in Int /\ row.cogs \in Int /\ Margin(row) = row.revenue - row.cogs
BY MinusKnown DEF Margin

\* There is a nearest price, and a first id among those that are as near.
LEMMA NearestExists ==
  ASSUME base \in PeriodData, NEW sku, sku.revenue \in Int, References # {}
  PROVE  Nearest(sku) \in References
<1> DEFINE distance(s) ==
             LET d == Sku(base.lines[s]).revenue - sku.revenue IN IF d < 0 THEN -d ELSE d
           Distances == {distance(s) : s \in References}
<1>1. ASSUME NEW s \in References PROVE distance(s) \in Nat /\ s \in Nat
  <2>1. s \in Sold(base) /\ Margin(Sku(base.lines[s])) # Unknown /\ s \in SkuIds
    BY DEF References, Sold
  <2>2. base.lines[s] \in Lines
    BY <2>1, LinesTyped
  <2>3. Sku(base.lines[s]).revenue \in Int
    BY <2>1, <2>2, LineTyped, MarginKnown
  <2> QED BY <2>1, <2>3, BridgeAssumption
<1>2. PICK near \in Distances : \A d \in Distances : near <= d
  <2>1. Distances \subseteq Nat /\ Distances # {}
    BY <1>1
  <2> HIDE DEF Distances
  <2> QED BY <2>1, LeastNatural
<1> DEFINE Equals == {s \in References : distance(s) = near}
<1>3. PICK first \in Equals : \A s \in Equals : first <= s
  <2>1. Equals \subseteq Nat /\ Equals # {}
    BY <1>1
  <2> HIDE DEF Equals
  <2> QED BY <2>1, LeastNatural
<1>4. /\ first \in References
      /\ \A t \in References \ {first} :
           distance(first) < distance(t) \/ (distance(first) = distance(t) /\ first < t)
  <2> SUFFICES ASSUME NEW t \in References \ {first}
               PROVE  distance(first) < distance(t)
                        \/ (distance(first) = distance(t) /\ first < t)
    OBVIOUS
  <2>1. /\ distance(first) = near /\ distance(t) \in Distances
        /\ distance(t) = near => t \in Equals
    BY <1>3
  <2>2. near <= distance(t) /\ (distance(t) = near => first <= t)
    BY <1>2, <1>3, <2>1
  <2>3. distance(t) \in Nat /\ distance(first) \in Nat /\ first \in Nat /\ t \in Nat
    BY <1>1, <1>3
  <2> HIDE DEF distance
  <2> QED BY <2>1, <2>2, <2>3
<1>5. Nearest(sku) = CHOOSE s \in References : \A t \in References \ {s} :
          distance(s) < distance(t) \/ (distance(s) = distance(t) /\ s < t)
  BY DEF Nearest
<1> HIDE DEF distance
<1> QED BY <1>4, <1>5

LEMMA BaseRow ==
  ASSUME Bridged, NEW s \in Aligned
  PROVE  /\ Base(s).units \in Nat /\ Base(s).revenue \in Int /\ Base(s).cogs \in Int
         /\ Margin(Base(s)) = Base(s).revenue - Base(s).cogs
         /\ s \in Sold(base) => Base(s) = Sku(base.lines[s])
         /\ s \notin Sold(base) => Base(s).units = 0
<1>1. Margin(Base(s)) # Unknown
  BY DEF Bridged, Unpriced
<1>2. CASE s \in Sold(base)
  <2>1. Base(s) = Sku(base.lines[s]) /\ base.lines[s] \in Lines
    BY <1>2, LinesTyped DEF Base, Bridged
  <2> QED BY <1>1, <1>2, <2>1, LineTyped, MarginKnown
<1>3. CASE s \notin Sold(base)
  <2>1. s \in Sold(now)
    BY <1>3 DEF Aligned
  <2>2. PICK sku : sku = Sku(now.lines[s])
    OBVIOUS
  <2>3. Base(s) = IF sku.revenue = Unknown \/ References = {}
                  THEN [units |-> 0, revenue |-> Unknown, cogs |-> Unknown]
                  ELSE [Sku(base.lines[Nearest(sku)]) EXCEPT !.units = 0]
    BY <1>3, <2>2 DEF Base
  <2>4. CASE sku.revenue = Unknown \/ References = {}
    <3>1. Margin(Base(s)) = Unknown
      BY <2>3, <2>4 DEF Margin, Minus, Known
    <3> QED BY <1>1, <3>1
  <2>5. CASE ~(sku.revenue = Unknown \/ References = {})
    <3>1. sku.revenue \in Int
      <4>1. now.lines[s] \in Lines
        BY <2>1, LinesTyped DEF Bridged
      <4> QED BY <2>2, <2>5, <4>1, LineTyped DEF IntOrUnknown
    <3>2. PICK t : t = Nearest(sku)
      OBVIOUS
    <3>3. base.lines[t] \in Lines
      BY <2>5, <3>1, <3>2, NearestExists, LinesTyped DEF Bridged, References
    <3>4. Base(s) = [Sku(base.lines[t]) EXCEPT !.units = 0]
      BY <2>3, <2>5, <3>2
    <3>5. /\ Base(s).units = 0 /\ Base(s).revenue = Sku(base.lines[t]).revenue
          /\ Base(s).cogs = Sku(base.lines[t]).cogs
      BY <3>4 DEF Sku
    <3>6. Base(s).revenue \in IntOrUnknown /\ Base(s).cogs \in IntOrUnknown
      BY <3>3, <3>5, LineTyped
    <3> QED BY <1>1, <1>3, <3>5, <3>6, MarginKnown
  <2> QED BY <2>4, <2>5
<1> QED BY <1>2, <1>3

LEMMA NowRow ==
  ASSUME Bridged, NEW s \in Aligned
  PROVE  /\ Now(s).units \in Nat
         /\ Now(s).revenue \in IntOrUnknown /\ Now(s).cogs \in IntOrUnknown
         /\ s \in Sold(now) => Now(s) = Sku(now.lines[s])
         /\ s \notin Sold(now) => Now(s).units = 0
<1>1. CASE s \in Sold(now)
  <2>1. Now(s) = Sku(now.lines[s]) /\ now.lines[s] \in Lines
    BY <1>1, LinesTyped DEF Now, Bridged
  <2> QED BY <1>1, <2>1, LineTyped
<1>2. CASE s \notin Sold(now)
  <2>1. Now(s) = [Base(s) EXCEPT !.units = 0]
    BY <1>2 DEF Now
  <2>2. Base(s) = Sku(base.lines[s])
    BY <1>2, BaseRow DEF Aligned
  <2>3. /\ Now(s).units = 0 /\ Now(s).revenue = Base(s).revenue
        /\ Now(s).cogs = Base(s).cogs
    BY <2>1, <2>2 DEF Sku
  <2> QED BY <1>2, <2>3, BaseRow DEF IntOrUnknown
<1> QED BY <1>1, <1>2

LEMMA WeightedMarginTyped ==
  ASSUME Bridged
  PROVE  WeightedMargin \in Int
<1> DEFINE margin(s) == IF Base(s).units = 0 THEN 0
                        ELSE IF Margin(Base(s)) = Unknown THEN Unknown
                        ELSE Base(s).units * Margin(Base(s))
           all == Total([s \in Aligned |-> margin(s)])
<1>1. PICK f : f = [s \in Aligned |-> margin(s)]
  OBVIOUS
<1>2. PICK units : units = UnitsOf(Base)
  OBVIOUS
<1>3. WeightedMargin = IF units = 0 \/ Total(f) = Unknown THEN Unknown
                                                        ELSE Total(f) \div units
  BY <1>1, <1>2 DEF WeightedMargin
<1>4. ~(units = 0 \/ Total(f) = Unknown)
  BY <1>3 DEF Bridged, MarginsMissing
<1>5. \A s \in Aligned : f[s] \in IntOrUnknown
  <2> SUFFICES ASSUME NEW s \in Aligned PROVE margin(s) \in IntOrUnknown
    BY <1>1
  <2>1. Base(s).units \in Nat /\ Base(s).revenue - Base(s).cogs \in Int
        /\ Margin(Base(s)) = Base(s).revenue - Base(s).cogs
    BY BaseRow
  <2>2. Base(s).units * Margin(Base(s)) \in Int
    BY <2>1
  <2> QED BY <2>2 DEF IntOrUnknown
<1>6. Total(f) \in Int
  BY <1>1, <1>4, <1>5, SoldIsFinite, TotalIsSum
<1>7. units \in Nat
  <2>1. PICK u : u = [s \in Aligned |-> Base(s).units]
    OBVIOUS
  <2>2. units = SumFunctionOnSet(u, Aligned)
    BY <1>2, <2>1 DEF UnitsOf, SumFunction
  <2>3. \A s \in Aligned : u[s] \in Nat
    BY <2>1, BaseRow
  <2> QED BY <2>2, <2>3, SoldIsFinite, SumOfNaturals
<1>8. Total(f) \div units \in Int
  BY <1>4, <1>6, <1>7
<1> QED BY <1>3, <1>4, <1>8

LEMMA SkuChangeIsSum ==
  ASSUME Bridged, NEW field \in {"revenue", "cogs"}, NEW sign \in {1, -1},
         SkuChange(field, sign) # Unknown
  PROVE  \E f : /\ SkuChange(field, sign) = Money(SumFunctionOnSet(f, Aligned))
                /\ \A s \in Aligned :
                     /\ f[s] \in Int
                     /\ Now(s).units = 0 => f[s] = 0
                     /\ Now(s).units # 0 =>
                          /\ Now(s)[field] \in Int
                          /\ f[s] = sign * Now(s).units * (Now(s)[field] - Base(s)[field])
<1> DEFINE change(s) == Minus(Now(s)[field], Base(s)[field])
           part(s) == IF change(s) = Unknown THEN Unknown
                      ELSE sign * Now(s).units * change(s)
<1>1. PICK selling : selling = {s \in Aligned : Now(s).units # 0}
  OBVIOUS
<1>2. PICK g : g = [s \in selling |-> part(s)]
  OBVIOUS
<1>3. SkuChange(field, sign) = Money(Total(g))
  BY <1>1, <1>2 DEF SkuChange
<1>4. Total(g) # Unknown
  BY <1>3 DEF Money
<1>5. ASSUME NEW s \in Aligned
      PROVE  /\ Now(s)[field] \in IntOrUnknown /\ Base(s)[field] \in Int
             /\ Now(s).units \in Nat /\ sign \in Int
             /\ change(s) # Unknown =>
                  /\ Now(s)[field] \in Int
                  /\ change(s) = Now(s)[field] - Base(s)[field] /\ change(s) \in Int
  <2>1. Now(s)[field] \in IntOrUnknown /\ Base(s)[field] \in Int /\ Now(s).units \in Nat
    BY BaseRow, NowRow
  <2>2. Base(s)[field] \in IntOrUnknown
    BY <2>1 DEF IntOrUnknown
  <2>3. change(s) # Unknown =>
          Now(s)[field] \in Int /\ change(s) = Now(s)[field] - Base(s)[field]
    BY <2>1, <2>2, MinusKnown
  <2> QED BY <2>1, <2>3
<1>6. ASSUME NEW s \in Aligned, change(s) # Unknown
      PROVE  part(s) = sign * Now(s).units * change(s) /\ part(s) \in Int
  <2>1. PICK x \in Int, u \in Int, c \in Int : x = sign /\ u = Now(s).units /\ c = change(s)
    BY <1>5, <1>6
  <2>2. x * u * c \in Int
    OBVIOUS
  <2> HIDE DEF change
  <2> QED BY <1>6, <2>1, <2>2
<1>7. \A s \in selling : g[s] = part(s) /\ g[s] \in IntOrUnknown
  <2> SUFFICES ASSUME NEW s \in selling PROVE part(s) \in IntOrUnknown
    BY <1>2
  <2>1. CASE change(s) = Unknown
    BY <2>1 DEF IntOrUnknown
  <2>2. CASE change(s) # Unknown
    <3>1. part(s) \in Int
      BY <1>1, <1>6, <2>2
    <3> HIDE DEF part
    <3> QED BY <3>1 DEF IntOrUnknown
  <2> QED BY <2>1, <2>2
<1>8. IsFiniteSet(selling) /\ selling \in SUBSET Aligned
  BY <1>1, SoldIsFinite, FS_Subset
<1>9. /\ \A s \in selling : g[s] \in Int
      /\ Total(g) = SumFunctionOnSet(g, selling)
  <2>1. DOMAIN g = selling
    BY <1>2
  <2> HIDE DEF part
  <2> QED BY <1>4, <1>7, <1>8, <2>1, TotalIsSum
<1>10. \A s \in selling : change(s) # Unknown
  BY <1>7, <1>9, BridgeAssumption
<1>11. PICK f : f = [s \in Aligned |-> IF s \in selling THEN g[s] ELSE 0]
  OBVIOUS
<1>12. SumFunctionOnSet(f, Aligned) = SumFunctionOnSet(g, selling)
  <2>1. /\ \A s \in selling : g[s] \in Int /\ f[s] = g[s]
        /\ \A s \in Aligned \ selling : f[s] = 0
    BY <1>8, <1>9, <1>11
  <2> QED BY <1>8, <2>1, SoldIsFinite, SumOfPart
<1>13. ASSUME NEW s \in Aligned
       PROVE  /\ f[s] \in Int
              /\ Now(s).units = 0 => f[s] = 0
              /\ Now(s).units # 0 =>
                   /\ Now(s)[field] \in Int
                   /\ f[s] = sign * Now(s).units * (Now(s)[field] - Base(s)[field])
  <2>1. CASE s \notin selling
    BY <1>1, <1>11, <2>1
  <2>2. CASE s \in selling
    <3>1. f[s] = part(s) /\ f[s] \in Int /\ Now(s).units # 0
      BY <1>1, <1>7, <1>9, <1>11, <2>2
    <3>2. /\ part(s) = sign * Now(s).units * change(s)
          /\ Now(s)[field] \in Int /\ change(s) = Now(s)[field] - Base(s)[field]
      BY <1>5, <1>6, <1>10, <2>2
    <3> HIDE DEF part, change
    <3> QED BY <3>1, <3>2
  <2> QED BY <2>1, <2>2
<1> HIDE DEF part, change
<1> QED BY <1>3, <1>9, <1>12, <1>13

\* What a SKU brings in a period, in parts of a cent.
Gain(p, s) ==
  IF s \in Sold(p) THEN Parts * (p.lines[s].revenue - p.lines[s].cogs) ELSE 0

LEMMA GainsAddUp ==
  ASSUME NEW p, p = base \/ p = now, p \in PeriodData,
         NEW gains, \A s \in Aligned : gains[s] = Gain(p, s), Contribution(p) # Unknown
  PROVE  /\ \A s \in Sold(p) : p.lines[s].revenue \in Int /\ p.lines[s].cogs \in Int
         /\ \E sold \in Int :
              /\ SumFunctionOnSet(gains, Aligned) = Parts * sold
              /\ \A d \in Drivers : p.effects[d] \in Int
              /\ Contribution(p) = sold + SumFunctionOnSet(p.effects, Drivers)
<1>1. PICK f : f = [s \in Sold(p) |-> Minus(p.lines[s].revenue, p.lines[s].cogs)]
  OBVIOUS
<1>2. /\ Contribution(p) = IF Sold(p) # {} /\ Known({Total(f), Total(p.effects)})
                           THEN Total(f) + Total(p.effects) ELSE Unknown
  BY <1>1 DEF Contribution
<1>3. Total(f) # Unknown /\ Total(p.effects) # Unknown
      /\ Contribution(p) = Total(f) + Total(p.effects)
  BY <1>2 DEF Known
<1>4. IsFiniteSet(Sold(p)) /\ Sold(p) \in SUBSET Aligned /\ IsFiniteSet(Drivers)
  BY SoldIsFinite, BridgeAssumption
<1>5. ASSUME NEW s \in Sold(p)
      PROVE  /\ f[s] \in IntOrUnknown
             /\ f[s] # Unknown =>
                  /\ p.lines[s].revenue \in Int /\ p.lines[s].cogs \in Int
                  /\ f[s] = p.lines[s].revenue - p.lines[s].cogs
  <2>1. p.lines[s].revenue \in IntOrUnknown /\ p.lines[s].cogs \in IntOrUnknown
    BY LinesTyped, LineTyped DEF IntOrUnknown
  <2> QED BY <1>1, <2>1, MinusKnown
<1>6. /\ \A s \in Sold(p) : f[s] \in Int
      /\ Total(f) = SumFunctionOnSet(f, Sold(p)) /\ Total(f) \in Int
  <2>1. DOMAIN f = Sold(p)
    BY <1>1
  <2> QED BY <1>3, <1>4, <1>5, <2>1, TotalIsSum
<1>7. /\ \A d \in Drivers : p.effects[d] \in Int
      /\ Total(p.effects) = SumFunctionOnSet(p.effects, Drivers)
  BY <1>3, <1>4, LinesTyped, TotalIsSum
<1>8. \A s \in Sold(p) :
        /\ p.lines[s].revenue \in Int /\ p.lines[s].cogs \in Int
        /\ gains[s] = Parts * f[s]
  BY <1>4, <1>5, <1>6, BridgeAssumption DEF Gain
<1>9. PICK h : h = [s \in Sold(p) |-> Parts * f[s]]
  OBVIOUS
<1>10. SumFunctionOnSet(gains, Aligned) = SumFunctionOnSet(h, Sold(p))
  <2>1. \A s \in Sold(p) : h[s] \in Int /\ gains[s] = h[s]
    BY <1>6, <1>8, <1>9, BridgeAssumption
  <2>2. \A s \in Aligned \ Sold(p) : gains[s] = 0
    BY DEF Gain
  <2> QED BY <1>4, <2>1, <2>2, SoldIsFinite, SumOfPart
<1>11. SumFunctionOnSet(h, Sold(p)) = Parts * SumFunctionOnSet(f, Sold(p))
  <2>1. \A s \in Sold(p) : f[s] \in Int /\ h[s] = Parts * f[s]
    BY <1>6, <1>9
  <2>2. Parts \in Int
    BY BridgeAssumption
  <2> QED BY <1>4, <2>1, <2>2, SumOfMultiples
<1> QED BY <1>3, <1>6, <1>7, <1>8, <1>10, <1>11

LEMMA Distributes ==
  \A a, b, c \in Int : a * (b - c) = a * b - a * c /\ a * b \in Int
OBVIOUS

LEMMA BaseGain ==
  ASSUME Bridged, NEW s \in Aligned,
         \A t \in Sold(base) : base.lines[t].revenue \in Int /\ base.lines[t].cogs \in Int
  PROVE  Gain(base, s) = Base(s).units * (Base(s).revenue - Base(s).cogs)
<1>1. PICK q \in Nat, p \in Int, c \in Int :
        q = Base(s).units /\ p = Base(s).revenue /\ c = Base(s).cogs
  BY BaseRow
<1>2. CASE s \notin Sold(base)
  <2>1. q = 0
    BY <1>1, <1>2, BaseRow
  <2> QED BY <1>1, <1>2, <2>1 DEF Gain
<1>3. CASE s \in Sold(base)
  <2>1. PICK line \in Lines : line = base.lines[s]
    BY <1>3, LinesTyped DEF Bridged
  <2>2. Base(s) = Sku(line)
    BY <1>3, <2>1, BaseRow
  <2>3. p # Unknown /\ c # Unknown
    BY BridgeAssumption
  <2>4. /\ q * p = Parts * line.revenue /\ q * c = Parts * line.cogs
        /\ line.revenue \in Int /\ line.cogs \in Int
    BY <1>1, <2>2, <2>3, LineTyped
  <2>5. Gain(base, s) = Parts * (line.revenue - line.cogs)
    BY <1>3, <2>1 DEF Gain
  <2>6. /\ Parts * (line.revenue - line.cogs) = Parts * line.revenue - Parts * line.cogs
        /\ q * (p - c) = q * p - q * c
    <3>1. Parts \in Int /\ line.revenue \in Int /\ line.cogs \in Int
      BY <2>4, BridgeAssumption
    <3>2. Parts * (line.revenue - line.cogs) = Parts * line.revenue - Parts * line.cogs
      BY <3>1, Distributes
    <3>3. q * (p - c) = q * p - q * c
      BY Distributes
    <3> QED BY <3>2, <3>3
  <2> QED BY <1>1, <2>4, <2>5, <2>6
<1> QED BY <1>2, <1>3

LEMMA NowGain ==
  ASSUME Bridged, NEW s \in Aligned,
         \A t \in Sold(now) : now.lines[t].revenue \in Int /\ now.lines[t].cogs \in Int
  PROVE  /\ Now(s).units = 0 => Gain(now, s) = 0
         /\ Now(s).units # 0 /\ Now(s).revenue \in Int /\ Now(s).cogs \in Int =>
              Gain(now, s) = Now(s).units * (Now(s).revenue - Now(s).cogs)
<1>1. CASE s \notin Sold(now)
  BY <1>1, NowRow DEF Gain
<1>2. CASE s \in Sold(now)
  <2>1. PICK line \in Lines : line = now.lines[s]
    BY <1>2, LinesTyped DEF Bridged
  <2>2. Now(s) = Sku(line) /\ Now(s).units = line.units
    BY <1>2, <2>1, NowRow, LineTyped
  <2>3. Gain(now, s) = Parts * (line.revenue - line.cogs)
    BY <1>2, <2>1 DEF Gain
  <2>4. CASE Now(s).units = 0
    <3>1. line.revenue = 0 /\ line.cogs = 0
      BY <1>2, <2>1, <2>2, <2>4 DEF Bridged, Plain
    <3> QED BY <2>3, <2>4, <3>1, BridgeAssumption
  <2>5. CASE Now(s).units # 0 /\ Now(s).revenue \in Int /\ Now(s).cogs \in Int
    <3>1. PICK q \in Nat, p \in Int, c \in Int :
            q = Now(s).units /\ p = Now(s).revenue /\ c = Now(s).cogs
      BY <2>5, NowRow
    <3>2. p # Unknown /\ c # Unknown
      BY BridgeAssumption
    <3>3. /\ q * p = Parts * line.revenue /\ q * c = Parts * line.cogs
          /\ line.revenue \in Int /\ line.cogs \in Int
      BY <2>2, <3>1, <3>2, LineTyped
    <3>4. /\ Parts * (line.revenue - line.cogs) = Parts * line.revenue - Parts * line.cogs
          /\ q * (p - c) = q * p - q * c
      <4>1. Parts \in Int /\ line.revenue \in Int /\ line.cogs \in Int
        BY <3>3, BridgeAssumption
      <4>2. Parts * (line.revenue - line.cogs) = Parts * line.revenue - Parts * line.cogs
        BY <4>1, Distributes
      <4>3. q * (p - c) = q * p - q * c
        BY Distributes
      <4> QED BY <4>2, <4>3
    <3> QED BY <2>3, <2>5, <3>1, <3>3, <3>4
  <2> QED BY <2>4, <2>5
<1> QED BY <1>1, <1>2

\* One SKU: the average margin w cancels out.
LEMMA SkuAddsUp ==
  ASSUME NEW q \in Int, NEW p \in Int, NEW c \in Int, NEW w \in Int,
         NEW qq \in Int, NEW pp \in Int, NEW cc \in Int
  PROVE  /\ (qq - q) * ((p - c) - w) + w * (qq - q)
              + 1 * qq * (pp - p) + (-1) * qq * (cc - c)
              = qq * (pp - cc) - q * (p - c)
         /\ (0 - q) * ((p - c) - w) + w * (0 - q) = - (q * (p - c))
         /\ (qq - q) * ((p - c) - w) \in Int
<1>1. (qq - q) * ((p - c) - w) = (qq - q) * (p - c) - w * (qq - q)
  OBVIOUS
<1>2. /\ qq * (pp - p) = qq * pp - qq * p /\ qq * (cc - c) = qq * cc - qq * c
      /\ (qq - q) * (p - c) = (qq * p - qq * c) - q * (p - c)
      /\ qq * (pp - cc) = qq * pp - qq * cc
  OBVIOUS
<1>3. 1 * qq * (pp - p) = qq * (pp - p) /\ (-1) * qq * (cc - c) = -(qq * (cc - c))
  OBVIOUS
<1>4. (0 - q) * ((p - c) - w) = -(q * (p - c)) + w * q /\ w * (0 - q) = -(w * q)
  OBVIOUS
<1>5. /\ (qq - q) * (p - c) \in Int /\ w * (qq - q) \in Int /\ qq * pp \in Int
      /\ qq * p \in Int /\ qq * cc \in Int /\ qq * c \in Int /\ q * (p - c) \in Int
      /\ w * q \in Int
  OBVIOUS
<1> QED BY <1>1, <1>2, <1>3, <1>4, <1>5

\* Before it is rounded, what the four drivers from the lines tell is what all SKUs
\* brought now less what they brought before.
LEMMA DriversAddUp ==
  ASSUME Bridged, Contribution(base) # Unknown, Contribution(now) # Unknown,
         Volume # Unknown, Mix # Unknown,
         SkuChange("revenue", 1) # Unknown, SkuChange("cogs", -1) # Unknown
  PROVE  \E v, m, p, c, after, before \in Int :
           /\ Volume = Money(v) /\ Mix = Money(m)
           /\ SkuChange("revenue", 1) = Money(p) /\ SkuChange("cogs", -1) = Money(c)
           /\ v + m + p + c = Parts * after - Parts * before
           /\ \A d \in Drivers : now.effects[d] \in Int /\ base.effects[d] \in Int
           /\ Contribution(now) = after + SumFunctionOnSet(now.effects, Drivers)
           /\ Contribution(base) = before + SumFunctionOnSet(base.effects, Drivers)
<1> DEFINE Sum(f) == SumFunctionOnSet(f, Aligned)
<1>1. PICK w \in Int : w = WeightedMargin
  BY WeightedMarginTyped
<1>2. PICK old, new, more, mixed, gained, lost :
        /\ old = [s \in Aligned |-> Base(s).units]
        /\ new = [s \in Aligned |-> Now(s).units]
        /\ more = [s \in Aligned |-> Now(s).units - Base(s).units]
        /\ mixed = [s \in Aligned |-> Change(s) * (Margin(Base(s)) - w)]
        /\ gained = [s \in Aligned |-> Gain(now, s)]
        /\ lost = [s \in Aligned |-> Gain(base, s)]
  OBVIOUS
<1>p. PICK priced :
        /\ SkuChange("revenue", 1) = Money(Sum(priced))
        /\ \A s \in Aligned :
             /\ priced[s] \in Int
             /\ Now(s).units = 0 => priced[s] = 0
             /\ Now(s).units # 0 =>
                  /\ Now(s).revenue \in Int
                  /\ priced[s] = 1 * Now(s).units * (Now(s).revenue - Base(s).revenue)
  BY SkuChangeIsSum
<1>c. PICK costed :
        /\ SkuChange("cogs", -1) = Money(Sum(costed))
        /\ \A s \in Aligned :
             /\ costed[s] \in Int
             /\ Now(s).units = 0 => costed[s] = 0
             /\ Now(s).units # 0 =>
                  /\ Now(s).cogs \in Int
                  /\ costed[s] = (-1) * Now(s).units * (Now(s).cogs - Base(s).cogs)
  BY SkuChangeIsSum
<1>3. PICK after \in Int :
        /\ Sum(gained) = Parts * after
        /\ \A t \in Sold(now) : now.lines[t].revenue \in Int /\ now.lines[t].cogs \in Int
        /\ \A d \in Drivers : now.effects[d] \in Int
        /\ Contribution(now) = after + SumFunctionOnSet(now.effects, Drivers)
  BY <1>2, GainsAddUp DEF Bridged
<1>4. PICK before \in Int :
        /\ Sum(lost) = Parts * before
        /\ \A t \in Sold(base) :
             base.lines[t].revenue \in Int /\ base.lines[t].cogs \in Int
        /\ \A d \in Drivers : base.effects[d] \in Int
        /\ Contribution(base) = before + SumFunctionOnSet(base.effects, Drivers)
  BY <1>2, GainsAddUp DEF Bridged
<1>l. PICK less \in Int : less = -1
  OBVIOUS
<1>5. ASSUME NEW s \in Aligned
      PROVE  /\ old[s] \in Int /\ new[s] \in Int /\ more[s] = new[s] + less * old[s]
             /\ more[s] \in Int /\ mixed[s] \in Int
             /\ priced[s] \in Int /\ costed[s] \in Int
             /\ gained[s] \in Int /\ lost[s] \in Int
             /\ mixed[s] + w * more[s] + priced[s] + costed[s] = gained[s] - lost[s]
  <2>1. PICK q \in Nat, p \in Int, c \in Int, qq \in Nat :
          /\ q = Base(s).units /\ p = Base(s).revenue /\ c = Base(s).cogs
          /\ qq = Now(s).units
    BY BaseRow, NowRow
  <2>2. /\ old[s] = q /\ new[s] = qq /\ more[s] = qq - q
        /\ mixed[s] = (qq - q) * ((p - c) - w)
    BY <1>2, <1>l, <2>1, BaseRow DEF Change
  <2>3. lost[s] = q * (p - c)
    BY <1>2, <1>4, <2>1, BaseGain
  <2>4. q * (p - c) \in Int /\ (qq - q) * ((p - c) - w) \in Int
    OBVIOUS
  <2>5. CASE qq = 0
    <3>1. gained[s] = 0 /\ priced[s] = 0 /\ costed[s] = 0
      BY <1>2, <1>3, <1>p, <1>c, <2>1, <2>5, NowGain
    <3>2. (0 - q) * ((p - c) - w) + w * (0 - q) = - (q * (p - c))
      BY SkuAddsUp
    <3> QED BY <1>l, <2>2, <2>3, <2>4, <2>5, <3>1, <3>2
  <2>6. CASE qq # 0
    <3>1. PICK pp \in Int, cc \in Int : pp = Now(s).revenue /\ cc = Now(s).cogs
      BY <1>p, <1>c, <2>1, <2>6
    <3>2. /\ priced[s] = 1 * qq * (pp - p) /\ costed[s] = (-1) * qq * (cc - c)
          /\ priced[s] \in Int /\ costed[s] \in Int
      BY <1>p, <1>c, <2>1, <2>6, <3>1
    <3>3. gained[s] = qq * (pp - cc)
      BY <1>2, <1>3, <2>1, <2>6, <3>1, NowGain
    <3>4. (qq - q) * ((p - c) - w) + w * (qq - q)
             + 1 * qq * (pp - p) + (-1) * qq * (cc - c)
             = qq * (pp - cc) - q * (p - c)
      BY SkuAddsUp
    <3>5. qq * (pp - cc) \in Int
      OBVIOUS
    <3> QED BY <1>l, <2>2, <2>3, <2>4, <3>2, <3>3, <3>4, <3>5
  <2> QED BY <2>5, <2>6
<1>6. /\ Sum(old) \in Int /\ Sum(new) \in Int /\ Sum(more) \in Int /\ Sum(mixed) \in Int
      /\ Sum(priced) \in Int /\ Sum(costed) \in Int
      /\ Sum(gained) \in Int /\ Sum(lost) \in Int
  BY <1>5, SoldIsFinite, SumTyped
<1>7. Sum(more) = Sum(new) + less * Sum(old)
  BY <1>5, SoldIsFinite, SumIsLinear
<1>8. PICK a, b, d, e :
        /\ a = [s \in Aligned |-> mixed[s] + w * more[s]]
        /\ b = [s \in Aligned |-> a[s] + 1 * priced[s]]
        /\ d = [s \in Aligned |-> b[s] + 1 * costed[s]]
        /\ e = [s \in Aligned |-> gained[s] + less * lost[s]]
  OBVIOUS
<1>9. /\ \A s \in Aligned : a[s] \in Int /\ b[s] \in Int /\ d[s] \in Int
      /\ \A s \in Aligned : e[s] \in Int /\ d[s] = e[s]
  <2> SUFFICES ASSUME NEW s \in Aligned
               PROVE  /\ a[s] \in Int /\ b[s] \in Int /\ d[s] \in Int
                      /\ e[s] \in Int /\ d[s] = e[s]
    OBVIOUS
  <2>1. w * more[s] \in Int
    BY <1>5
  <2>2. /\ a[s] = mixed[s] + w * more[s] /\ b[s] = a[s] + priced[s]
        /\ d[s] = b[s] + costed[s] /\ e[s] = gained[s] - lost[s]
    BY <1>5, <1>8, <1>l
  <2> QED BY <1>5, <2>1, <2>2
<1>10. Sum(a) = Sum(mixed) + w * Sum(more)
  BY <1>5, <1>8, SoldIsFinite, SumIsLinear
<1>11. Sum(b) = Sum(a) + 1 * Sum(priced)
  BY <1>5, <1>8, <1>9, SoldIsFinite, SumIsLinear
<1>12. Sum(d) = Sum(b) + 1 * Sum(costed)
  BY <1>5, <1>8, <1>9, SoldIsFinite, SumIsLinear
<1>13. Sum(e) = Sum(gained) + less * Sum(lost)
  BY <1>5, <1>8, SoldIsFinite, SumIsLinear
<1>14. Sum(d) = Sum(e)
  BY <1>9, SoldIsFinite, SumOfSame
<1>15. PICK v \in Int : v = w * Sum(more)
  BY <1>6
<1>16. v + Sum(mixed) + Sum(priced) + Sum(costed) = Parts * after - Parts * before
  BY <1>3, <1>4, <1>l, <1>6, <1>10, <1>11, <1>12, <1>13, <1>14, <1>15
<1>17. Volume = Money(v) /\ Mix = Money(Sum(mixed))
  <2>1. Volume = Money((UnitsOf(Now) - UnitsOf(Base)) * w)
    BY <1>1 DEF Volume, Bridged
  <2>2. UnitsOf(Now) = Sum(new) /\ UnitsOf(Base) = Sum(old)
    BY <1>2 DEF UnitsOf, SumFunction
  <2>3. Mix = Money(Total(mixed))
    BY <1>1, <1>2 DEF Mix, Bridged
  <2>4. Total(mixed) = Sum(mixed)
    <3>1. \A s \in Aligned : mixed[s] # Unknown
      BY <1>5, BridgeAssumption
    <3> QED BY <1>2, <3>1 DEF Total, Known, Range, SumFunction
  <2>5. (Sum(new) - Sum(old)) * w = v
    BY <1>l, <1>6, <1>7, <1>15
  <2> QED BY <2>1, <2>2, <2>3, <2>4, <2>5
<1>18. PICK m \in Int, p \in Int, c \in Int :
         m = Sum(mixed) /\ p = Sum(priced) /\ c = Sum(costed)
  BY <1>6
<1>19. /\ Volume = Money(v) /\ Mix = Money(m)
       /\ SkuChange("revenue", 1) = Money(p) /\ SkuChange("cogs", -1) = Money(c)
       /\ v + m + p + c = Parts * after - Parts * before
  BY <1>p, <1>c, <1>16, <1>17, <1>18
<1> HIDE DEF Sum
<1> QED BY <1>3, <1>4, <1>19

LEMMA ResidualOfBuilt ==
  ASSUME base \in PeriodData, now \in PeriodData, ~LookupFails, Plain(base), Plain(now),
         NEW built, built = Built, built.change # Unknown,
         \A d \in DOMAIN built.amounts : built.amounts[d] # Unknown
  PROVE  built.residual \in -2..2
<1> DEFINE names == Valued \cup Drivers
<1>1. PICK amounts : amounts = [d \in names |-> Amount(d)]
  OBVIOUS
<1>2. PICK change, told :
        /\ change = Minus(Contribution(now), Contribution(base))
        /\ told = {d \in names : amounts[d] # Unknown}
  OBVIOUS
<1>3. /\ built.amounts = amounts /\ built.change = change
      /\ built.residual = Minus(change, SumFunctionOnSet(amounts, told))
  BY <1>1, <1>2 DEF Built
<1>4. change # Unknown /\ \A d \in names : amounts[d] # Unknown
  BY <1>1, <1>3
<1>5. told = names
  BY <1>2, <1>4
<1>6. Contribution(now) # Unknown /\ Contribution(base) # Unknown
  BY <1>2, <1>4 DEF Minus, Known
<1>7. /\ amounts["volume"] = Volume /\ amounts["mix"] = Mix
      /\ amounts["price_discount"] = SkuChange("revenue", 1)
      /\ amounts["cogs"] = SkuChange("cogs", -1)
      /\ \A d \in Drivers : amounts[d] = Minus(now.effects[d], base.effects[d])
  <2>1. \A d \in Drivers : d \notin Valued
    BY BridgeAssumption
  <2> QED BY <1>1, <2>1 DEF Amount, Valued
<1>8. /\ Volume # Unknown /\ Mix # Unknown
      /\ SkuChange("revenue", 1) # Unknown /\ SkuChange("cogs", -1) # Unknown
  BY <1>4, <1>7 DEF Valued
<1>9. Bridged
  <2>1. ~MarginsMissing
    BY <1>8 DEF Volume
  <2> QED BY <2>1 DEF Bridged, LookupFails
<1>10. PICK v \in Int, m \in Int, p \in Int, c \in Int, after \in Int, before \in Int :
         /\ Volume = Money(v) /\ Mix = Money(m)
         /\ SkuChange("revenue", 1) = Money(p) /\ SkuChange("cogs", -1) = Money(c)
         /\ v + m + p + c = Parts * after - Parts * before
         /\ \A d \in Drivers : now.effects[d] \in Int /\ base.effects[d] \in Int
         /\ Contribution(now) = after + SumFunctionOnSet(now.effects, Drivers)
         /\ Contribution(base) = before + SumFunctionOnSet(base.effects, Drivers)
  BY <1>6, <1>8, <1>9, DriversAddUp
<1>11. PICK vv \in Int, mm \in Int, pp \in Int, cc \in Int :
         vv = Money(v) /\ mm = Money(m) /\ pp = Money(p) /\ cc = Money(c)
  BY MoneyRounds
<1>12. PICK more \in Int, rest \in Int, less \in Int :
         /\ more = SumFunctionOnSet(now.effects, Drivers)
         /\ rest = SumFunctionOnSet(base.effects, Drivers) /\ less = -1
  BY <1>10, BridgeAssumption, SumTyped
<1>13. SumFunctionOnSet(amounts, Drivers) = more - rest
  <2>1. \A d \in Drivers : amounts[d] = now.effects[d] + less * base.effects[d]
    <3> SUFFICES ASSUME NEW d \in Drivers
                 PROVE  amounts[d] = now.effects[d] + less * base.effects[d]
      OBVIOUS
    <3>1. now.effects[d] \in Int /\ base.effects[d] \in Int
      BY <1>10
    <3>2. now.effects[d] \in IntOrUnknown /\ base.effects[d] \in IntOrUnknown
      BY <3>1 DEF IntOrUnknown
    <3>3. Minus(now.effects[d], base.effects[d]) = now.effects[d] - base.effects[d]
      BY <3>1, <3>2, MinusKnown
    <3> QED BY <1>7, <1>12, <3>1, <3>3
  <2>2. SumFunctionOnSet(amounts, Drivers) = more + less * rest
    <3>1. PICK f, g : f = now.effects /\ g = base.effects
      OBVIOUS
    <3>2. \A d \in Drivers : f[d] \in Int /\ g[d] \in Int /\ amounts[d] = f[d] + less * g[d]
      BY <1>10, <2>1, <3>1
    <3>3. IsFiniteSet(Drivers)
      BY BridgeAssumption
    <3>4. SumFunctionOnSet(amounts, Drivers) =
            SumFunctionOnSet(f, Drivers) + less * SumFunctionOnSet(g, Drivers)
      BY <3>2, <3>3, SumIsLinear
    <3> QED BY <1>12, <3>1, <3>4
  <2> QED BY <1>12, <2>2
<1>14. SumFunctionOnSet(amounts, names) = vv + pp + mm + cc + (more - rest)
  <2>1. \A d \in Valued \cup Drivers : amounts[d] \in Int
    <3>1. \A d \in Drivers : amounts[d] \in Int
      <4> SUFFICES ASSUME NEW d \in Drivers PROVE amounts[d] \in Int
        OBVIOUS
      <4>1. now.effects[d] \in Int /\ base.effects[d] \in Int
        BY <1>10
      <4> QED BY <1>7, <4>1, MinusKnown DEF IntOrUnknown
    <3>2. \A d \in Valued : amounts[d] \in Int
      BY <1>7, <1>10, <1>11 DEF Valued
    <3> QED BY <3>1, <3>2
  <2>2. SumFunctionOnSet(amounts, names) =
          amounts["volume"] + amounts["price_discount"] + amounts["mix"]
            + amounts["cogs"] + SumFunctionOnSet(amounts, Drivers)
    BY <2>1, SumOfDrivers
  <2> QED BY <1>7, <1>10, <1>11, <1>13, <2>2
<1>15. change = (after + more) - (before + rest)
  <2>1. Contribution(now) = after + more /\ Contribution(base) = before + rest
    BY <1>10, <1>12
  <2> QED BY <1>2, <2>1, MinusKnown DEF IntOrUnknown
<1>16. PICK r \in Int : r = (after - before) - (vv + mm + pp + cc)
  OBVIOUS
<1>17. built.residual = r
  <2>1. PICK total \in Int : total = vv + pp + mm + cc + (more - rest)
    OBVIOUS
  <2>2. SumFunctionOnSet(amounts, told) = total
    BY <1>5, <1>14, <2>1
  <2>3. change \in Int
    BY <1>15
  <2>4. built.residual = change - total
    BY <1>3, <2>2, <2>3, MinusKnown DEF IntOrUnknown
  <2> QED BY <1>15, <1>16, <2>1, <2>4
<1>18. PICK x \in Nat \ {0} : x = Parts
  BY BridgeAssumption
<1>19. /\ -x <= 2 * (x * vv - v) /\ 2 * (x * vv - v) <= x
       /\ -x <= 2 * (x * mm - m) /\ 2 * (x * mm - m) <= x
       /\ -x <= 2 * (x * pp - p) /\ 2 * (x * pp - p) <= x
       /\ -x <= 2 * (x * cc - c) /\ 2 * (x * cc - c) <= x
  BY <1>11, <1>18, MoneyRounds
<1>20. x * r = (x * after - x * before) - (x * vv + x * mm + x * pp + x * cc)
  BY <1>16
<1>21. v + m + p + c = x * after - x * before
  BY <1>10, <1>18
<1>22. -(2 * x) <= x * r /\ x * r <= 2 * x
  <2>1. /\ x * after \in Int /\ x * before \in Int /\ x * vv \in Int /\ x * mm \in Int
        /\ x * pp \in Int /\ x * cc \in Int /\ x * r \in Int
    OBVIOUS
  <2> QED BY <1>19, <1>20, <1>21, <2>1
<1>23. r <= 2 /\ -2 <= r
  <2>1. CASE r > 2
    <3>1. x * r >= x * 3
      BY <2>1
    <3> QED BY <1>22, <3>1
  <2>2. CASE r < -2
    <3>1. x * r <= x * (-3)
      BY <2>2
    <3> QED BY <1>22, <3>1
  <2> QED BY <2>1, <2>2
<1> QED BY <1>17, <1>23

BridgeInv ==
  /\ bridge.result \in {"none", "requested", "failed", "built"}
  /\ bridge.result # "none" => base \in PeriodData /\ now \in PeriodData
  /\ ResidualIsRounding

LEMMA BridgeStep == BridgeInv /\ [BridgeNext]_bridgeVars => BridgeInv'
<1> SUFFICES ASSUME BridgeInv, [BridgeNext]_bridgeVars PROVE BridgeInv'
  OBVIOUS
<1>0. /\ NoBridge.result = "none" /\ Requested.result = "requested"
      /\ Failed.result = "failed" /\ Built.result = "built"
  BY DEF NoBridge, Requested, Failed, Built
<1>1. CASE ReadPeriods
  <2>1. bridge'.result = "requested" /\ base' \in PeriodData /\ now' \in PeriodData
    BY <1>0, <1>1 DEF ReadPeriods
  <2>2. PeriodData' = PeriodData
    BY DEF PeriodData
  <2> QED BY <2>1, <2>2 DEF BridgeInv, ResidualIsRounding, Complete
<1>2. CASE BuildBridge /\ LookupFails
  <2>1. /\ bridge'.result = "failed" /\ bridge.result = "requested"
        /\ UNCHANGED <<base, now>>
    BY <1>0, <1>2 DEF BuildBridge
  <2> QED BY <2>1 DEF BridgeInv, ResidualIsRounding, Complete, PeriodData
<1>3. CASE BuildBridge /\ ~LookupFails
  <2>1. PICK built : built = Built
    OBVIOUS
  <2>2. /\ bridge' = built /\ built.result = "built" /\ bridge.result = "requested"
        /\ UNCHANGED <<base, now>>
    BY <1>0, <1>3, <2>1 DEF BuildBridge
  <2>3. base \in PeriodData /\ now \in PeriodData
    BY <2>2 DEF BridgeInv
  <2>4. Complete' => built.residual \in -2..2
    <3> SUFFICES ASSUME Complete' PROVE built.residual \in -2..2
      OBVIOUS
    <3>1. /\ built.change # Unknown
          /\ \A d \in DOMAIN built.amounts : built.amounts[d] # Unknown
      BY <2>2 DEF Complete
    <3>2. Plain(base) /\ Plain(now)
      BY <2>2 DEF Complete, Plain, Sold
    <3> QED BY <1>3, <2>1, <2>3, <3>1, <3>2, ResidualOfBuilt
  <2>5. ResidualIsRounding'
    BY <2>2, <2>4 DEF ResidualIsRounding
  <2> QED BY <2>2, <2>3, <2>5 DEF BridgeInv, PeriodData
<1>4. CASE UNCHANGED bridgeVars
  BY <1>4 DEF bridgeVars, BridgeInv, ResidualIsRounding, Complete, Plain, Sold, PeriodData
<1> QED BY <1>1, <1>2, <1>3, <1>4 DEF BridgeNext

\* Whatever two periods sold, at which prices and costs, with SKUs that are new or gone,
\* and whatever these are assumed to have cost before: if no driver of build_profit_bridge
\* is unknown, they explain the change of calculate_operating_profit but for the rounding
\* of four amounts.
THEOREM DriversExplainTheChange == BridgeSpec => []ResidualIsRounding
<1>1. BridgeInit => BridgeInv
  BY DEF BridgeInit, BridgeInv, NoBridge, ResidualIsRounding, Complete
<1>2. BridgeInv => ResidualIsRounding
  BY DEF BridgeInv
<1> QED BY <1>1, <1>2, BridgeStep, PTL DEF BridgeSpec

-----------------------------------------------------------------------------
(***************************************************************************)
(* Recursion over the elements of a set                                    *)
(***************************************************************************)
Recurses(f, sets, none, last, step) ==
  \A T \in sets : f[T] = IF T = {} THEN none ELSE step[<<f[T \ {last[T]}], last[T]>>]

\* A function that recurses over a set, taking off its last element, is what its
\* definition says.
LEMMA RecursionExists ==
  ASSUME NEW S, IsFiniteSet(S), NEW Values, NEW none \in Values, NEW last,
         \A T \in SUBSET S : T # {} => last[T] \in T,
         NEW step \in [Values \X S -> Values]
  PROVE  \E f \in [SUBSET S -> Values] : Recurses(f, SUBSET S, none, last, step)
<1> DEFINE Upto(n) == {T \in SUBSET S : Cardinality(T) <= n}
           P == {n \in Nat : \E f \in [Upto(n) -> Values] :
                               Recurses(f, Upto(n), none, last, step)}
<1>0. \A T \in SUBSET S : IsFiniteSet(T) /\ Cardinality(T) \in Nat
  BY FS_Subset, FS_CardinalityType
<1>1. 0 \in P
  <2>1. Upto(0) = {{}}
    BY <1>0, FS_EmptySet
  <2>2. Recurses([T \in {{}} |-> none], {{}}, none, last, step)
    BY DEF Recurses
  <2>3. [T \in {{}} |-> none] \in [{{}} -> Values]
    OBVIOUS
  <2> QED BY <2>1, <2>2, <2>3
<1>2. ASSUME NEW n \in Nat, n \in P PROVE n + 1 \in P
  <2>1. PICK up, next : up = Upto(n) /\ next = Upto(n + 1)
    OBVIOUS
  <2>2. PICK f \in [up -> Values] : Recurses(f, up, none, last, step)
    BY <1>2, <2>1
  <2>3. PICK g : g = [T \in next |-> IF T = {} THEN none
                                     ELSE step[<<f[T \ {last[T]}], last[T]>>]]
    OBVIOUS
  <2>4. up \subseteq next
    BY <1>0, <2>1
  <2>5. ASSUME NEW T \in next, T # {} PROVE T \ {last[T]} \in up /\ last[T] \in S
    <3>1. last[T] \in T /\ T \in SUBSET S
      BY <2>1, <2>5
    <3>2. Cardinality(T \ {last[T]}) = Cardinality(T) - 1
      BY <1>0, <3>1, FS_RemoveElement
    <3>3. Cardinality(T) <= n + 1 /\ T \ {last[T]} \in SUBSET S
      BY <2>1, <3>1
    <3> QED BY <1>0, <2>1, <3>1, <3>2, <3>3
  <2> HIDE DEF Upto
  <2>6. ASSUME NEW T \in up PROVE g[T] = f[T]
    BY <2>2, <2>3, <2>4 DEF Recurses
  <2>7. Recurses(g, next, none, last, step)
    <3> SUFFICES ASSUME NEW T \in next
                 PROVE  g[T] = IF T = {} THEN none
                               ELSE step[<<g[T \ {last[T]}], last[T]>>]
      BY DEF Recurses
    <3>1. g[T] = IF T = {} THEN none ELSE step[<<f[T \ {last[T]}], last[T]>>]
      BY <2>3
    <3> QED BY <2>5, <2>6, <3>1
  <2>8. g \in [next -> Values]
    <3>1. ASSUME NEW T \in next, T # {}
          PROVE  step[<<f[T \ {last[T]}], last[T]>>] \in Values
      <4>1. f[T \ {last[T]}] \in Values /\ last[T] \in S
        BY <2>2, <2>5, <3>1
      <4> QED BY <4>1
    <3> QED BY <2>3, <3>1
  <2> QED BY <2>1, <2>7, <2>8
<1>3. Cardinality(S) \in P
  <2> HIDE DEF P
  <2> QED BY <1>0, <1>1, <1>2, InductionOnNaturals
<1>4. Upto(Cardinality(S)) = SUBSET S
  <2> SUFFICES ASSUME NEW T \in SUBSET S PROVE Cardinality(T) <= Cardinality(S)
    OBVIOUS
  <2> QED BY FS_Subset
<1>5. \E f \in [Upto(Cardinality(S)) -> Values] :
        Recurses(f, Upto(Cardinality(S)), none, last, step)
  BY <1>3
<1> QED
  <2> HIDE DEF Upto
  <2> QED BY <1>4, <1>5

-----------------------------------------------------------------------------
(***************************************************************************)
(* The rows in order                                                       *)
(***************************************************************************)
LEMMA LatestIs ==
  ASSUME NEW S, IsFiniteSet(S), S \subseteq Nat, NEW rows, \A i \in S : rows[i].day \in Nat
  PROVE  \A T \in SUBSET S : T # {} =>
           /\ Latest(rows, T) \in T
           /\ \A j \in T \ {Latest(rows, T)} : Before(rows, j, Latest(rows, T))
<1> DEFINE Has(T) == \E i \in T : \A j \in T \ {i} : Before(rows, j, i)
           P == {T \in SUBSET S : T # {} => Has(T)}
<1>1. {} \in P
  OBVIOUS
<1>2. ASSUME NEW T \in SUBSET S, T # {}, \A x \in T : T \ {x} \in P PROVE T \in P
  <2>1. PICK x \in T : TRUE
    BY <1>2
  <2>2. CASE T \ {x} = {}
    <3>1. \A j \in T \ {x} : Before(rows, j, x)
      BY <2>2
    <3> QED BY <3>1
  <2>3. CASE T \ {x} # {}
    <3>1. PICK i \in T \ {x} : \A j \in (T \ {x}) \ {i} : Before(rows, j, i)
      BY <1>2, <2>3
    <3>2. /\ rows[i].day \in Nat /\ rows[x].day \in Nat /\ i \in Nat /\ x \in Nat /\ i # x
          /\ \A j \in T : j \in Nat /\ rows[j].day \in Nat
      OBVIOUS
    <3>3. CASE Before(rows, x, i)
      <4>1. \A j \in T \ {i} : Before(rows, j, i)
        BY <3>1, <3>3
      <4> QED BY <4>1
    <3>4. CASE ~Before(rows, x, i)
      <4>1. Before(rows, i, x)
        BY <3>2, <3>4 DEF Before
      <4>2. \A j \in T \ {x} : Before(rows, j, x)
        BY <3>1, <3>2, <4>1 DEF Before
      <4> QED BY <4>2
    <3> QED BY <3>3, <3>4
  <2> QED BY <2>2, <2>3
<1>3. SUBSET S \subseteq P
  <2> HIDE DEF P
  <2> QED BY <1>1, <1>2, InductionOnSets
<1>4. ASSUME NEW T \in SUBSET S, T # {} PROVE Has(T)
  BY <1>3, <1>4
<1> QED BY <1>4 DEF Latest

LEMMA MinIs ==
  \A a, b \in Nat : Min({a, b}) = IF a <= b THEN a ELSE b
<1> SUFFICES ASSUME NEW a \in Nat, NEW b \in Nat PROVE Min({a, b}) = IF a <= b THEN a ELSE b
  OBVIOUS
<1>1. CASE a <= b
  BY <1>1 DEF Min
<1>2. CASE ~(a <= b)
  BY <1>2 DEF Min
<1> QED BY <1>1, <1>2

-----------------------------------------------------------------------------
(***************************************************************************)
(* One event                                                               *)
(***************************************************************************)
Stocked == lot \in [Lots -> Rows] /\ out \in [Outbounds -> Rows]
Stocks == [Lots -> Nat]

LEMMA StockTyped ==
  ASSUME Stocked
  PROVE  /\ \A l \in Lots : /\ l \in Nat /\ lot[l].sku \in Skus /\ lot[l].day \in Days
                            /\ lot[l].day \in Nat /\ lot[l].units \in Nat /\ UnitCost[l] \in Nat
         /\ \A o \in Outbounds : /\ o \in Nat /\ out[o].sku \in Skus /\ out[o].day \in Days
                                 /\ out[o].day \in Nat /\ out[o].units \in Nat
         /\ IsFiniteSet(Lots) /\ IsFiniteSet(Outbounds) /\ IsFiniteSet(Skus)
<1>1. /\ \A l \in Lots : lot[l] \in Rows
      /\ \A o \in Outbounds : out[o] \in Rows
  BY DEF Stocked
<1>2. \A row \in Rows : /\ row.sku \in Skus /\ row.day \in Days /\ row.day \in Nat
                        /\ row.units \in Nat
  <2> SUFFICES ASSUME NEW row \in Rows
               PROVE  row.sku \in Skus /\ row.day \in Days /\ row.day \in Nat /\ row.units \in Nat
    OBVIOUS
  <2>1. row.sku \in Skus /\ row.day \in Days /\ row.units \in Quantities
    BY DEF Rows
  <2>2. Quantities \subseteq Nat /\ Days \subseteq Nat
    BY FifoAssumption DEF Days
  <2> QED BY <2>1, <2>2
<1>3. \A l \in Lots : l \in Nat /\ UnitCost[l] \in Nat
  BY FifoAssumption
<1> QED BY <1>1, <1>2, <1>3, FifoAssumption

LEMMA LastLot ==
  ASSUME Stocked, NEW T \in SUBSET Lots, T # {}, NEW l, l = Latest(lot, T)
  PROVE  /\ l \in T
         /\ \A m \in T \ {l} : Before(lot, m, l)
<1>1. \A i \in Lots : lot[i].day \in Nat
  BY StockTyped
<1>2. IsFiniteSet(Lots) /\ Lots \subseteq Nat
  BY FifoAssumption
<1> QED BY <1>1, <1>2, LatestIs

LEMMA LastEvent ==
  ASSUME Stocked, NEW E \in SUBSET Outbounds, E # {}, NEW o, o = Latest(out, E)
  PROVE  /\ o \in E
         /\ \A e \in E \ {o} : Before(out, e, o)
<1>1. \A i \in Outbounds : out[i].day \in Nat
  BY StockTyped
<1>2. IsFiniteSet(Outbounds) /\ Outbounds \subseteq Nat
  BY FifoAssumption
<1> QED BY <1>1, <1>2, LatestIs

Supplies == [need : Nat, left : Stocks, drawn : Stocks]

\* What a lot gives.
Given(o, state, l) ==
  IF lot[l].day > out[o].day THEN 0
  ELSE IF state.need <= state.left[l] THEN state.need ELSE state.left[l]

LEMMA DrawIs ==
  ASSUME Stocked, NEW o \in Outbounds, NEW state, state.need \in Nat,
         state.left \in Stocks, NEW l \in Lots
  PROVE  /\ Given(o, state, l) \in 0..state.need /\ Given(o, state, l) \in 0..state.left[l]
         /\ Draw(o, state, l) =
              [need |-> state.need - Given(o, state, l),
               left |-> [state.left EXCEPT ![l] = state.left[l] - Given(o, state, l)],
               drawn |-> [state.drawn EXCEPT ![l] = Given(o, state, l)]]
<1>1. state.left[l] \in Nat
  BY DEF Stocks
<1>2. Min({state.need, state.left[l]}) =
        IF state.need <= state.left[l] THEN state.need ELSE state.left[l]
  BY <1>1, MinIs
<1> QED BY <1>1, <1>2 DEF Draw, Given

LEMMA DrawTyped ==
  ASSUME Stocked, NEW o \in Outbounds, NEW state \in Supplies, NEW l \in Lots
  PROVE  Draw(o, state, l) \in Supplies
<1>1. state.need \in Nat /\ state.left \in Stocks /\ state.drawn \in Stocks
  BY DEF Supplies
<1>2. PICK g : g = Given(o, state, l)
  OBVIOUS
<1>3. /\ g \in 0..state.need /\ g \in 0..state.left[l]
      /\ Draw(o, state, l) =
           [need |-> state.need - g, left |-> [state.left EXCEPT ![l] = state.left[l] - g],
            drawn |-> [state.drawn EXCEPT ![l] = g]]
  BY <1>1, <1>2, DrawIs
<1>4. state.left[l] \in Nat
  BY <1>1 DEF Stocks
<1>5. state.need - g \in Nat /\ state.left[l] - g \in Nat /\ g \in Nat
  BY <1>1, <1>3, <1>4
<1> QED BY <1>1, <1>3, <1>5 DEF Supplies, Stocks

LEMMA SupplyIs ==
  ASSUME Stocked, NEW o \in Outbounds, NEW left \in Stocks
  PROVE  /\ Supply(o, left)[{}] =
              [need |-> out[o].units, left |-> left, drawn |-> [l \in Lots |-> 0]]
         /\ \A T \in SUBSET Lots : T # {} =>
              Supply(o, left)[T] = Draw(o, Supply(o, left)[T \ {Latest(lot, T)}], Latest(lot, T))
<1>1. PICK none : none = [need |-> out[o].units, left |-> left, drawn |-> [l \in Lots |-> 0]]
  OBVIOUS
<1>2. none \in Supplies
  BY <1>1, StockTyped DEF Supplies, Stocks
<1>3. PICK last : last = [T \in SUBSET Lots |-> Latest(lot, T)]
  OBVIOUS
<1>4. PICK step : step = [pair \in Supplies \X Lots |-> Draw(o, pair[1], pair[2])]
  OBVIOUS
<1>5. step \in [Supplies \X Lots -> Supplies]
  BY <1>4, DrawTyped
<1>6. \A T \in SUBSET Lots : T # {} => last[T] \in T
  BY <1>3, LastLot
<1>7. PICK f \in [SUBSET Lots -> Supplies] : Recurses(f, SUBSET Lots, none, last, step)
  BY <1>2, <1>5, <1>6, StockTyped, RecursionExists
<1>8. f = [set \in SUBSET Lots |->
             IF set = {} THEN none
             ELSE Draw(o, f[set \ {Latest(lot, set)}], Latest(lot, set))]
  <2>1. ASSUME NEW T \in SUBSET Lots, T # {}
        PROVE  f[T] = Draw(o, f[T \ {Latest(lot, T)}], Latest(lot, T))
    <3>1. f[T] = step[<<f[T \ {Latest(lot, T)}], Latest(lot, T)>>]
      BY <1>3, <1>7, <2>1 DEF Recurses
    <3>2. f[T \ {Latest(lot, T)}] \in Supplies /\ Latest(lot, T) \in Lots
      BY <1>7, <2>1, LastLot
    <3> QED BY <1>4, <3>1, <3>2
  <2>2. f[{}] = none
    BY <1>7 DEF Recurses
  <2> QED BY <1>7, <2>1, <2>2
<1>9. Supply(o, left) =
        [set \in SUBSET Lots |->
           IF set = {} THEN none
           ELSE Draw(o, Supply(o, left)[set \ {Latest(lot, set)}], Latest(lot, set))]
  BY <1>1, <1>8 DEF Supply
<1> QED BY <1>1, <1>9

\* One value changes the sum by what it changes.
LEMMA SumOfUpdate ==
  ASSUME NEW S, IsFiniteSet(S), NEW f, \A x \in S : f[x] \in Int, NEW y \in S, NEW g,
         g[y] \in Int, \A x \in S \ {y} : g[x] = f[x]
  PROVE  SumFunctionOnSet(g, S) = SumFunctionOnSet(f, S) + (g[y] - f[y])
<1>1. PICK rest : rest = S \ {y}
  OBVIOUS
<1>2. \A x \in S : g[x] \in Int
  OBVIOUS
<1>3. SumFunctionOnSet(f, S) = f[y] + SumFunctionOnSet(f, rest)
  BY <1>1, SumOfOne
<1>4. SumFunctionOnSet(g, S) = g[y] + SumFunctionOnSet(g, rest)
  BY <1>1, <1>2, SumOfOne
<1>5. SumFunctionOnSet(g, rest) = SumFunctionOnSet(f, rest)
  <2>1. IsFiniteSet(rest) /\ \A x \in rest : f[x] \in Int /\ g[x] = f[x]
    BY <1>1, FS_Subset
  <2> QED BY <2>1, SumOfSame
<1>6. SumFunctionOnSet(f, rest) \in Int /\ f[y] \in Int
  <2>1. rest \in SUBSET S
    BY <1>1
  <2> QED BY <2>1, SumTyped
<1> QED BY <1>3, <1>4, <1>5, <1>6

\* What an event gets from a set of lots, whatever they had left.
Supplied(o, left, T, r) ==
  /\ r \in Supplies
  /\ \A l \in Lots : r.left[l] = left[l] - r.drawn[l]
  /\ \A l \in Lots : r.drawn[l] > 0 => l \in T /\ lot[l].day <= out[o].day
  /\ r.need + SumFunctionOnSet(r.drawn, Lots) = out[o].units
  /\ \A l \in Lots, m \in T : r.drawn[l] > 0 /\ Before(lot, m, l) => r.left[m] = 0
  /\ r.need > 0 => \A m \in T : lot[m].day <= out[o].day => r.left[m] = 0

LEMMA SuppliedByNone ==
  ASSUME Stocked, NEW o \in Outbounds, NEW left \in Stocks, NEW r,
         r = [need |-> out[o].units, left |-> left, drawn |-> [l \in Lots |-> 0]]
  PROVE  Supplied(o, left, {}, r)
<1>1. r \in Supplies
  BY StockTyped DEF Supplies, Stocks
<1>2. PICK zero : zero = [l \in Lots |-> 0]
  OBVIOUS
<1>3. SumFunctionOnSet(zero, Lots) = 0
  <2>1. {} \in SUBSET Lots /\ \A l \in Lots : zero[l] = 0 /\ zero[l] \in Int
    BY <1>2
  <2>2. SumFunctionOnSet(zero, Lots) = SumFunctionOnSet(zero, {})
    BY <2>1, StockTyped, SumOfTheRest
  <2> QED BY <2>2, SumOfNone
<1>4. r.drawn = zero /\ r.need = out[o].units /\ r.left = left
  BY <1>2
<1>5. \A l \in Lots : r.drawn[l] = 0 /\ r.left[l] = left[l] - 0
  BY <1>2, <1>4 DEF Stocks
<1>6. r.need + SumFunctionOnSet(r.drawn, Lots) = out[o].units
  BY <1>3, <1>4, StockTyped
<1> HIDE DEF Supplies
<1> QED BY <1>1, <1>5, <1>6 DEF Supplied

\* A lot that comes later than the event changes nothing.
LEMMA LaterLotGivesNothing ==
  ASSUME Stocked, NEW o \in Outbounds, NEW q \in Supplies, NEW l \in Lots,
         q.drawn[l] = 0, ~(lot[l].day <= out[o].day)
  PROVE  Draw(o, q, l) = q
<1>1. q.need \in Nat /\ q.left \in Stocks /\ q.drawn \in Stocks
      /\ q = [need |-> q.need, left |-> q.left, drawn |-> q.drawn]
  BY DEF Supplies
<1>2. Given(o, q, l) = 0
  BY StockTyped DEF Given
<1>3. Draw(o, q, l) = [need |-> q.need - 0, left |-> [q.left EXCEPT ![l] = q.left[l] - 0],
                       drawn |-> [q.drawn EXCEPT ![l] = 0]]
  BY <1>1, <1>2, DrawIs
<1>4. q.need - 0 = q.need /\ q.left[l] - 0 = q.left[l]
  BY <1>1 DEF Stocks
<1>5. [q.left EXCEPT ![l] = q.left[l]] = q.left /\ [q.drawn EXCEPT ![l] = 0] = q.drawn
  BY <1>1 DEF Stocks
<1> QED BY <1>1, <1>3, <1>4, <1>5

LEMMA SuppliedByOneMore ==
  ASSUME Stocked, NEW o \in Outbounds, NEW left \in Stocks, NEW T \in SUBSET Lots, T # {},
         NEW l, l = Latest(lot, T), NEW q, Supplied(o, left, T \ {l}, q)
  PROVE  Supplied(o, left, T, Draw(o, q, l))
<1>1. l \in T /\ l \in Lots /\ \A m \in T \ {l} : Before(lot, m, l)
  BY LastLot
<1>2. q \in Supplies /\ q.need \in Nat /\ q.left \in Stocks /\ q.drawn \in Stocks
  BY DEF Supplied, Supplies
<1>3. q.drawn[l] = 0
  BY <1>1, <1>2 DEF Supplied, Stocks
<1>4. CASE ~(lot[l].day <= out[o].day)
  <2>1. Draw(o, q, l) = q
    BY <1>1, <1>2, <1>3, <1>4, LaterLotGivesNothing
  <2>2. \A k \in Lots : q.drawn[k] > 0 => k \in T
    BY <1>1 DEF Supplied
  <2>3. \A k \in Lots : q.drawn[k] > 0 => ~Before(lot, l, k)
    <3> SUFFICES ASSUME NEW k \in Lots, q.drawn[k] > 0 PROVE ~Before(lot, l, k)
      OBVIOUS
    <3>1. k \in T \ {l}
      BY <1>3 DEF Supplied
    <3>2. Before(lot, k, l)
      BY <1>1, <3>1
    <3> QED BY <1>1, <3>2, StockTyped DEF Before
  <2>4. \A k \in Lots, m \in T : q.drawn[k] > 0 /\ Before(lot, m, k) => q.left[m] = 0
    BY <2>3 DEF Supplied
  <2>5. q.need > 0 => \A m \in T : lot[m].day <= out[o].day => q.left[m] = 0
    BY <1>4 DEF Supplied
  <2> QED BY <2>1, <2>2, <2>4, <2>5 DEF Supplied
<1>5. CASE lot[l].day <= out[o].day
  <2>1. PICK g : g = Given(o, q, l)
    OBVIOUS
  <2>2. PICK r : r = Draw(o, q, l)
    OBVIOUS
  <2>3. /\ g \in 0..q.need /\ g \in 0..q.left[l]
        /\ r = [need |-> q.need - g, left |-> [q.left EXCEPT ![l] = q.left[l] - g],
                drawn |-> [q.drawn EXCEPT ![l] = g]]
    BY <1>1, <1>2, <2>1, <2>2, DrawIs
  <2>4. r \in Supplies
    BY <1>1, <1>2, <2>2, DrawTyped
  <2>5. /\ r.need = q.need - g /\ r.left[l] = q.left[l] - g /\ r.drawn[l] = g
        /\ \A m \in Lots \ {l} : r.left[m] = q.left[m] /\ r.drawn[m] = q.drawn[m]
        /\ g \in Nat /\ q.left[l] \in Nat
    BY <1>1, <1>2, <2>3 DEF Stocks
  <2>6. g = q.need \/ r.left[l] = 0
    BY <1>1, <1>5, <2>1, <2>5, <1>2, StockTyped DEF Given
  <2>7. \A k \in Lots : r.left[k] = left[k] - r.drawn[k]
    <3> SUFFICES ASSUME NEW k \in Lots PROVE r.left[k] = left[k] - r.drawn[k]
      OBVIOUS
    <3>1. q.left[k] = left[k] - q.drawn[k] /\ left[k] \in Nat
      BY DEF Supplied, Stocks
    <3> QED BY <1>3, <2>5, <3>1
  <2>8. \A k \in Lots : r.drawn[k] > 0 => k \in T /\ lot[k].day <= out[o].day
    BY <1>1, <1>5, <2>5 DEF Supplied
  <2>9. r.need + SumFunctionOnSet(r.drawn, Lots) = out[o].units
    <3>1. \A k \in Lots : q.drawn[k] \in Int
      BY <1>2 DEF Stocks
    <3>2. SumFunctionOnSet(r.drawn, Lots) = SumFunctionOnSet(q.drawn, Lots) + (r.drawn[l] - q.drawn[l])
      BY <1>1, <2>5, <3>1, StockTyped, SumOfUpdate
    <3>3. SumFunctionOnSet(q.drawn, Lots) \in Int
      BY <3>1, StockTyped, SumTyped
    <3>4. q.need + SumFunctionOnSet(q.drawn, Lots) = out[o].units
      BY DEF Supplied
    <3> QED BY <1>2, <1>3, <2>5, <3>2, <3>3, <3>4
  <2>10. \A k \in Lots, m \in T : r.drawn[k] > 0 /\ Before(lot, m, k) => r.left[m] = 0
    <3> SUFFICES ASSUME NEW k \in Lots, NEW m \in T, r.drawn[k] > 0, Before(lot, m, k)
                 PROVE  r.left[m] = 0
      OBVIOUS
    <3>1. CASE k = l
      <4>1. q.need > 0
        BY <1>2, <2>3, <2>5, <3>1
      <4>2. m # l /\ m \in T \ {l} /\ lot[m].day <= out[o].day
        BY <1>1, <1>5, <3>1, StockTyped DEF Before
      <4>3. q.left[m] = 0
        BY <4>1, <4>2 DEF Supplied
      <4> QED BY <2>5, <4>2, <4>3
    <3>2. CASE k # l
      <4>1. q.drawn[k] > 0 /\ k \in T \ {l}
        BY <2>5, <3>2 DEF Supplied
      <4>2. m # l
        BY <1>1, <4>1, StockTyped DEF Before
      <4>3. q.left[m] = 0
        BY <4>1, <4>2 DEF Supplied
      <4> QED BY <2>5, <4>2, <4>3
    <3> QED BY <3>1, <3>2
  <2>11. r.need > 0 => \A m \in T : lot[m].day <= out[o].day => r.left[m] = 0
    <3> SUFFICES ASSUME r.need > 0, NEW m \in T, lot[m].day <= out[o].day PROVE r.left[m] = 0
      OBVIOUS
    <3>1. CASE m = l
      BY <1>2, <2>5, <2>6, <3>1
    <3>2. CASE m # l
      <4>1. q.need > 0
        BY <1>2, <2>5
      <4>2. q.left[m] = 0
        BY <3>2, <4>1 DEF Supplied
      <4> QED BY <2>5, <3>2, <4>2
    <3> QED BY <3>1, <3>2
  <2>12. Supplied(o, left, T, r)
    BY <2>4, <2>7, <2>8, <2>9, <2>10, <2>11 DEF Supplied
  <2> QED BY <2>2, <2>12
<1> QED BY <1>4, <1>5

\* What an event draws from a set of lots: the oldest first, and all it can.
LEMMA AllSupplied ==
  ASSUME Stocked, NEW o \in Outbounds, NEW left \in Stocks
  PROVE  \A T \in SUBSET Lots : Supplied(o, left, T, Supply(o, left)[T])
<1> DEFINE P == {T \in SUBSET Lots : Supplied(o, left, T, Supply(o, left)[T])}
<1>1. {} \in P
  BY SupplyIs, SuppliedByNone
<1>2. ASSUME NEW T \in SUBSET Lots, T # {}, \A x \in T : T \ {x} \in P PROVE T \in P
  <2>1. PICK l : l = Latest(lot, T)
    OBVIOUS
  <2>2. l \in T
    BY <1>2, <2>1, LastLot
  <2>3. Supplied(o, left, T \ {l}, Supply(o, left)[T \ {l}])
    BY <1>2, <2>2
  <2>4. Supply(o, left)[T] = Draw(o, Supply(o, left)[T \ {l}], l)
    BY <1>2, <2>1, SupplyIs
  <2>5. Supplied(o, left, T, Supply(o, left)[T])
    BY <1>2, <2>1, <2>3, <2>4, SuppliedByOneMore
  <2> QED BY <2>5
<1>3. SUBSET Lots \subseteq P
  <2> HIDE DEF P
  <2> QED BY <1>1, <1>2, StockTyped, InductionOnSets
<1> QED BY <1>3

\* Only the lots matter that had come.
Reach(o) == {l \in Lots : lot[l].day <= out[o].day}

\* Lots that came later give the event nothing, whether the loop looks at them or not.
LEMMA OnlyThoseInReach ==
  ASSUME Stocked, NEW o \in Outbounds, NEW left \in Stocks
  PROVE  \A T \in SUBSET Lots : Supply(o, left)[T] = Supply(o, left)[T \cap Reach(o)]
<1> DEFINE P == {T \in SUBSET Lots : Supply(o, left)[T] = Supply(o, left)[T \cap Reach(o)]}
<1>1. {} \in P
  <2>1. {} \cap Reach(o) = {}
    OBVIOUS
  <2> QED BY <2>1
<1>2. ASSUME NEW T \in SUBSET Lots, T # {}, \A x \in T : T \ {x} \in P PROVE T \in P
  <2>1. PICK l : l = Latest(lot, T)
    OBVIOUS
  <2>2. l \in T /\ \A m \in T \ {l} : Before(lot, m, l)
    BY <1>2, <2>1, LastLot
  <2>3. CASE lot[l].day <= out[o].day
    <3>1. \A m \in T : lot[m].day <= out[o].day
      BY <2>2, <2>3, StockTyped DEF Before
    <3>2. T \cap Reach(o) = T
      BY <3>1 DEF Reach
    <3> QED BY <3>2
  <2>4. CASE ~(lot[l].day <= out[o].day)
    <3>1. PICK q : q = Supply(o, left)[T \ {l}]
      OBVIOUS
    <3>2. Supplied(o, left, T \ {l}, q)
      BY <3>1, AllSupplied
    <3>3. q \in Supplies /\ q.drawn[l] \in Nat
      BY <2>2, <3>2 DEF Supplied, Supplies, Stocks
    <3>4. q.drawn[l] = 0
      BY <2>2, <3>2, <3>3 DEF Supplied
    <3>5. Supply(o, left)[T] = q
      <4>1. Supply(o, left)[T] = Draw(o, q, l)
        BY <1>2, <2>1, <3>1, SupplyIs
      <4>2. Draw(o, q, l) = q
        BY <2>2, <2>4, <3>3, <3>4, LaterLotGivesNothing
      <4> QED BY <4>1, <4>2
    <3>6. T \cap Reach(o) = (T \ {l}) \cap Reach(o)
      BY <2>4 DEF Reach
    <3>7. q = Supply(o, left)[(T \ {l}) \cap Reach(o)]
      BY <1>2, <2>2, <3>1
    <3> QED BY <3>5, <3>6, <3>7
  <2> QED BY <2>3, <2>4
<1>3. SUBSET Lots \subseteq P
  <2> HIDE DEF P
  <2> QED BY <1>1, <1>2, StockTyped, InductionOnSets
<1> QED BY <1>3

BridgeSupplies == [need : Nat, left : Stocks, cost : Nat]

LEMMA BridgeDrawIs ==
  ASSUME Stocked, NEW o \in Outbounds, NEW state, state.need \in Nat,
         state.left \in Stocks, NEW l \in Lots
  PROVE  BridgeDraw(o, state, l) =
           IF lot[l].day > out[o].day \/ state.left[l] = 0 THEN state
           ELSE [need |-> state.need - Given(o, state, l),
                 left |-> [state.left EXCEPT ![l] = state.left[l] - Given(o, state, l)],
                 cost |-> state.cost + Given(o, state, l) * UnitCost[l]]
<1>1. state.left[l] \in Nat
  BY DEF Stocks
<1>2. Min({state.need, state.left[l]}) =
        IF state.need <= state.left[l] THEN state.need ELSE state.left[l]
  BY <1>1, MinIs
<1> QED BY <1>1, <1>2 DEF BridgeDraw, Given

LEMMA BridgeDrawTyped ==
  ASSUME Stocked, NEW o \in Outbounds, NEW state \in BridgeSupplies, NEW l \in Lots
  PROVE  BridgeDraw(o, state, l) \in BridgeSupplies
<1>1. state.need \in Nat /\ state.left \in Stocks /\ state.cost \in Nat
  BY DEF BridgeSupplies
<1>2. PICK g : g = Given(o, state, l)
  OBVIOUS
<1>3. g \in 0..state.need /\ g \in 0..state.left[l]
  BY <1>1, <1>2, DrawIs
<1>4. CASE lot[l].day > out[o].day \/ state.left[l] = 0
  BY <1>1, <1>4, BridgeDrawIs
<1>5. CASE ~(lot[l].day > out[o].day \/ state.left[l] = 0)
  <2>1. BridgeDraw(o, state, l) =
          [need |-> state.need - g, left |-> [state.left EXCEPT ![l] = state.left[l] - g],
           cost |-> state.cost + g * UnitCost[l]]
    BY <1>1, <1>2, <1>5, BridgeDrawIs
  <2>2. state.left[l] \in Nat /\ UnitCost[l] \in Nat
    BY <1>1, StockTyped DEF Stocks
  <2>3. g \in Nat /\ state.need - g \in Nat /\ state.left[l] - g \in Nat
    BY <1>1, <1>3, <2>2
  <2>4. g * UnitCost[l] \in Nat
    BY <2>2, <2>3
  <2>5. state.cost + g * UnitCost[l] \in Nat
    BY <1>1, <2>4
  <2> QED BY <1>1, <2>1, <2>3, <2>5 DEF BridgeSupplies, Stocks
<1> QED BY <1>4, <1>5

LEMMA BridgeSupplyIs ==
  ASSUME Stocked, NEW o \in Outbounds, NEW left \in Stocks
  PROVE  /\ BridgeSupply(o, left)[{}] = [need |-> out[o].units, left |-> left, cost |-> 0]
         /\ \A T \in SUBSET Lots : T # {} =>
              BridgeSupply(o, left)[T] =
                BridgeDraw(o, BridgeSupply(o, left)[T \ {Latest(lot, T)}], Latest(lot, T))
<1>1. PICK none : none = [need |-> out[o].units, left |-> left, cost |-> 0]
  OBVIOUS
<1>2. none \in BridgeSupplies
  BY <1>1, StockTyped DEF BridgeSupplies
<1>3. PICK last : last = [T \in SUBSET Lots |-> Latest(lot, T)]
  OBVIOUS
<1>4. PICK step : step = [pair \in BridgeSupplies \X Lots |-> BridgeDraw(o, pair[1], pair[2])]
  OBVIOUS
<1>5. step \in [BridgeSupplies \X Lots -> BridgeSupplies]
  BY <1>4, BridgeDrawTyped
<1>6. \A T \in SUBSET Lots : T # {} => last[T] \in T
  BY <1>3, LastLot
<1>7. PICK f \in [SUBSET Lots -> BridgeSupplies] : Recurses(f, SUBSET Lots, none, last, step)
  BY <1>2, <1>5, <1>6, StockTyped, RecursionExists
<1>8. f = [set \in SUBSET Lots |->
             IF set = {} THEN none
             ELSE BridgeDraw(o, f[set \ {Latest(lot, set)}], Latest(lot, set))]
  <2>1. ASSUME NEW T \in SUBSET Lots, T # {}
        PROVE  f[T] = BridgeDraw(o, f[T \ {Latest(lot, T)}], Latest(lot, T))
    <3>1. f[T] = step[<<f[T \ {Latest(lot, T)}], Latest(lot, T)>>]
      BY <1>3, <1>7, <2>1 DEF Recurses
    <3>2. f[T \ {Latest(lot, T)}] \in BridgeSupplies /\ Latest(lot, T) \in Lots
      BY <1>7, <2>1, LastLot
    <3> QED BY <1>4, <3>1, <3>2
  <2>2. f[{}] = none
    BY <1>7 DEF Recurses
  <2> QED BY <1>7, <2>1, <2>2
<1>9. BridgeSupply(o, left) =
        [set \in SUBSET Lots |->
           IF set = {} THEN none
           ELSE BridgeDraw(o, BridgeSupply(o, left)[set \ {Latest(lot, set)}], Latest(lot, set))]
  BY <1>1, <1>8 DEF BridgeSupply
<1> QED BY <1>1, <1>9

\* The bridge draws as the calculator does, and counts the cost at once.
Alike(a, b) == /\ b.need = a.need /\ b.left = a.left
               /\ b.cost = CostOf(a.drawn) /\ b.cost \in Nat

LEMMA CostIsSum ==
  ASSUME Stocked, NEW drawn \in Stocks
  PROVE  /\ CostOf(drawn) \in Nat
         /\ \A d \in Stocks, l \in Lots :
              (\A m \in Lots \ {l} : d[m] = drawn[m]) =>
                CostOf(d) = CostOf(drawn) + (d[l] * UnitCost[l] - drawn[l] * UnitCost[l])
<1> DEFINE each(d) == [l \in Lots |-> d[l] * UnitCost[l]]
<1>1. \A d \in Stocks, l \in Lots : d[l] * UnitCost[l] \in Nat
  <2> SUFFICES ASSUME NEW d \in Stocks, NEW l \in Lots PROVE d[l] * UnitCost[l] \in Nat
    OBVIOUS
  <2>1. d[l] \in Nat /\ UnitCost[l] \in Nat
    BY StockTyped DEF Stocks
  <2> QED BY <2>1
<1>2. ASSUME NEW d \in Stocks PROVE CostOf(d) = SumFunctionOnSet(each(d), Lots)
  BY DEF CostOf, SumFunction
<1>3. CostOf(drawn) \in Nat
  <2>1. PICK f : f = each(drawn)
    OBVIOUS
  <2>2. \A l \in Lots : f[l] \in Nat
    BY <1>1, <2>1
  <2> HIDE DEF each
  <2> QED BY <1>2, <2>1, <2>2, StockTyped, SumOfNaturals
<1>4. ASSUME NEW d \in Stocks, NEW l \in Lots, \A m \in Lots \ {l} : d[m] = drawn[m]
      PROVE  CostOf(d) = CostOf(drawn) + (d[l] * UnitCost[l] - drawn[l] * UnitCost[l])
  <2>1. PICK f, g : f = each(drawn) /\ g = each(d)
    OBVIOUS
  <2>2. /\ \A m \in Lots : f[m] \in Int /\ g[m] \in Int
        /\ \A m \in Lots \ {l} : g[m] = f[m]
    BY <1>1, <1>4, <2>1
  <2>3. f[l] = drawn[l] * UnitCost[l] /\ g[l] = d[l] * UnitCost[l]
    BY <2>1
  <2>4. SumFunctionOnSet(g, Lots) = SumFunctionOnSet(f, Lots) + (g[l] - f[l])
    BY <2>2, StockTyped, SumOfUpdate
  <2> HIDE DEF each
  <2> QED BY <1>2, <2>1, <2>3, <2>4
<1> QED BY <1>3, <1>4

LEMMA AlikeFirst ==
  ASSUME Stocked, NEW o \in Outbounds, NEW left \in Stocks
  PROVE  Alike(Supply(o, left)[{}], BridgeSupply(o, left)[{}])
<1>1. PICK zero : zero = [l \in Lots |-> 0]
  OBVIOUS
<1>2. CostOf(zero) = 0
  <2>1. PICK f : f = [l \in Lots |-> zero[l] * UnitCost[l]]
    OBVIOUS
  <2>2. \A l \in Lots : f[l] = 0 /\ f[l] \in Int
    BY <1>1, <2>1, StockTyped
  <2>3. {} \in SUBSET Lots /\ \A l \in Lots \ {} : f[l] = 0
    BY <2>2
  <2>4. SumFunctionOnSet(f, Lots) = SumFunctionOnSet(f, {})
    BY <2>2, <2>3, StockTyped, SumOfTheRest
  <2>5. CostOf(zero) = SumFunctionOnSet(f, Lots)
    BY <2>1 DEF CostOf, SumFunction
  <2> QED BY <2>4, <2>5, SumOfNone
<1>3. PICK a, b : a = Supply(o, left)[{}] /\ b = BridgeSupply(o, left)[{}]
  OBVIOUS
<1>4. a = [need |-> out[o].units, left |-> left, drawn |-> zero]
  BY <1>1, <1>3, SupplyIs
<1>5. b = [need |-> out[o].units, left |-> left, cost |-> 0]
  BY <1>3, BridgeSupplyIs
<1>6. Alike(a, b)
  BY <1>2, <1>4, <1>5 DEF Alike
<1> QED BY <1>3, <1>6

LEMMA AlikeNext ==
  ASSUME Stocked, NEW o \in Outbounds, NEW l \in Lots, NEW a \in Supplies, NEW b,
         a.drawn[l] = 0, Alike(a, b)
  PROVE  Alike(Draw(o, a, l), BridgeDraw(o, b, l))
<1>1. a.need \in Nat /\ a.left \in Stocks /\ a.drawn \in Stocks /\ a.left[l] \in Nat
  BY DEF Supplies, Stocks
<1>2. b.need = a.need /\ b.left = a.left /\ b.cost = CostOf(a.drawn)
  BY DEF Alike
<1>3. PICK g : g = Given(o, a, l)
  OBVIOUS
<1>4. Given(o, b, l) = g
  BY <1>2, <1>3 DEF Given
<1>5. /\ g \in 0..a.need /\ g \in 0..a.left[l]
      /\ Draw(o, a, l) = [need |-> a.need - g, left |-> [a.left EXCEPT ![l] = a.left[l] - g],
                          drawn |-> [a.drawn EXCEPT ![l] = g]]
  BY <1>1, <1>3, DrawIs
<1>6. PICK d : d = [a.drawn EXCEPT ![l] = g]
  OBVIOUS
<1>7. d \in Stocks /\ d[l] = g /\ \A m \in Lots \ {l} : d[m] = a.drawn[m]
  BY <1>1, <1>5, <1>6 DEF Stocks
<1>8. CASE lot[l].day > out[o].day \/ a.left[l] = 0
  <2>1. g = 0
    BY <1>1, <1>3, <1>8 DEF Given
  <2>2. a.need - g = a.need /\ a.left[l] - g = a.left[l]
    BY <1>1, <2>1
  <2>3. [a.left EXCEPT ![l] = a.left[l]] = a.left /\ d = a.drawn
    BY <1>1, <1>6, <2>1 DEF Stocks
  <2>4. /\ Draw(o, a, l).need = a.need /\ Draw(o, a, l).left = a.left
        /\ Draw(o, a, l).drawn = a.drawn
    BY <1>5, <1>6, <2>2, <2>3
  <2>5. BridgeDraw(o, b, l) = b
    BY <1>1, <1>2, <1>8, BridgeDrawIs
  <2> QED BY <2>4, <2>5 DEF Alike
<1>9. CASE ~(lot[l].day > out[o].day \/ a.left[l] = 0)
  <2>1. BridgeDraw(o, b, l) =
          [need |-> a.need - g, left |-> [a.left EXCEPT ![l] = a.left[l] - g],
           cost |-> b.cost + g * UnitCost[l]]
    BY <1>1, <1>2, <1>4, <1>9, BridgeDrawIs
  <2>2. CostOf(a.drawn) \in Nat /\ CostOf(d) \in Nat
    BY <1>1, <1>7, CostIsSum
  <2>3. CostOf(d) = CostOf(a.drawn) + (g * UnitCost[l] - 0 * UnitCost[l])
    <3>1. CostOf(d) = CostOf(a.drawn) + (d[l] * UnitCost[l] - a.drawn[l] * UnitCost[l])
      BY <1>1, <1>7, CostIsSum
    <3> QED BY <1>7, <3>1
  <2>4. g * UnitCost[l] \in Int /\ 0 * UnitCost[l] = 0
    <3>1. g \in Int /\ UnitCost[l] \in Int
      BY <1>5, StockTyped
    <3> QED BY <3>1
  <2>5. CostOf(d) = b.cost + g * UnitCost[l]
    BY <1>2, <2>2, <2>3, <2>4
  <2> QED BY <1>5, <1>6, <2>1, <2>2, <2>5 DEF Alike
<1> QED BY <1>8, <1>9

\* The inner loops of the calculator and of the bridge take the same.
LEMMA AllAlike ==
  ASSUME Stocked, NEW o \in Outbounds, NEW left \in Stocks
  PROVE  \A T \in SUBSET Lots : Alike(Supply(o, left)[T], BridgeSupply(o, left)[T])
<1> DEFINE P == {T \in SUBSET Lots : Alike(Supply(o, left)[T], BridgeSupply(o, left)[T])}
<1>1. {} \in P
  BY AlikeFirst
<1>2. ASSUME NEW T \in SUBSET Lots, T # {}, \A x \in T : T \ {x} \in P PROVE T \in P
  <2>1. PICK l : l = Latest(lot, T)
    OBVIOUS
  <2>2. PICK a, b : a = Supply(o, left)[T \ {l}] /\ b = BridgeSupply(o, left)[T \ {l}]
    OBVIOUS
  <2>3. l \in T
    BY <1>2, <2>1, LastLot
  <2>4. Alike(a, b)
    BY <1>2, <2>2, <2>3
  <2>5. Supplied(o, left, T \ {l}, a)
    BY <2>2, AllSupplied
  <2>6. a \in Supplies /\ a.drawn[l] \in Nat
    BY <2>3, <2>5 DEF Supplied, Supplies, Stocks
  <2>7. a.drawn[l] = 0
    BY <2>3, <2>5, <2>6 DEF Supplied
  <2>8. Supply(o, left)[T] = Draw(o, a, l) /\ BridgeSupply(o, left)[T] = BridgeDraw(o, b, l)
    BY <1>2, <2>1, <2>2, SupplyIs, BridgeSupplyIs
  <2>9. Alike(Draw(o, a, l), BridgeDraw(o, b, l))
    BY <2>3, <2>4, <2>6, <2>7, AlikeNext
  <2> QED BY <2>8, <2>9
<1>3. SUBSET Lots \subseteq P
  <2> HIDE DEF P
  <2> QED BY <1>1, <1>2, StockTyped, InductionOnSets
<1> QED BY <1>3

-----------------------------------------------------------------------------
(***************************************************************************)
(* All events                                                              *)
(***************************************************************************)
Allocations == [left : Stocks, drawn : [Outbounds -> Stocks], uncovered : Nat]
CostRows == [units : Int, cost : Nat, complete : BOOLEAN]
BridgeStates == [left : Stocks, open : SUBSET Skus, costs : [Skus -> CostRows]]

LEMMA OwnLots ==
  \A end, o : Own(Held(end), o) \in SUBSET Lots /\ Own(Lots, o) \in SUBSET Lots
BY DEF Own, Held

LEMMA ServeTyped ==
  ASSUME Stocked, NEW end, NEW o \in Outbounds, NEW state \in Allocations
  PROVE  Serve(end, state, o) \in Allocations
<1>1. state.left \in Stocks /\ state.drawn \in [Outbounds -> Stocks] /\ state.uncovered \in Nat
  BY DEF Allocations
<1>2. PICK r : r = Supply(o, state.left)[Own(Held(end), o)]
  OBVIOUS
<1>3. r \in Supplies
  BY <1>1, <1>2, OwnLots, AllSupplied DEF Supplied
<1>4. r.left \in Stocks /\ r.drawn \in Stocks /\ r.need \in Nat
  BY <1>3 DEF Supplies
<1>5. state.uncovered + r.need \in Nat /\ [state.drawn EXCEPT ![o] = r.drawn] \in [Outbounds -> Stocks]
  BY <1>1, <1>4
<1> QED BY <1>2, <1>4, <1>5 DEF Serve, Allocations

LEMMA AllocationIs ==
  ASSUME Stocked, NEW end
  PROVE  /\ Allocation(end)[{}] = Untouched
         /\ \A E \in SUBSET Outbounds : E # {} =>
              Allocation(end)[E] =
                Serve(end, Allocation(end)[E \ {Latest(out, E)}], Latest(out, E))
         /\ \A E \in SUBSET Outbounds : Allocation(end)[E] \in Allocations
<1>2. Untouched \in Allocations
  BY StockTyped DEF Untouched, Allocations, Stocks
<1>3. PICK last : last = [E \in SUBSET Outbounds |-> Latest(out, E)]
  OBVIOUS
<1>4. PICK step : step = [pair \in Allocations \X Outbounds |-> Serve(end, pair[1], pair[2])]
  OBVIOUS
<1>5. step \in [Allocations \X Outbounds -> Allocations]
  BY <1>4, ServeTyped
<1>6. \A E \in SUBSET Outbounds : E # {} => last[E] \in E
  BY <1>3, LastEvent
<1>7. PICK f \in [SUBSET Outbounds -> Allocations] :
        Recurses(f, SUBSET Outbounds, Untouched, last, step)
  BY <1>2, <1>5, <1>6, StockTyped, RecursionExists
<1>8. f = [set \in SUBSET Outbounds |->
             IF set = {} THEN Untouched
             ELSE Serve(end, f[set \ {Latest(out, set)}], Latest(out, set))]
  <2>1. ASSUME NEW E \in SUBSET Outbounds, E # {}
        PROVE  f[E] = Serve(end, f[E \ {Latest(out, E)}], Latest(out, E))
    <3>1. f[E] = step[<<f[E \ {Latest(out, E)}], Latest(out, E)>>]
      BY <1>3, <1>7, <2>1 DEF Recurses
    <3>2. f[E \ {Latest(out, E)}] \in Allocations /\ Latest(out, E) \in Outbounds
      BY <1>7, <2>1, LastEvent
    <3> QED BY <1>4, <3>1, <3>2
  <2>2. f[{}] = Untouched
    BY <1>7 DEF Recurses
  <2> QED BY <1>7, <2>1, <2>2
<1>9. Allocation(end) =
        [set \in SUBSET Outbounds |->
           IF set = {} THEN Untouched
           ELSE Serve(end, Allocation(end)[set \ {Latest(out, set)}], Latest(out, set))]
  BY <1>8 DEF Allocation
<1> DEFINE P == {E \in SUBSET Outbounds : Allocation(end)[E] \in Allocations}
<1>10. {} \in P
  BY <1>2, <1>9
<1>11. ASSUME NEW E \in SUBSET Outbounds, E # {}, \A x \in E : E \ {x} \in P PROVE E \in P
  <2>1. Latest(out, E) \in E
    BY <1>11, LastEvent
  <2>2. Allocation(end)[E \ {Latest(out, E)}] \in Allocations
    BY <1>11, <2>1
  <2>3. PICK q, o : q = Allocation(end)[E \ {Latest(out, E)}] /\ o = Latest(out, E)
    OBVIOUS
  <2>4. Allocation(end)[E] = Serve(end, q, o)
    BY <1>9, <1>11, <2>3
  <2>5. Allocation(end)[E] \in Allocations
    BY <2>1, <2>2, <2>3, <2>4, ServeTyped
  <2> QED BY <2>5
<1>12. SUBSET Outbounds \subseteq P
  <2> HIDE DEF P
  <2> QED BY <1>10, <1>11, StockTyped, InductionOnSets
<1> QED BY <1>9, <1>12

NoCosts ==
  [left |-> [l \in Lots |-> lot[l].units], open |-> {},
   costs |-> [s \in Skus |-> [units |-> 0, cost |-> 0, complete |-> TRUE]]]

LEMMA BridgeSuppliesAre ==
  ASSUME Stocked, NEW o \in Outbounds, NEW left \in Stocks, NEW T \in SUBSET Lots
  PROVE  BridgeSupply(o, left)[T].need \in Nat /\ BridgeSupply(o, left)[T].left \in Stocks
         /\ BridgeSupply(o, left)[T].cost \in Nat
<1>1. Alike(Supply(o, left)[T], BridgeSupply(o, left)[T])
  BY AllAlike
<1>2. Supply(o, left)[T] \in Supplies
  BY AllSupplied DEF Supplied
<1> QED BY <1>1, <1>2 DEF Alike, Supplies

LEMMA BridgeServeTyped ==
  ASSUME Stocked, NEW p, NEW o \in Outbounds, NEW state \in BridgeStates
  PROVE  BridgeServe(p, state, o) \in BridgeStates
<1>1. state.left \in Stocks /\ state.open \in SUBSET Skus /\ state.costs \in [Skus -> CostRows]
  BY DEF BridgeStates
<1>2. PICK next : next = BridgeSupply(o, state.left)[Own(Lots, o)]
  OBVIOUS
<1>3. next.need \in Nat /\ next.left \in Stocks /\ next.cost \in Nat
  BY <1>1, <1>2, OwnLots, BridgeSuppliesAre
<1>4. PICK s : s = out[o].sku
  OBVIOUS
<1>5. s \in Skus /\ out[o].units \in Nat
  BY <1>4, StockTyped
<1>6. PICK row : row = [units |-> state.costs[s].units + out[o].units - next.need,
                        cost |-> state.costs[s].cost + next.cost,
                        complete |-> state.costs[s].complete /\ next.need = 0]
  OBVIOUS
<1>7. row \in CostRows
  <2>1. state.costs[s] \in CostRows
    BY <1>1, <1>5
  <2>2. state.costs[s].units \in Int /\ state.costs[s].cost \in Nat
    BY <2>1 DEF CostRows
  <2>3. /\ state.costs[s].units + out[o].units - next.need \in Int
        /\ state.costs[s].cost + next.cost \in Nat
        /\ (state.costs[s].complete /\ next.need = 0) \in BOOLEAN
    BY <1>3, <1>5, <2>2
  <2> QED BY <1>6, <2>3 DEF CostRows
<1>8. PICK costs : costs = [state.costs EXCEPT ![s] = row]
  OBVIOUS
<1>9. costs \in [Skus -> CostRows]
  BY <1>1, <1>5, <1>7, <1>8
<1>10. BridgeServe(p, state, o) =
         [left |-> next.left,
          open |-> IF next.need # 0 THEN state.open \cup {s} ELSE state.open,
          costs |-> IF p.start <= out[o].day THEN costs ELSE state.costs]
  BY <1>1, <1>2, <1>4, <1>5, <1>6, <1>8 DEF BridgeServe
<1> QED BY <1>1, <1>3, <1>5, <1>9, <1>10 DEF BridgeStates

LEMMA BridgeCostsIs ==
  ASSUME Stocked, NEW p
  PROVE  /\ BridgeCosts(p)[{}] = NoCosts
         /\ \A E \in SUBSET Outbounds : E # {} =>
              BridgeCosts(p)[E] =
                BridgeServe(p, BridgeCosts(p)[E \ {Latest(out, E)}], Latest(out, E))
         /\ \A E \in SUBSET Outbounds : BridgeCosts(p)[E] \in BridgeStates
<1>2. NoCosts \in BridgeStates
  BY StockTyped DEF NoCosts, BridgeStates, Stocks, CostRows
<1>3. PICK last : last = [E \in SUBSET Outbounds |-> Latest(out, E)]
  OBVIOUS
<1>4. PICK step : step = [pair \in BridgeStates \X Outbounds |-> BridgeServe(p, pair[1], pair[2])]
  OBVIOUS
<1>5. step \in [BridgeStates \X Outbounds -> BridgeStates]
  BY <1>4, BridgeServeTyped
<1>6. \A E \in SUBSET Outbounds : E # {} => last[E] \in E
  BY <1>3, LastEvent
<1>7. PICK f \in [SUBSET Outbounds -> BridgeStates] :
        Recurses(f, SUBSET Outbounds, NoCosts, last, step)
  BY <1>2, <1>5, <1>6, StockTyped, RecursionExists
<1>8. f = [set \in SUBSET Outbounds |->
             IF set = {} THEN NoCosts
             ELSE BridgeServe(p, f[set \ {Latest(out, set)}], Latest(out, set))]
  <2>1. ASSUME NEW E \in SUBSET Outbounds, E # {}
        PROVE  f[E] = BridgeServe(p, f[E \ {Latest(out, E)}], Latest(out, E))
    <3>1. f[E] = step[<<f[E \ {Latest(out, E)}], Latest(out, E)>>]
      BY <1>3, <1>7, <2>1 DEF Recurses
    <3>2. f[E \ {Latest(out, E)}] \in BridgeStates /\ Latest(out, E) \in Outbounds
      BY <1>7, <2>1, LastEvent
    <3> QED BY <1>4, <3>1, <3>2
  <2>2. f[{}] = NoCosts
    BY <1>7 DEF Recurses
  <2> QED BY <1>7, <2>1, <2>2
<1>9. BridgeCosts(p) =
        [set \in SUBSET Outbounds |->
           IF set = {} THEN NoCosts
           ELSE BridgeServe(p, BridgeCosts(p)[set \ {Latest(out, set)}], Latest(out, set))]
  BY <1>8 DEF BridgeCosts, NoCosts
<1> DEFINE P == {E \in SUBSET Outbounds : BridgeCosts(p)[E] \in BridgeStates}
<1>10. {} \in P
  BY <1>2, <1>9
<1>11. ASSUME NEW E \in SUBSET Outbounds, E # {}, \A x \in E : E \ {x} \in P PROVE E \in P
  <2>1. Latest(out, E) \in E
    BY <1>11, LastEvent
  <2>2. BridgeCosts(p)[E \ {Latest(out, E)}] \in BridgeStates
    BY <1>11, <2>1
  <2>3. PICK q, o : q = BridgeCosts(p)[E \ {Latest(out, E)}] /\ o = Latest(out, E)
    OBVIOUS
  <2>4. BridgeCosts(p)[E] = BridgeServe(p, q, o)
    BY <1>9, <1>11, <2>3
  <2>5. BridgeCosts(p)[E] \in BridgeStates
    BY <2>1, <2>2, <2>3, <2>4, BridgeServeTyped
  <2> QED BY <2>5
<1>12. SUBSET Outbounds \subseteq P
  <2> HIDE DEF P
  <2> QED BY <1>10, <1>11, StockTyped, InductionOnSets
<1> QED BY <1>9, <1>12

-----------------------------------------------------------------------------
(***************************************************************************)
(* Oldest first                                                            *)
(***************************************************************************)
Taken(a, l, events) == SumFunctionOnSet([o \in events |-> a.drawn[o][l]], events)

\* What was drawn for a set of events, which come in order.
FromLots(E, a) ==
  /\ \A l \in Lots : a.left[l] + Taken(a, l, Outbounds) = lot[l].units
  /\ \A o \in Outbounds \ E, l \in Lots : a.drawn[o][l] = 0
  /\ \A o \in Outbounds : SumFunctionOnSet(a.drawn[o], Lots) <= out[o].units
  /\ \A o \in Outbounds, l \in Lots :
       a.drawn[o][l] > 0 =>
         /\ lot[l].sku = out[o].sku /\ lot[l].day <= out[o].day
         /\ \A m \in Lots : lot[m].sku = lot[l].sku /\ Before(lot, m, l) =>
              Taken(a, m, SoFar(o)) = lot[m].units

LEMMA SumOfZeros ==
  ASSUME NEW S, IsFiniteSet(S), NEW f, \A x \in S : f[x] = 0
  PROVE  SumFunctionOnSet(f, S) = 0
<1>1. {} \in SUBSET S /\ \A x \in S : f[x] \in Int
  OBVIOUS
<1>2. SumFunctionOnSet(f, S) = SumFunctionOnSet(f, {})
  BY <1>1, SumOfTheRest
<1> QED BY <1>2, SumOfNone

LEMMA FromNoLots ==
  ASSUME Stocked
  PROVE  FromLots({}, Untouched)
<1>1. PICK a : a = Untouched
  OBVIOUS
<1>2. /\ \A l \in Lots : a.left[l] = lot[l].units
      /\ \A o \in Outbounds, l \in Lots : a.drawn[o][l] = 0
  BY <1>1 DEF Untouched
<1>3. ASSUME NEW l \in Lots PROVE a.left[l] + Taken(a, l, Outbounds) = lot[l].units
  <2>1. PICK f : f = [o \in Outbounds |-> a.drawn[o][l]]
    OBVIOUS
  <2>2. SumFunctionOnSet(f, Outbounds) = 0
    BY <1>2, <2>1, StockTyped, SumOfZeros
  <2> QED BY <1>2, <2>1, <2>2, StockTyped DEF Taken
<1>4. \A o \in Outbounds : SumFunctionOnSet(a.drawn[o], Lots) <= out[o].units
  BY <1>2, StockTyped, SumOfZeros
<1> QED BY <1>1, <1>2, <1>3, <1>4 DEF FromLots

\* One more event, o, after those of E.
LEMMA ServedStep ==
  ASSUME Stocked, NEW end, NEW o \in Outbounds, NEW q \in Allocations
  PROVE  \E r \in Supplies :
           /\ Supplied(o, q.left, Own(Held(end), o), r)
           /\ r = Supply(o, q.left)[Own(Held(end), o)]
           /\ Serve(end, q, o) = [left |-> r.left, drawn |-> [q.drawn EXCEPT ![o] = r.drawn],
                                  uncovered |-> q.uncovered + r.need]
<1>1. q.left \in Stocks
  BY DEF Allocations
<1>2. PICK r : r = Supply(o, q.left)[Own(Held(end), o)]
  OBVIOUS
<1>3. Supplied(o, q.left, Own(Held(end), o), r)
  BY <1>1, <1>2, OwnLots, AllSupplied
<1>4. r \in Supplies
  BY <1>3 DEF Supplied
<1> QED BY <1>2, <1>3, <1>4 DEF Serve

LEMMA FromOneMore ==
  ASSUME Stocked, NEW end \in Days, NEW E \in SUBSET Shipped(end), E # {},
         NEW o, o = Latest(out, E), NEW q \in Allocations, FromLots(E \ {o}, q)
  PROVE  FromLots(E, Serve(end, q, o))
<1>1. /\ E \in SUBSET Outbounds /\ o \in E /\ o \in Outbounds /\ out[o].day <= end
      /\ \A e \in E \ {o} : Before(out, e, o)
  <2>1. E \in SUBSET Outbounds
    BY DEF Shipped
  <2> QED BY <2>1, LastEvent DEF Shipped
<1>2. PICK r \in Supplies :
        /\ Supplied(o, q.left, Own(Held(end), o), r)
        /\ Serve(end, q, o) = [left |-> r.left, drawn |-> [q.drawn EXCEPT ![o] = r.drawn],
                               uncovered |-> q.uncovered + r.need]
  BY <1>1, ServedStep
<1>3. PICK a : a = Serve(end, q, o)
  OBVIOUS
<1>4. /\ q.left \in Stocks /\ r.left \in Stocks /\ r.drawn \in Stocks /\ r.need \in Nat
      /\ q.drawn \in [Outbounds -> Stocks]
      /\ \A e \in Outbounds, l \in Lots : q.drawn[e][l] \in Nat
  BY DEF Allocations, Supplies, Stocks
<1>5. /\ a.left = r.left
      /\ a.drawn[o] = r.drawn /\ \A e \in Outbounds \ {o} : a.drawn[e] = q.drawn[e]
  BY <1>1, <1>2, <1>3, <1>4
<1>6. \A e \in Outbounds, l \in Lots : a.drawn[e][l] \in Nat
  BY <1>4, <1>5 DEF Stocks
<1>7. \A l \in Lots : q.drawn[o][l] = 0
  BY <1>1 DEF FromLots
<1>8. ASSUME NEW l \in Lots PROVE a.left[l] + Taken(a, l, Outbounds) = lot[l].units
  <2>1. PICK f, g : /\ f = [e \in Outbounds |-> q.drawn[e][l]]
                    /\ g = [e \in Outbounds |-> a.drawn[e][l]]
    OBVIOUS
  <2>2. /\ \A e \in Outbounds : f[e] \in Int /\ g[e] \in Int
        /\ \A e \in Outbounds \ {o} : g[e] = f[e]
        /\ f[o] = 0 /\ g[o] = r.drawn[l]
    BY <1>1, <1>4, <1>5, <1>6, <1>7, <2>1
  <2>3. SumFunctionOnSet(g, Outbounds) = SumFunctionOnSet(f, Outbounds) + (g[o] - f[o])
    BY <1>1, <2>2, StockTyped, SumOfUpdate
  <2>4. SumFunctionOnSet(f, Outbounds) \in Int
    BY <2>2, StockTyped, SumTyped
  <2>5. q.left[l] + SumFunctionOnSet(f, Outbounds) = lot[l].units
    BY <2>1 DEF FromLots, Taken
  <2>6. r.left[l] = q.left[l] - r.drawn[l] /\ q.left[l] \in Nat /\ r.drawn[l] \in Nat
    BY <1>2, <1>4 DEF Supplied, Stocks
  <2>7. Taken(a, l, Outbounds) = SumFunctionOnSet(g, Outbounds)
    BY <2>1 DEF Taken
  <2> QED BY <1>5, <2>2, <2>3, <2>4, <2>5, <2>6, <2>7
<1>9. \A e \in Outbounds \ E, l \in Lots : a.drawn[e][l] = 0
  BY <1>1, <1>5 DEF FromLots
<1>10. ASSUME NEW e \in Outbounds PROVE SumFunctionOnSet(a.drawn[e], Lots) <= out[e].units
  <2>1. CASE e = o
    <3>1. r.need + SumFunctionOnSet(r.drawn, Lots) = out[o].units
      BY <1>2 DEF Supplied
    <3>2. \A l \in Lots : r.drawn[l] \in Int
      BY <1>4 DEF Stocks
    <3>3. SumFunctionOnSet(r.drawn, Lots) \in Int
      BY <3>2, StockTyped, SumTyped
    <3> QED BY <1>4, <1>5, <2>1, <3>1, <3>3
  <2>2. CASE e # o
    BY <1>5, <2>2 DEF FromLots
  <2> QED BY <2>1, <2>2
<1>11. ASSUME NEW e \in Outbounds, NEW l \in Lots, a.drawn[e][l] > 0
       PROVE  /\ lot[l].sku = out[e].sku /\ lot[l].day <= out[e].day
              /\ \A m \in Lots : lot[m].sku = lot[l].sku /\ Before(lot, m, l) =>
                   Taken(a, m, SoFar(e)) = lot[m].units
  <2>1. CASE e = o
    <3>1. r.drawn[l] > 0
      BY <1>5, <1>11, <2>1
    <3>2. l \in Own(Held(end), o) /\ lot[l].day <= out[o].day
      BY <1>2, <3>1 DEF Supplied
    <3>3. lot[l].sku = out[o].sku
      BY <3>2 DEF Own
    <3>4. ASSUME NEW m \in Lots, lot[m].sku = lot[l].sku, Before(lot, m, l)
          PROVE  Taken(a, m, SoFar(o)) = lot[m].units
      <4>1. lot[m].day <= end
        BY <1>1, <3>2, <3>4, StockTyped DEF Before, Days
      <4>2. m \in Own(Held(end), o)
        BY <3>3, <3>4, <4>1 DEF Own, Held
      <4>3. r.left[m] = 0
        BY <1>2, <3>1, <3>4, <4>2 DEF Supplied
      <4>4. Taken(a, m, Outbounds) = lot[m].units
        <5>1. PICK f : f = [x \in Outbounds |-> a.drawn[x][m]]
          OBVIOUS
        <5>2. \A x \in Outbounds : f[x] \in Int
          BY <1>6, <5>1
        <5>3. SumFunctionOnSet(f, Outbounds) \in Int
          BY <5>2, StockTyped, SumTyped
        <5> QED BY <1>5, <1>8, <4>3, <5>1, <5>3 DEF Taken
      <4>5. PICK f, g : /\ f = [x \in Outbounds |-> a.drawn[x][m]]
                        /\ g = [x \in SoFar(o) |-> a.drawn[x][m]]
        OBVIOUS
      <4>6. ASSUME NEW x \in Outbounds \ SoFar(o) PROVE f[x] = 0
        <5>1. Before(out, o, x)
          BY <4>6 DEF SoFar
        <5>2. x \notin E
          BY <1>1, <5>1, StockTyped DEF Before
        <5> QED BY <1>9, <4>5, <5>2
      <4>7. SoFar(o) \in SUBSET Outbounds /\ \A x \in SoFar(o) : g[x] \in Int /\ f[x] = g[x]
        BY <1>6, <4>5 DEF SoFar
      <4>8. SumFunctionOnSet(f, Outbounds) = SumFunctionOnSet(g, SoFar(o))
        BY <4>6, <4>7, StockTyped, SumOfPart
      <4> QED BY <4>4, <4>5, <4>8 DEF Taken
    <3> QED BY <2>1, <3>2, <3>3, <3>4
  <2>2. CASE e # o
    <3>1. a.drawn[e] = q.drawn[e] /\ q.drawn[e][l] > 0
      BY <1>5, <1>11, <2>2
    <3>2. e \in E \ {o}
      <4>1. e \notin E \ {o} => q.drawn[e][l] = 0
        BY DEF FromLots
      <4> QED BY <3>1, <4>1
    <3>3. o \notin SoFar(e)
      BY <1>1, <3>2 DEF SoFar
    <3>4. SoFar(e) \subseteq Outbounds \ {o}
      BY <3>3 DEF SoFar
    <3>5. ASSUME NEW m \in Lots PROVE Taken(a, m, SoFar(e)) = Taken(q, m, SoFar(e))
      <4>1. [x \in SoFar(e) |-> a.drawn[x][m]] = [x \in SoFar(e) |-> q.drawn[x][m]]
        BY <1>5, <3>4
      <4> QED BY <4>1 DEF Taken
    <3> QED BY <3>1, <3>5 DEF FromLots
  <2> QED BY <2>1, <2>2
<1>12. FromLots(E, a)
  BY <1>8, <1>9, <1>10, <1>11 DEF FromLots
<1> QED BY <1>3, <1>12

\* What all events together took from each lot.
LEMMA AllFromLots ==
  ASSUME Stocked, NEW end \in Days
  PROVE  \A E \in SUBSET Shipped(end) : FromLots(E, Allocation(end)[E])
<1> DEFINE P == {E \in SUBSET Shipped(end) : FromLots(E, Allocation(end)[E])}
<1>0. Shipped(end) \in SUBSET Outbounds /\ IsFiniteSet(Shipped(end))
  <2>1. Shipped(end) \in SUBSET Outbounds
    BY DEF Shipped
  <2> QED BY <2>1, StockTyped, FS_Subset
<1>1. {} \in P
  BY AllocationIs, FromNoLots
<1>2. ASSUME NEW E \in SUBSET Shipped(end), E # {}, \A x \in E : E \ {x} \in P PROVE E \in P
  <2>1. PICK o, q : o = Latest(out, E) /\ q = Allocation(end)[E \ {o}]
    OBVIOUS
  <2>2. E \in SUBSET Outbounds /\ E \ {o} \in SUBSET Outbounds
    BY <1>0
  <2>3. o \in E
    BY <1>2, <2>1, <2>2, LastEvent
  <2>4. q \in Allocations
    BY <2>1, <2>2, AllocationIs
  <2>5. FromLots(E \ {o}, q)
    BY <1>2, <2>1, <2>3
  <2>6. Allocation(end)[E] = Serve(end, q, o)
    BY <1>2, <2>1, <2>2, AllocationIs
  <2>7. FromLots(E, Serve(end, q, o))
    BY <1>2, <2>1, <2>4, <2>5, FromOneMore
  <2> QED BY <2>6, <2>7
<1>3. SUBSET Shipped(end) \subseteq P
  <2> HIDE DEF P
  <2> QED BY <1>0, <1>1, <1>2, InductionOnSets
<1> QED BY <1>3

-----------------------------------------------------------------------------
(***************************************************************************)
(* What is lacking                                                         *)
(***************************************************************************)
LotsUntil(k, d) == {l \in Held(d) : lot[l].sku = k}
EventsUntil(k, d, E) == {o \in E : out[o].day <= d /\ out[o].sku = k}
Came(k, d) == Units(lot, LotsUntil(k, d))
Went(k, d, E) == Units(out, EventsUntil(k, d, E))
Remained(k, d, left) == SumFunctionOnSet(left, LotsUntil(k, d))

\* Of a product, n is lacking: what came went, but for what remained, and the n that
\* went without having come; and n is what it was on the worst day.
Lacking(k, end, E, left, n) ==
  /\ \A d \in Days : E \subseteq Shipped(d) =>
       Remained(k, d, left) + Went(k, d, E) = Came(k, d) + n
  /\ \A d \in Days : Went(k, d, E) <= Came(k, d) + n
  /\ n = 0 \/ \E d \in 1..end : Went(k, d, E) = Came(k, d) + n

LEMMA UnitsTyped ==
  ASSUME Stocked, NEW k, NEW d
  PROVE  /\ Came(k, d) \in Nat
         /\ \A E \in SUBSET Outbounds : Went(k, d, E) \in Nat
         /\ \A left \in Stocks : Remained(k, d, left) \in Nat
<1>1. PICK L : L = LotsUntil(k, d)
  OBVIOUS
<1>2. L \in SUBSET Lots /\ IsFiniteSet(L)
  <2>1. L \in SUBSET Lots
    BY <1>1 DEF LotsUntil, Held
  <2> QED BY <2>1, StockTyped, FS_Subset
<1>3. Came(k, d) \in Nat
  <2>1. PICK f : f = [l \in L |-> lot[l].units]
    OBVIOUS
  <2>2. \A l \in L : f[l] \in Nat
    BY <1>2, <2>1, StockTyped
  <2>3. SumFunctionOnSet(f, L) \in Nat
    BY <1>2, <2>2, SumOfNaturals
  <2> QED BY <1>1, <2>1, <2>3 DEF Came, Units
<1>4. ASSUME NEW E \in SUBSET Outbounds PROVE Went(k, d, E) \in Nat
  <2>1. PICK U : U = EventsUntil(k, d, E)
    OBVIOUS
  <2>2. U \in SUBSET Outbounds /\ IsFiniteSet(U)
    <3>1. U \in SUBSET Outbounds
      BY <2>1 DEF EventsUntil
    <3> QED BY <3>1, StockTyped, FS_Subset
  <2>3. PICK f : f = [o \in U |-> out[o].units]
    OBVIOUS
  <2>4. \A o \in U : f[o] \in Nat
    BY <2>2, <2>3, StockTyped
  <2>5. SumFunctionOnSet(f, U) \in Nat
    BY <2>2, <2>4, SumOfNaturals
  <2> QED BY <2>1, <2>3, <2>5 DEF Went, Units
<1>5. ASSUME NEW left \in Stocks PROVE Remained(k, d, left) \in Nat
  <2>1. \A l \in L : left[l] \in Nat
    BY <1>2 DEF Stocks
  <2>2. SumFunctionOnSet(left, L) \in Nat
    BY <1>2, <2>1, SumOfNaturals
  <2> QED BY <1>1, <2>2 DEF Remained
<1> QED BY <1>3, <1>4, <1>5

LEMMA MoreComes ==
  ASSUME Stocked, NEW k, NEW c \in Nat, NEW d \in Nat, c <= d
  PROVE  Came(k, c) <= Came(k, d)
<1>1. PICK L, M : L = LotsUntil(k, c) /\ M = LotsUntil(k, d)
  OBVIOUS
<1>2. M \in SUBSET Lots /\ IsFiniteSet(M)
  <2>1. M \in SUBSET Lots
    BY <1>1 DEF LotsUntil, Held
  <2> QED BY <2>1, StockTyped, FS_Subset
<1>3. L \in SUBSET M
  <2>1. \A l \in Lots : lot[l].day <= c => lot[l].day <= d
    BY StockTyped
  <2> QED BY <1>1, <2>1 DEF LotsUntil, Held
<1>4. PICK f, g, h : /\ f = [l \in M |-> lot[l].units]
                     /\ g = [l \in M |-> IF l \in L THEN lot[l].units ELSE 0]
                     /\ h = [l \in M |-> IF l \in L THEN 0 ELSE lot[l].units]
  OBVIOUS
<1>5. \A l \in M : g[l] \in Int /\ h[l] \in Int /\ h[l] \in Nat /\ f[l] = g[l] + 1 * h[l]
  <2> SUFFICES ASSUME NEW l \in M
               PROVE  g[l] \in Int /\ h[l] \in Int /\ h[l] \in Nat /\ f[l] = g[l] + 1 * h[l]
    OBVIOUS
  <2>1. lot[l].units \in Nat
    BY <1>2, StockTyped
  <2> QED BY <1>4, <2>1
<1>6. SumFunctionOnSet(f, M) = SumFunctionOnSet(g, M) + 1 * SumFunctionOnSet(h, M)
  BY <1>2, <1>5, SumIsLinear
<1>7. SumFunctionOnSet(h, M) \in Nat
  BY <1>2, <1>5, SumOfNaturals
<1>8. PICK e : e = [l \in L |-> lot[l].units]
  OBVIOUS
<1>9. SumFunctionOnSet(g, M) = SumFunctionOnSet(e, L)
  <2>1. \A l \in L : e[l] \in Int /\ g[l] = e[l]
    BY <1>2, <1>3, <1>4, <1>8, StockTyped
  <2>2. \A l \in M \ L : g[l] = 0
    BY <1>4
  <2> QED BY <1>2, <1>3, <2>1, <2>2, SumOfPart
<1>10. Came(k, c) = SumFunctionOnSet(e, L) /\ Came(k, d) = SumFunctionOnSet(f, M)
  BY <1>1, <1>4, <1>8 DEF Came, Units
<1>11. Came(k, c) \in Nat
  BY UnitsTyped
<1> QED BY <1>6, <1>7, <1>9, <1>10, <1>11

LEMMA NothingLacking ==
  ASSUME Stocked, NEW k, NEW end
  PROVE  Lacking(k, end, {}, Untouched.left, 0)
<1>1. PICK left : left = Untouched.left
  OBVIOUS
<1>2. left \in Stocks /\ \A l \in Lots : left[l] = lot[l].units
  BY <1>1, StockTyped DEF Untouched, Stocks
<1>3. ASSUME NEW d PROVE Remained(k, d, left) = Came(k, d)
  <2>1. PICK L : L = LotsUntil(k, d)
    OBVIOUS
  <2>2. L \in SUBSET Lots /\ IsFiniteSet(L)
    <3>1. L \in SUBSET Lots
      BY <2>1 DEF LotsUntil, Held
    <3> QED BY <3>1, StockTyped, FS_Subset
  <2>3. PICK f : f = [l \in L |-> lot[l].units]
    OBVIOUS
  <2>4. \A l \in L : f[l] \in Int /\ left[l] = f[l]
    BY <1>2, <2>2, <2>3, StockTyped
  <2>5. SumFunctionOnSet(left, L) = SumFunctionOnSet(f, L)
    BY <2>2, <2>4, SumOfSame
  <2> QED BY <2>1, <2>3, <2>5 DEF Remained, Came, Units
<1>4. ASSUME NEW d PROVE Went(k, d, {}) = 0
  <2>1. EventsUntil(k, d, {}) = {}
    BY DEF EventsUntil
  <2> QED BY <2>1, SumOfNone DEF Went, Units
<1>5. \A d : Came(k, d) \in Nat
  BY UnitsTyped
<1> HIDE DEF Untouched
<1> QED BY <1>1, <1>3, <1>4, <1>5 DEF Lacking

\* The events of other products, and those that come later.
LEMMA WentWithout ==
  ASSUME Stocked, NEW E \in SUBSET Outbounds, NEW o \in E, NEW k, NEW d
  PROVE  /\ ~(out[o].day <= d /\ out[o].sku = k) => Went(k, d, E) = Went(k, d, E \ {o})
         /\ out[o].day <= d /\ out[o].sku = k =>
              Went(k, d, E) = Went(k, d, E \ {o}) + out[o].units
<1>1. CASE ~(out[o].day <= d /\ out[o].sku = k)
  <2>1. EventsUntil(k, d, E) = EventsUntil(k, d, E \ {o})
    BY <1>1 DEF EventsUntil
  <2> QED BY <1>1, <2>1 DEF Went
<1>2. CASE out[o].day <= d /\ out[o].sku = k
  <2>1. PICK U, V : U = EventsUntil(k, d, E) /\ V = EventsUntil(k, d, E \ {o})
    OBVIOUS
  <2>2. o \in U /\ V = U \ {o} /\ U \in SUBSET Outbounds
    BY <1>2, <2>1 DEF EventsUntil
  <2>3. IsFiniteSet(U) /\ IsFiniteSet(V)
    BY <2>2, StockTyped, FS_Subset
  <2>4. PICK f, g : f = [e \in U |-> out[e].units] /\ g = [e \in V |-> out[e].units]
    OBVIOUS
  <2>5. \A e \in U : f[e] \in Int
    BY <2>2, <2>4, StockTyped
  <2>6. SumFunctionOnSet(f, U) = f[o] + SumFunctionOnSet(f, V)
    BY <2>2, <2>3, <2>5, SumOfOne
  <2>7. SumFunctionOnSet(f, V) = SumFunctionOnSet(g, V)
    <3>1. \A e \in V : g[e] \in Int /\ f[e] = g[e]
      BY <2>2, <2>4, <2>5
    <3> QED BY <2>3, <3>1, SumOfSame
  <2>8. Went(k, d, E) = SumFunctionOnSet(f, U) /\ Went(k, d, E \ {o}) = SumFunctionOnSet(g, V)
    BY <2>1, <2>4 DEF Went, Units
  <2>9. Went(k, d, E \ {o}) \in Nat /\ f[o] = out[o].units /\ out[o].units \in Nat
    BY <2>2, <2>4, StockTyped, UnitsTyped
  <2> QED BY <1>2, <2>6, <2>7, <2>8, <2>9
<1> QED BY <1>1, <1>2

\* What remains after an event, of its product and of the others.
LEMMA RemainedAfter ==
  ASSUME Stocked, NEW end, NEW o \in Outbounds, NEW left \in Stocks, NEW r,
         Supplied(o, left, Own(Held(end), o), r), NEW k, NEW d \in Nat
  PROVE  /\ k # out[o].sku => Remained(k, d, r.left) = Remained(k, d, left)
         /\ k = out[o].sku /\ out[o].day <= d =>
              Remained(k, d, r.left) = Remained(k, d, left) - SumFunctionOnSet(r.drawn, Lots)
<1>1. PICK L : L = LotsUntil(k, d)
  OBVIOUS
<1>2. L \in SUBSET Lots /\ IsFiniteSet(L)
  <2>1. L \in SUBSET Lots
    BY <1>1 DEF LotsUntil, Held
  <2> QED BY <2>1, StockTyped, FS_Subset
<1>3. /\ \A l \in Lots : r.left[l] = left[l] - r.drawn[l]
      /\ \A l \in Lots : left[l] \in Nat /\ r.drawn[l] \in Nat
      /\ \A l \in Lots : r.drawn[l] > 0 => lot[l].sku = out[o].sku /\ lot[l].day <= out[o].day
  BY DEF Supplied, Supplies, Stocks, Own
<1>4. PICK f, g, h : f = r.left /\ g = left /\ h = r.drawn
  OBVIOUS
<1>5. \A l \in L : g[l] \in Int /\ h[l] \in Int /\ f[l] = g[l] + (-1) * h[l]
  <2> SUFFICES ASSUME NEW l \in L
               PROVE  g[l] \in Int /\ h[l] \in Int /\ f[l] = g[l] + (-1) * h[l]
    OBVIOUS
  <2>1. /\ g[l] \in Int /\ h[l] \in Int /\ f[l] = g[l] - h[l]
    BY <1>2, <1>3, <1>4
  <2> QED BY <2>1
<1>6. SumFunctionOnSet(f, L) = SumFunctionOnSet(g, L) + (-1) * SumFunctionOnSet(h, L)
  <2>1. PICK less \in Int : less = -1
    OBVIOUS
  <2>2. \A l \in L : f[l] = g[l] + less * h[l] /\ g[l] \in Int /\ h[l] \in Int
    BY <1>5, <2>1
  <2>3. SumFunctionOnSet(f, L) = SumFunctionOnSet(g, L) + less * SumFunctionOnSet(h, L)
    BY <1>2, <2>2, SumIsLinear
  <2> QED BY <2>1, <2>3
<1>7. SumFunctionOnSet(g, L) \in Int /\ SumFunctionOnSet(h, L) \in Int
  <2>1. L \in SUBSET L
    OBVIOUS
  <2> QED BY <1>2, <1>5, <2>1, SumTyped
<1>8. SumFunctionOnSet(f, L) = SumFunctionOnSet(g, L) - SumFunctionOnSet(h, L)
  BY <1>6, <1>7
<1>9. Remained(k, d, r.left) = SumFunctionOnSet(f, L) /\ Remained(k, d, left) = SumFunctionOnSet(g, L)
  BY <1>1, <1>4 DEF Remained
<1>10. CASE k # out[o].sku
  <2>1. \A l \in L : h[l] = 0
    BY <1>1, <1>2, <1>3, <1>4, <1>10 DEF LotsUntil
  <2>2. SumFunctionOnSet(h, L) = 0
    BY <1>2, <2>1, SumOfZeros
  <2> QED BY <1>7, <1>8, <1>9, <1>10, <2>2
<1>11. CASE k = out[o].sku /\ out[o].day <= d
  <2>1. ASSUME NEW l \in Lots \ L PROVE h[l] = 0
    <3>1. h[l] > 0 => l \in L
      BY <1>1, <1>3, <1>4, <1>11, StockTyped DEF LotsUntil, Held
    <3> QED BY <1>3, <1>4, <2>1, <3>1
  <2>2. \A l \in Lots : h[l] \in Int
    BY <1>3, <1>4
  <2>3. SumFunctionOnSet(h, Lots) = SumFunctionOnSet(h, L)
    BY <1>2, <2>1, <2>2, StockTyped, SumOfTheRest
  <2> QED BY <1>4, <1>8, <1>9, <1>11, <2>3
<1> QED BY <1>10, <1>11

LEMMA LackingOther ==
  ASSUME Stocked, NEW end \in Days, NEW E \in SUBSET Outbounds, NEW o \in E,
         NEW left \in Stocks, NEW r, Supplied(o, left, Own(Held(end), o), r),
         NEW k, k # out[o].sku, NEW n \in Nat, Lacking(k, end, E \ {o}, left, n)
  PROVE  Lacking(k, end, E, r.left, n)
<1>1. \A d \in Nat : Remained(k, d, r.left) = Remained(k, d, left)
  BY RemainedAfter
<1>2. \A d : Went(k, d, E) = Went(k, d, E \ {o})
  BY WentWithout
<1>3. Days \subseteq Nat /\ 1..end \subseteq Nat
  BY DEF Days
<1>4. \A d : E \subseteq Shipped(d) => E \ {o} \subseteq Shipped(d)
  OBVIOUS
<1> QED BY <1>1, <1>2, <1>3, <1>4 DEF Lacking

\* The worst day is the day of the event, if what was there did not suffice.
LEMMA LackingOwn ==
  ASSUME Stocked, NEW end \in Days, NEW E \in SUBSET Shipped(end), E # {},
         NEW o, o = Latest(out, E), NEW left \in Stocks, NEW r,
         Supplied(o, left, Own(Held(end), o), r),
         NEW k, k = out[o].sku, NEW n \in Nat, Lacking(k, end, E \ {o}, left, n)
  PROVE  Lacking(k, end, E, r.left, n + r.need)
<1>1. /\ E \in SUBSET Outbounds /\ o \in E /\ o \in Outbounds /\ out[o].day <= end
      /\ \A e \in E \ {o} : Before(out, e, o)
  <2>1. E \in SUBSET Outbounds
    BY DEF Shipped
  <2> QED BY <2>1, LastEvent DEF Shipped
<1>2. PICK D, u, rest : D = out[o].day /\ u = out[o].units /\ rest = E \ {o}
  OBVIOUS
<1>3. /\ D \in Days /\ D \in Nat /\ u \in Nat /\ end \in Nat /\ D \in 1..end /\ Days \subseteq Nat
      /\ rest \in SUBSET Outbounds
  BY <1>1, <1>2, StockTyped DEF Days
<1>4. \A e \in E : out[e].day \in Nat /\ out[e].day <= D
  BY <1>1, <1>2, StockTyped DEF Before
<1>5. E \subseteq Shipped(D) /\ rest \subseteq Shipped(D)
  BY <1>1, <1>2, <1>4 DEF Shipped
<1>6. PICK got : got = SumFunctionOnSet(r.drawn, Lots)
  OBVIOUS
<1>7. /\ r.need \in Nat /\ r.left \in Stocks /\ got \in Nat /\ r.need + got = u
  <2>1. r.need \in Nat /\ r.left \in Stocks /\ \A l \in Lots : r.drawn[l] \in Nat
    BY DEF Supplied, Supplies, Stocks
  <2>2. got \in Nat
    BY <1>6, <2>1, StockTyped, SumOfNaturals
  <2> QED BY <1>2, <1>6, <2>1, <2>2 DEF Supplied
\* Before the day of the event, from it on, and on it.
<1>8. ASSUME NEW d \in Nat
      PROVE  /\ Came(k, d) \in Nat /\ Went(k, d, rest) \in Nat /\ Went(k, d, E) \in Nat
             /\ Remained(k, d, left) \in Nat /\ Remained(k, d, r.left) \in Nat
             /\ d < D => Went(k, d, E) = Went(k, d, rest)
             /\ D <= d => /\ Went(k, d, E) = Went(k, d, rest) + u
                          /\ Remained(k, d, r.left) = Remained(k, d, left) - got
                          /\ Came(k, D) <= Came(k, d)
                          /\ Went(k, d, rest) = Went(k, D, rest)
  <2>1. /\ Came(k, d) \in Nat /\ Went(k, d, rest) \in Nat /\ Went(k, d, E) \in Nat
        /\ Remained(k, d, left) \in Nat /\ Remained(k, d, r.left) \in Nat
    BY <1>1, <1>3, <1>7, UnitsTyped
  <2>2. d < D => Went(k, d, E) = Went(k, d, rest)
    <3>1. d < D => ~(out[o].day <= d /\ out[o].sku = k)
      BY <1>2, <1>3
    <3> QED BY <1>1, <1>2, <3>1, WentWithout
  <2>3. ASSUME D <= d
        PROVE  /\ Went(k, d, E) = Went(k, d, rest) + u
               /\ Remained(k, d, r.left) = Remained(k, d, left) - got
               /\ Came(k, D) <= Came(k, d)
               /\ Went(k, d, rest) = Went(k, D, rest)
    <3>1. Went(k, d, E) = Went(k, d, rest) + u
      BY <1>1, <1>2, <2>3, WentWithout
    <3>2. Remained(k, d, r.left) = Remained(k, d, left) - got
      BY <1>1, <1>2, <1>6, <2>3, RemainedAfter
    <3>3. Came(k, D) <= Came(k, d)
      BY <1>3, <2>3, MoreComes
    <3>4. EventsUntil(k, d, rest) = EventsUntil(k, D, rest)
      <4>1. \A e \in rest : out[e].day <= D /\ out[e].day <= d
        BY <1>2, <1>3, <1>4, <2>3
      <4> QED BY <4>1 DEF EventsUntil
    <3> QED BY <3>1, <3>2, <3>3, <3>4 DEF Went
  <2> QED BY <2>1, <2>2, <2>3
<1>9. Remained(k, D, left) + Went(k, D, rest) = Came(k, D) + n
  BY <1>2, <1>3, <1>5 DEF Lacking
<1>10. r.need > 0 => Remained(k, D, r.left) = 0
  <2> SUFFICES ASSUME r.need > 0 PROVE Remained(k, D, r.left) = 0
    OBVIOUS
  <2>1. PICK L : L = LotsUntil(k, D)
    OBVIOUS
  <2>2. L \in SUBSET Lots /\ IsFiniteSet(L)
    <3>1. L \in SUBSET Lots
      BY <2>1 DEF LotsUntil, Held
    <3> QED BY <3>1, StockTyped, FS_Subset
  <2>3. \A l \in L : l \in Own(Held(end), o) /\ lot[l].day <= out[o].day
    <3> SUFFICES ASSUME NEW l \in L PROVE l \in Own(Held(end), o) /\ lot[l].day <= out[o].day
      OBVIOUS
    <3>1. l \in Lots /\ lot[l].day <= D /\ lot[l].sku = k
      BY <2>1 DEF LotsUntil, Held
    <3>2. lot[l].day <= end
      BY <1>3, <3>1, StockTyped
    <3> QED BY <1>2, <3>1, <3>2 DEF Own, Held
  <2>4. \A l \in L : r.left[l] = 0
    BY <2>3 DEF Supplied
  <2>5. SumFunctionOnSet(r.left, L) = 0
    BY <2>2, <2>4, SumOfZeros
  <2> QED BY <2>1, <2>5 DEF Remained
<1>11. ASSUME NEW d \in Days, E \subseteq Shipped(d)
       PROVE  Remained(k, d, r.left) + Went(k, d, E) = Came(k, d) + (n + r.need)
  <2>1. d \in Nat /\ D <= d /\ rest \subseteq Shipped(d)
    BY <1>1, <1>2, <1>3, <1>11 DEF Shipped
  <2>2. Remained(k, d, left) + Went(k, d, rest) = Came(k, d) + n
    BY <1>2, <2>1 DEF Lacking
  <2>3. /\ Came(k, d) \in Nat /\ Went(k, d, rest) \in Nat /\ Remained(k, d, left) \in Nat
        /\ Went(k, d, E) = Went(k, d, rest) + u
        /\ Remained(k, d, r.left) = Remained(k, d, left) - got
    BY <1>8, <2>1
  <2> QED BY <1>3, <1>7, <2>2, <2>3
<1>12. ASSUME NEW d \in Days PROVE Went(k, d, E) <= Came(k, d) + (n + r.need)
  <2>1. d \in Nat /\ D \in Nat
    BY <1>3
  <2>2. CASE d < D
    <3>1. Went(k, d, rest) <= Came(k, d) + n
      BY <1>2 DEF Lacking
    <3> QED BY <1>7, <1>8, <2>1, <2>2, <3>1
  <2>3. CASE D <= d
    <3>1. /\ Went(k, d, E) = Went(k, D, rest) + u /\ Came(k, D) <= Came(k, d)
          /\ Came(k, d) \in Nat /\ Went(k, D, rest) \in Nat
      BY <1>8, <2>1, <2>3
    <3>2. /\ Came(k, D) \in Nat /\ Remained(k, D, left) \in Nat /\ Remained(k, D, r.left) \in Nat
          /\ Remained(k, D, r.left) = Remained(k, D, left) - got
      BY <1>8, <2>1
    <3> QED BY <1>3, <1>7, <1>9, <3>1, <3>2
  <2> QED BY <2>1, <2>2, <2>3
<1>13. n + r.need = 0 \/ \E d \in 1..end : Went(k, d, E) = Came(k, d) + (n + r.need)
  <2>0. /\ Went(k, D, E) = Went(k, D, rest) + u
        /\ Came(k, D) \in Nat /\ Went(k, D, rest) \in Nat
        /\ Remained(k, D, left) \in Nat /\ Remained(k, D, r.left) \in Nat
        /\ Remained(k, D, r.left) = Remained(k, D, left) - got
    BY <1>3, <1>8
  <2>1. CASE r.need > 0
    <3>1. Went(k, D, E) = Came(k, D) + (n + r.need)
      BY <1>3, <1>7, <1>9, <1>10, <2>0, <2>1
    <3> QED BY <1>3, <3>1
  <2>2. CASE r.need = 0 /\ n = 0
    BY <2>2
  <2>3. CASE r.need = 0 /\ n # 0
    <3>1. PICK d \in 1..end : Went(k, d, rest) = Came(k, d) + n
      BY <1>2, <2>3 DEF Lacking
    <3>2. d \in Nat
      BY <1>3, <3>1
    <3>3. CASE d < D
      BY <1>8, <2>3, <3>1, <3>2, <3>3
    <3>4. CASE D <= d
      <4>1. /\ Went(k, d, E) = Went(k, d, rest) + u /\ Came(k, D) <= Came(k, d)
            /\ Went(k, d, rest) = Went(k, D, rest) /\ Came(k, d) \in Nat
        BY <1>8, <3>2, <3>4
      <4>2. Remained(k, D, left) = 0
        BY <1>9, <2>0, <3>1, <4>1
      <4>3. got = 0 /\ u = 0
        BY <1>7, <2>0, <2>3, <4>2
      <4>4. Went(k, d, E) = Came(k, d) + (n + r.need)
        BY <2>0, <2>3, <3>1, <4>1, <4>3
      <4> QED BY <4>4
    <3> QED BY <1>3, <3>2, <3>3, <3>4
  <2> QED BY <1>7, <2>1, <2>2, <2>3
<1> QED BY <1>11, <1>12, <1>13 DEF Lacking

\* All products together.
Uncovered(end, E, a) ==
  \E lack \in [Skus -> Nat] :
    /\ a.uncovered = SumFunctionOnSet(lack, Skus)
    /\ \A k \in Skus : Lacking(k, end, E, a.left, lack[k])

LEMMA UncoveredStep ==
  ASSUME Stocked, NEW end \in Days, NEW E \in SUBSET Shipped(end), E # {},
         NEW o, o = Latest(out, E), NEW q \in Allocations, Uncovered(end, E \ {o}, q)
  PROVE  Uncovered(end, E, Serve(end, q, o))
<1>1. E \in SUBSET Outbounds /\ o \in E /\ o \in Outbounds
  <2>1. E \in SUBSET Outbounds
    BY DEF Shipped
  <2> QED BY <2>1, LastEvent
<1>2. PICK r \in Supplies :
        /\ Supplied(o, q.left, Own(Held(end), o), r)
        /\ Serve(end, q, o) = [left |-> r.left, drawn |-> [q.drawn EXCEPT ![o] = r.drawn],
                               uncovered |-> q.uncovered + r.need]
  BY <1>1, ServedStep
<1>3. PICK lack \in [Skus -> Nat] :
        /\ q.uncovered = SumFunctionOnSet(lack, Skus)
        /\ \A k \in Skus : Lacking(k, end, E \ {o}, q.left, lack[k])
  BY DEF Uncovered
<1>4. PICK s : s = out[o].sku
  OBVIOUS
<1>5. s \in Skus /\ r.need \in Nat /\ q.left \in Stocks /\ q.uncovered \in Nat
  BY <1>1, <1>4, StockTyped DEF Supplies, Allocations
<1>6. PICK more : more = [lack EXCEPT ![s] = lack[s] + r.need]
  OBVIOUS
<1>7. /\ more \in [Skus -> Nat] /\ more[s] = lack[s] + r.need /\ lack[s] \in Nat
      /\ \A k \in Skus \ {s} : more[k] = lack[k]
      /\ \A k \in Skus : lack[k] \in Nat /\ more[k] \in Nat
  BY <1>3, <1>5, <1>6
<1>8. SumFunctionOnSet(more, Skus) = q.uncovered + r.need
  <2>1. SumFunctionOnSet(more, Skus) = SumFunctionOnSet(lack, Skus) + (more[s] - lack[s])
    BY <1>5, <1>7, StockTyped, SumOfUpdate
  <2> QED BY <1>3, <1>5, <1>7, <2>1
<1>9. ASSUME NEW k \in Skus PROVE Lacking(k, end, E, r.left, more[k])
  <2>0. Lacking(k, end, E \ {o}, q.left, lack[k]) /\ lack[k] \in Nat
    BY <1>3, <1>7
  <2>1. CASE k = s
    <3>1. Lacking(k, end, E, r.left, lack[k] + r.need)
      BY <1>2, <1>4, <1>5, <2>0, <2>1, LackingOwn
    <3> QED BY <1>7, <2>1, <3>1
  <2>2. CASE k # s
    <3>1. Lacking(k, end, E, r.left, lack[k])
      BY <1>1, <1>2, <1>4, <1>5, <2>0, <2>2, LackingOther
    <3> QED BY <1>7, <2>2, <3>1
  <2> QED BY <2>1, <2>2
<1>10. PICK a : a = Serve(end, q, o)
  OBVIOUS
<1>11. a.left = r.left /\ a.uncovered = q.uncovered + r.need
  BY <1>2, <1>10
<1>12. Uncovered(end, E, a)
  BY <1>7, <1>8, <1>9, <1>11 DEF Uncovered
<1> QED BY <1>10, <1>12

\* What is uncovered after any number of events is what was lacking on the worst day.
LEMMA AllUncovered ==
  ASSUME Stocked, NEW end \in Days
  PROVE  \A E \in SUBSET Shipped(end) : Uncovered(end, E, Allocation(end)[E])
<1> DEFINE P == {E \in SUBSET Shipped(end) : Uncovered(end, E, Allocation(end)[E])}
<1>0. Shipped(end) \in SUBSET Outbounds /\ IsFiniteSet(Shipped(end))
  <2>1. Shipped(end) \in SUBSET Outbounds
    BY DEF Shipped
  <2> QED BY <2>1, StockTyped, FS_Subset
<1>1. {} \in P
  <2>1. PICK lack : lack = [k \in Skus |-> 0]
    OBVIOUS
  <2>2. lack \in [Skus -> Nat] /\ SumFunctionOnSet(lack, Skus) = 0
    BY <2>1, StockTyped, SumOfZeros
  <2>3. \A k \in Skus : Lacking(k, end, {}, Untouched.left, lack[k])
    BY <2>1, NothingLacking
  <2>4. Untouched.uncovered = 0
    BY DEF Untouched
  <2>5. Uncovered(end, {}, Untouched)
    BY <2>2, <2>3, <2>4 DEF Uncovered
  <2> QED BY <2>5, AllocationIs
<1>2. ASSUME NEW E \in SUBSET Shipped(end), E # {}, \A x \in E : E \ {x} \in P PROVE E \in P
  <2>1. PICK o, q : o = Latest(out, E) /\ q = Allocation(end)[E \ {o}]
    OBVIOUS
  <2>2. E \in SUBSET Outbounds /\ E \ {o} \in SUBSET Outbounds
    BY <1>0
  <2>3. o \in E
    BY <1>2, <2>1, <2>2, LastEvent
  <2>4. q \in Allocations
    BY <2>1, <2>2, AllocationIs
  <2>5. Uncovered(end, E \ {o}, q)
    BY <1>2, <2>1, <2>3
  <2>6. Allocation(end)[E] = Serve(end, q, o)
    BY <1>2, <2>1, <2>2, AllocationIs
  <2>7. Uncovered(end, E, Serve(end, q, o))
    BY <1>2, <2>1, <2>4, <2>5, UncoveredStep
  <2> QED BY <2>6, <2>7
<1>3. SUBSET Shipped(end) \subseteq P
  <2> HIDE DEF P
  <2> QED BY <1>0, <1>1, <1>2, InductionOnSets
<1> QED BY <1>3

\* The worst day is the maximum that OldestFirst speaks of.
LEMMA ShortIsLack ==
  ASSUME Stocked, NEW end \in Days, NEW k \in Skus, NEW left \in Stocks, NEW n \in Nat,
         Lacking(k, end, Shipped(end), left, n)
  PROVE  Short(k, end) = n
<1>1. \A d \in 1..end : EventsUntil(k, d, Shipped(end)) = {o \in Shipped(d) : out[o].sku = k}
  <2> SUFFICES ASSUME NEW d \in 1..end
               PROVE  EventsUntil(k, d, Shipped(end)) = {o \in Shipped(d) : out[o].sku = k}
    OBVIOUS
  <2>1. \A o \in Outbounds : out[o].day <= d => out[o].day <= end
    BY StockTyped DEF Days
  <2> QED BY <2>1 DEF EventsUntil, Shipped
<1>2. PICK S : S = {Went(k, d, Shipped(end)) - Came(k, d) : d \in 1..end}
  OBVIOUS
<1>3. Short(k, end) = Max({0} \cup S)
  BY <1>1, <1>2 DEF Short, Went, Came, LotsUntil
<1>4. 1..end \subseteq Days /\ 1..end \subseteq Nat
  BY FifoAssumption DEF Days
<1>5. Shipped(end) \in SUBSET Outbounds
  BY DEF Shipped
<1>6. \A d \in 1..end : Went(k, d, Shipped(end)) \in Nat /\ Came(k, d) \in Nat
  BY <1>5, UnitsTyped
<1>7. \A x \in {0} \cup S : x \in Int /\ n >= x
  <2>1. \A d \in 1..end : Went(k, d, Shipped(end)) <= Came(k, d) + n
    BY <1>4 DEF Lacking
  <2> QED BY <1>2, <1>6, <2>1
<1>8. n \in {0} \cup S
  <2>1. CASE n = 0
    BY <2>1
  <2>2. CASE n # 0
    <3>1. PICK d \in 1..end : Went(k, d, Shipped(end)) = Came(k, d) + n
      BY <2>2 DEF Lacking
    <3>2. Went(k, d, Shipped(end)) - Came(k, d) = n
      BY <1>6, <3>1
    <3> QED BY <1>2, <3>2
  <2> QED BY <2>1, <2>2
<1>9. Max({0} \cup S) = n
  <2>1. PICK T : T = {0} \cup S
    OBVIOUS
  <2>2. /\ n \in T /\ \A x \in T : x \in Int /\ n >= x
    BY <1>7, <1>8, <2>1
  <2>3. Max(T) \in T /\ \A x \in T : Max(T) >= x
    BY <2>2 DEF Max
  <2>4. Max(T) = n
    <3>1. PICK m : m = Max(T)
      OBVIOUS
    <3>2. m \in Int /\ n >= m /\ m >= n
      BY <2>2, <2>3, <3>1
    <3> QED BY <3>1, <3>2
  <2> QED BY <2>1, <2>4
<1> QED BY <1>3, <1>9

-----------------------------------------------------------------------------
(***************************************************************************)
(* The costs of the bridge, and of earlier periods                         *)
(***************************************************************************)
Spent(a, events) == SumFunctionOnSet([o \in events |-> CostOf(a.drawn[o])], events)

\* The bridge is where the calculator is.
InStep(p, E, a, b) ==
  /\ b.left = a.left
  /\ a.uncovered = 0 <=> b.open = {}
  /\ b.open \subseteq {out[o].sku : o \in E}
  /\ \A k \in Skus : ~b.costs[k].complete => k \in b.open
  /\ \A k \in Skus : b.costs[k].cost # 0 => \E o \in E \cap InPeriod(p) : out[o].sku = k
  /\ SumFunctionOnSet([k \in Skus |-> b.costs[k].cost], Skus) = Spent(a, E \cap InPeriod(p))

LEMMA SupplyByDay ==
  ASSUME Stocked, NEW end \in Days, NEW o \in Shipped(end), NEW left \in Stocks
  PROVE  Supply(o, left)[Own(Held(end), o)] = Supply(o, left)[Own(Lots, o)]
<1>1. o \in Outbounds /\ out[o].day <= end
  BY DEF Shipped
<1>2. Own(Held(end), o) \cap Reach(o) = Own(Lots, o) \cap Reach(o)
  <2>1. \A l \in Lots : lot[l].day <= out[o].day => lot[l].day <= end
    BY <1>1, StockTyped DEF Days
  <2> QED BY <2>1 DEF Own, Held, Reach
<1>3. /\ Supply(o, left)[Own(Held(end), o)] = Supply(o, left)[Own(Held(end), o) \cap Reach(o)]
      /\ Supply(o, left)[Own(Lots, o)] = Supply(o, left)[Own(Lots, o) \cap Reach(o)]
  BY <1>1, OwnLots, OnlyThoseInReach
<1> QED BY <1>2, <1>3

LEMMA InStepFirst ==
  ASSUME Stocked, NEW p
  PROVE  InStep(p, {}, Untouched, NoCosts)
<1>1. PICK f : f = [k \in Skus |-> NoCosts.costs[k].cost]
  OBVIOUS
<1>2. \A k \in Skus : f[k] = 0
  BY <1>1 DEF NoCosts
<1>3. SumFunctionOnSet(f, Skus) = 0
  BY <1>2, StockTyped, SumOfZeros
<1>4. Spent(Untouched, {} \cap InPeriod(p)) = 0
  <2>1. {} \cap InPeriod(p) = {}
    OBVIOUS
  <2> QED BY <2>1, SumOfNone DEF Spent
<1>5. /\ NoCosts.left = Untouched.left /\ Untouched.uncovered = 0 /\ NoCosts.open = {}
      /\ \A k \in Skus : NoCosts.costs[k].complete /\ NoCosts.costs[k].cost = 0
  BY DEF NoCosts, Untouched
<1> QED BY <1>1, <1>3, <1>4, <1>5 DEF InStep

LEMMA InStepNext ==
  ASSUME Stocked, NEW p \in Periods, NEW E \in SUBSET Shipped(p.end), E # {},
         NEW o, o = Latest(out, E), NEW q \in Allocations, NEW b \in BridgeStates,
         InStep(p, E \ {o}, q, b)
  PROVE  InStep(p, E, Serve(p.end, q, o), BridgeServe(p, b, o))
<1>0. p.start \in Days /\ p.end \in Days /\ Days \subseteq Nat
  BY DEF Periods, Days
<1>1. E \in SUBSET Outbounds /\ o \in E /\ o \in Outbounds /\ o \in Shipped(p.end)
  <2>1. E \in SUBSET Outbounds
    BY DEF Shipped
  <2> QED BY <2>1, LastEvent
<1>2. PICK r \in Supplies :
        /\ r = Supply(o, q.left)[Own(Held(p.end), o)]
        /\ Serve(p.end, q, o) = [left |-> r.left, drawn |-> [q.drawn EXCEPT ![o] = r.drawn],
                                 uncovered |-> q.uncovered + r.need]
  <2>1. PICK end : end = p.end
    OBVIOUS
  <2>2. \E r \in Supplies :
          /\ r = Supply(o, q.left)[Own(Held(end), o)]
          /\ Serve(end, q, o) = [left |-> r.left, drawn |-> [q.drawn EXCEPT ![o] = r.drawn],
                                 uncovered |-> q.uncovered + r.need]
    BY <1>1, ServedStep
  <2> QED BY <2>1, <2>2
<1>3. /\ q.left \in Stocks /\ q.drawn \in [Outbounds -> Stocks] /\ q.uncovered \in Nat
      /\ r.need \in Nat /\ r.left \in Stocks /\ r.drawn \in Stocks
      /\ b.left = q.left /\ b.open \in SUBSET Skus /\ b.costs \in [Skus -> CostRows]
  BY DEF Allocations, Supplies, BridgeStates, InStep
<1>4. PICK next : next = BridgeSupply(o, b.left)[Own(Lots, o)]
  OBVIOUS
<1>5. /\ next.need = r.need /\ next.left = r.left /\ next.cost = CostOf(r.drawn)
      /\ next.cost \in Nat
  <2>1. r = Supply(o, q.left)[Own(Lots, o)]
    BY <1>0, <1>1, <1>2, <1>3, SupplyByDay
  <2>2. Alike(r, next)
    BY <1>1, <1>3, <1>4, <2>1, OwnLots, AllAlike
  <2> QED BY <2>2 DEF Alike
<1>6. PICK s : s = out[o].sku
  OBVIOUS
<1>7. s \in Skus
  BY <1>1, <1>6, StockTyped
<1>8. PICK old : old = b.costs[s]
  OBVIOUS
<1>9. old \in CostRows /\ old.cost \in Nat /\ old.complete \in BOOLEAN
  BY <1>3, <1>7, <1>8 DEF CostRows
<1>10. PICK row : row = [units |-> old.units + out[o].units - next.need,
                         cost |-> old.cost + next.cost,
                         complete |-> old.complete /\ next.need = 0]
  OBVIOUS
<1>11. PICK costs : costs = IF p.start <= out[o].day THEN [b.costs EXCEPT ![s] = row] ELSE b.costs
  OBVIOUS
<1>12. PICK open : open = IF next.need # 0 THEN b.open \cup {s} ELSE b.open
  OBVIOUS
<1>13. PICK a, c : a = Serve(p.end, q, o) /\ c = BridgeServe(p, b, o)
  OBVIOUS
<1>14. c.left = r.left /\ c.open = open /\ c.costs = costs
  <2>1. c = [left |-> next.left, open |-> open, costs |-> costs]
    BY <1>3, <1>4, <1>6, <1>7, <1>8, <1>10, <1>11, <1>12, <1>13 DEF BridgeServe
  <2> QED BY <1>5, <2>1
<1>15. /\ a.left = r.left /\ a.uncovered = q.uncovered + r.need
       /\ a.drawn[o] = r.drawn /\ \A e \in Outbounds \ {o} : a.drawn[e] = q.drawn[e]
       /\ \A e \in Outbounds : a.drawn[e] \in Stocks
  BY <1>1, <1>2, <1>3, <1>13
<1>16. a.uncovered = 0 <=> c.open = {}
  <2>1. q.uncovered = 0 <=> b.open = {}
    BY DEF InStep
  <2>2. a.uncovered = 0 <=> (q.uncovered = 0 /\ r.need = 0)
    BY <1>3, <1>15
  <2>3. c.open = {} <=> (b.open = {} /\ next.need = 0)
    BY <1>12, <1>14
  <2> QED BY <1>5, <2>1, <2>2, <2>3
<1>17. c.open \subseteq {out[e].sku : e \in E}
  <2>1. b.open \subseteq {out[e].sku : e \in E \ {o}}
    BY DEF InStep
  <2> QED BY <1>1, <1>6, <1>12, <1>14, <2>1
<1>18. ASSUME NEW k \in Skus, ~c.costs[k].complete PROVE k \in c.open
  <2>1. ~b.costs[k].complete => k \in b.open
    BY DEF InStep
  <2>2. CASE p.start <= out[o].day /\ k = s
    <3>1. c.costs[k] = row
      BY <1>3, <1>7, <1>11, <1>14, <2>2
    <3>2. row.complete = (old.complete /\ next.need = 0)
      BY <1>10, Zenon
    <3>3. ~old.complete \/ next.need # 0
      BY <1>18, <3>1, <3>2, Zenon
    <3> QED BY <1>8, <1>12, <1>14, <2>1, <2>2, <3>3
  <2>3. CASE ~(p.start <= out[o].day /\ k = s)
    <3>1. c.costs[k] = b.costs[k]
      BY <1>3, <1>11, <1>14, <2>3
    <3> QED BY <1>12, <1>14, <1>18, <2>1, <3>1
  <2> QED BY <2>2, <2>3
<1>19. p.start <= out[o].day <=> o \in InPeriod(p)
  BY <1>1 DEF InPeriod, Shipped
<1>20. ASSUME NEW k \in Skus, c.costs[k].cost # 0
       PROVE  \E e \in E \cap InPeriod(p) : out[e].sku = k
  <2>1. b.costs[k].cost # 0 => \E e \in (E \ {o}) \cap InPeriod(p) : out[e].sku = k
    BY DEF InStep
  <2>2. CASE p.start <= out[o].day /\ k = s
    BY <1>1, <1>6, <1>19, <2>2
  <2>3. CASE ~(p.start <= out[o].day /\ k = s)
    <3>1. c.costs[k] = b.costs[k]
      BY <1>3, <1>11, <1>14, <2>3
    <3> QED BY <1>20, <2>1, <3>1
  <2> QED BY <2>2, <2>3
<1>21. SumFunctionOnSet([k \in Skus |-> c.costs[k].cost], Skus) = Spent(a, E \cap InPeriod(p))
  <2>1. PICK f, g : /\ f = [k \in Skus |-> b.costs[k].cost]
                    /\ g = [k \in Skus |-> c.costs[k].cost]
    OBVIOUS
  <2>2. PICK U, V : U = E \cap InPeriod(p) /\ V = (E \ {o}) \cap InPeriod(p)
    OBVIOUS
  <2>3. U \in SUBSET Outbounds /\ V \in SUBSET Outbounds /\ o \notin V
        /\ IsFiniteSet(U) /\ IsFiniteSet(V)
    <3>1. U \in SUBSET Outbounds /\ V \in SUBSET Outbounds /\ o \notin V
      BY <1>1, <2>2
    <3> QED BY <3>1, StockTyped, FS_Subset
  <2>4. PICK h, j : /\ h = [e \in V |-> CostOf(q.drawn[e])]
                    /\ j = [e \in U |-> CostOf(a.drawn[e])]
    OBVIOUS
  <2>5. SumFunctionOnSet(f, Skus) = SumFunctionOnSet(h, V)
    BY <2>1, <2>2, <2>4 DEF InStep, Spent
  <2>6. /\ \A e \in V : h[e] \in Int /\ e \in U /\ j[e] = h[e]
        /\ \A e \in U : j[e] \in Int
    <3>1. \A e \in V : q.drawn[e] \in Stocks /\ a.drawn[e] = q.drawn[e] /\ e \in U
      BY <1>1, <1>3, <1>15, <2>2, <2>3
    <3>2. \A e \in V : CostOf(q.drawn[e]) \in Nat
      BY <3>1, CostIsSum
    <3>3. \A e \in U : CostOf(a.drawn[e]) \in Nat
      BY <1>15, <2>3, CostIsSum
    <3> QED BY <2>4, <3>1, <3>2, <3>3
  <2>7. SumFunctionOnSet(j, V) = SumFunctionOnSet(h, V)
    BY <2>3, <2>6, SumOfSame
  <2>8. \A k \in Skus : f[k] \in Int
    BY <1>3, <2>1 DEF CostRows
  <2>9. CASE p.start <= out[o].day
    <3>1. U = V \cup {o} /\ o \in U /\ V = U \ {o}
      BY <1>1, <1>19, <2>2, <2>9
    <3>2. SumFunctionOnSet(j, U) = j[o] + SumFunctionOnSet(j, V)
      BY <2>3, <2>6, <3>1, SumOfOne
    <3>3. j[o] = next.cost
      BY <1>5, <1>15, <2>4, <3>1
    <3>4. costs = [b.costs EXCEPT ![s] = row]
      BY <1>11, <2>9
    <3>5. /\ \A k \in Skus \ {s} : g[k] = f[k]
          /\ f[s] = old.cost /\ g[s] = old.cost + next.cost
      BY <1>3, <1>7, <1>8, <1>10, <1>14, <2>1, <3>4
    <3>6. g[s] \in Int
      BY <1>5, <1>9, <3>5
    <3>7. SumFunctionOnSet(g, Skus) = SumFunctionOnSet(f, Skus) + (g[s] - f[s])
      BY <1>7, <2>8, <3>5, <3>6, StockTyped, SumOfUpdate
    <3>8. SumFunctionOnSet(f, Skus) \in Int
      BY <2>8, StockTyped, SumTyped
    <3>9. SumFunctionOnSet(g, Skus) = SumFunctionOnSet(j, U)
      BY <1>5, <1>9, <2>5, <2>7, <3>2, <3>3, <3>5, <3>7, <3>8
    <3> QED BY <2>1, <2>2, <2>4, <3>9 DEF Spent
  <2>10. CASE ~(p.start <= out[o].day)
    <3>1. U = V /\ g = f
      BY <1>1, <1>11, <1>14, <1>19, <2>1, <2>2, <2>10
    <3> QED BY <2>1, <2>2, <2>4, <2>5, <2>7, <3>1 DEF Spent
  <2> QED BY <2>9, <2>10
<1>22. c.left = a.left
  BY <1>14, <1>15
<1>23. InStep(p, E, a, c)
  BY <1>16, <1>17, <1>18, <1>20, <1>21, <1>22 DEF InStep
<1> QED BY <1>13, <1>23

\* The outer loops: the bridge has the costs that the calculator adds up, by SKU.
LEMMA AllInStep ==
  ASSUME Stocked, NEW p \in Periods
  PROVE  \A E \in SUBSET Shipped(p.end) : InStep(p, E, Allocation(p.end)[E], BridgeCosts(p)[E])
<1> DEFINE P == {E \in SUBSET Shipped(p.end) :
                   InStep(p, E, Allocation(p.end)[E], BridgeCosts(p)[E])}
<1>0. Shipped(p.end) \in SUBSET Outbounds /\ IsFiniteSet(Shipped(p.end))
  <2>1. Shipped(p.end) \in SUBSET Outbounds
    BY DEF Shipped
  <2> QED BY <2>1, StockTyped, FS_Subset
<1>1. {} \in P
  BY AllocationIs, BridgeCostsIs, InStepFirst
<1>2. ASSUME NEW E \in SUBSET Shipped(p.end), E # {}, \A x \in E : E \ {x} \in P PROVE E \in P
  <2>1. PICK o : o = Latest(out, E)
    OBVIOUS
  <2>2. PICK q, b : q = Allocation(p.end)[E \ {o}] /\ b = BridgeCosts(p)[E \ {o}]
    OBVIOUS
  <2>3. E \in SUBSET Outbounds /\ E \ {o} \in SUBSET Outbounds
    BY <1>0
  <2>4. o \in E
    BY <1>2, <2>1, <2>3, LastEvent
  <2>5. q \in Allocations /\ b \in BridgeStates
    BY <2>2, <2>3, AllocationIs, BridgeCostsIs
  <2>6. InStep(p, E \ {o}, q, b)
    BY <1>2, <2>2, <2>4
  <2>7. Allocation(p.end)[E] = Serve(p.end, q, o) /\ BridgeCosts(p)[E] = BridgeServe(p, b, o)
    BY <1>2, <2>1, <2>2, <2>3, AllocationIs, BridgeCostsIs
  <2>8. InStep(p, E, Serve(p.end, q, o), BridgeServe(p, b, o))
    BY <1>2, <2>1, <2>5, <2>6, InStepNext
  <2> QED BY <2>7, <2>8
<1>3. SUBSET Shipped(p.end) \subseteq P
  <2>1. PICK S : S = Shipped(p.end)
    OBVIOUS
  <2> HIDE DEF P
  <2>2. SUBSET S \subseteq P
    BY <1>0, <1>1, <1>2, <2>1, InductionOnSets
  <2> QED BY <2>1, <2>2
<1> QED BY <1>3

\* What was told of an earlier day stays true.
LEMMA SameUntil ==
  ASSUME Stocked, NEW c \in Days, NEW d \in Days, c <= d
  PROVE  \A E \in SUBSET Shipped(c) : Allocation(c)[E] = Allocation(d)[E]
<1> DEFINE P == {E \in SUBSET Shipped(c) : Allocation(c)[E] = Allocation(d)[E]}
<1>0. /\ Shipped(c) \in SUBSET Outbounds /\ IsFiniteSet(Shipped(c))
      /\ Shipped(c) \subseteq Shipped(d)
  <2>1. Shipped(c) \in SUBSET Outbounds
    BY DEF Shipped
  <2>2. Shipped(c) \subseteq Shipped(d)
    BY StockTyped DEF Shipped, Days
  <2> QED BY <2>1, <2>2, StockTyped, FS_Subset
<1>1. {} \in P
  BY AllocationIs
<1>2. ASSUME NEW E \in SUBSET Shipped(c), E # {}, \A x \in E : E \ {x} \in P PROVE E \in P
  <2>1. PICK o, q : o = Latest(out, E) /\ q = Allocation(c)[E \ {o}]
    OBVIOUS
  <2>2. E \in SUBSET Outbounds /\ E \ {o} \in SUBSET Outbounds
    BY <1>0
  <2>3. o \in E
    BY <1>2, <2>1, <2>2, LastEvent
  <2>4. q = Allocation(d)[E \ {o}] /\ q \in Allocations /\ q.left \in Stocks
    BY <1>2, <2>1, <2>2, <2>3, AllocationIs DEF Allocations
  <2>5. Supply(o, q.left)[Own(Held(c), o)] = Supply(o, q.left)[Own(Held(d), o)]
    BY <1>0, <2>3, <2>4, SupplyByDay
  <2>6. Serve(c, q, o) = Serve(d, q, o)
    BY <2>5 DEF Serve
  <2>7. Allocation(c)[E] = Serve(c, q, o) /\ Allocation(d)[E] = Serve(d, q, o)
    BY <1>2, <2>1, <2>2, <2>4, AllocationIs
  <2> QED BY <2>6, <2>7
<1>3. SUBSET Shipped(c) \subseteq P
  <2> HIDE DEF P
  <2> QED BY <1>0, <1>1, <1>2, InductionOnSets
<1> QED BY <1>3

\* An event gets the same, whatever comes after it.
LEMMA LaterEventsChangeNothing ==
  ASSUME Stocked, NEW c \in Days, NEW d \in Days
  PROVE  \A E \in SUBSET Outbounds : \A o \in Shipped(c) :
           Allocation(d)[E].drawn[o] = Allocation(d)[E \cap Shipped(c)].drawn[o]
<1> DEFINE Same(E) == \A o \in Shipped(c) :
                        Allocation(d)[E].drawn[o] = Allocation(d)[E \cap Shipped(c)].drawn[o]
           P == {E \in SUBSET Outbounds : Same(E)}
<1>1. {} \in P
  <2>1. {} \cap Shipped(c) = {}
    OBVIOUS
  <2> QED BY <2>1
<1>2. ASSUME NEW E \in SUBSET Outbounds, E # {}, \A x \in E : E \ {x} \in P PROVE E \in P
  <2>1. PICK o, q : o = Latest(out, E) /\ q = Allocation(d)[E \ {o}]
    OBVIOUS
  <2>2. o \in E /\ \A e \in E \ {o} : Before(out, e, o)
    BY <1>2, <2>1, LastEvent
  <2>3. CASE o \in Shipped(c)
    <3>1. E \subseteq Shipped(c)
      BY <2>2, <2>3, StockTyped DEF Before, Shipped, Days
    <3>2. E \cap Shipped(c) = E
      BY <3>1
    <3> QED BY <3>2
  <2>4. CASE o \notin Shipped(c)
    <3>1. E \cap Shipped(c) = (E \ {o}) \cap Shipped(c)
      BY <2>4
    <3>2. Same(E \ {o})
      BY <1>2, <2>2
    <3>3. q \in Allocations /\ Allocation(d)[E] = Serve(d, q, o)
      BY <1>2, <2>1, AllocationIs
    <3>4. PICK a : a = Serve(d, q, o)
      OBVIOUS
    <3>5. \A e \in Outbounds \ {o} : a.drawn[e] = q.drawn[e]
      <4>1. q.drawn \in [Outbounds -> Stocks]
        BY <3>3 DEF Allocations
      <4> QED BY <3>4, <4>1 DEF Serve
    <3>6. Shipped(c) \subseteq Outbounds \ {o}
      BY <2>4 DEF Shipped
    <3> QED BY <2>1, <3>1, <3>2, <3>3, <3>4, <3>5, <3>6
  <2> QED BY <2>3, <2>4
<1>3. SUBSET Outbounds \subseteq P
  <2> HIDE DEF P
  <2> QED BY <1>1, <1>2, StockTyped, InductionOnSets
<1> QED BY <1>3

\* A period, what the calculator has allocated in it, and what the bridge has.
LEMMA AskedIs ==
  ASSUME Stocked, NEW p \in Periods, NEW end, end = p.end
  PROVE  /\ end \in Days /\ Shipped(end) \in SUBSET Outbounds
         /\ Allocated(end) = Allocation(end)[Shipped(end)] /\ Allocated(end) \in Allocations
         /\ FromLots(Shipped(end), Allocated(end))
         /\ Uncovered(end, Shipped(end), Allocated(end))
         /\ InStep(p, Shipped(end), Allocated(end), BridgeCosts(p)[Shipped(end)])
         /\ BridgeCosts(p)[Shipped(end)] \in BridgeStates
<1>1. end \in Days /\ Shipped(end) \in SUBSET Outbounds
  BY DEF Periods, Shipped
<1>2. PICK S : S = Shipped(end)
  OBVIOUS
<1>3. Allocated(end) = Allocation(end)[S]
  BY <1>2 DEF Allocated
<1>4. /\ Allocation(end)[S] \in Allocations /\ BridgeCosts(p)[S] \in BridgeStates
      /\ S \in SUBSET Shipped(end)
  BY <1>1, <1>2, AllocationIs, BridgeCostsIs
<1>5. FromLots(S, Allocation(end)[S]) /\ Uncovered(end, S, Allocation(end)[S])
  BY <1>1, <1>4, AllFromLots, AllUncovered
<1>6. InStep(p, S, Allocation(end)[S], BridgeCosts(p)[S])
  <2>1. S \in SUBSET Shipped(p.end)
    BY <1>4
  <2>2. InStep(p, S, Allocation(p.end)[S], BridgeCosts(p)[S])
    BY <2>1, AllInStep
  <2> QED BY <2>2
<1> QED BY <1>1, <1>2, <1>3, <1>4, <1>5, <1>6

Answered == Stocked /\ period \in Periods /\ answer = Calculator(period)

LEMMA AllocatedIs ==
  ASSUME Answered
  PROVE  answer.allocated = Allocated(period.end)
BY DEF Answered, Calculator

\* Both halves of CostsFollowLots, for an answer that was given.
LEMMA AnsweredOldestFirst ==
  ASSUME Answered
  PROVE  OldestFirst
<1>1. PICK end, a : end = period.end /\ a = answer.allocated
  OBVIOUS
<1>2. Stocked /\ period \in Periods
  BY DEF Answered
<1>3. a = Allocated(end)
  BY <1>1, AllocatedIs
<1>4. /\ end \in Days /\ Shipped(end) \in SUBSET Outbounds /\ a \in Allocations
      /\ FromLots(Shipped(end), a) /\ Uncovered(end, Shipped(end), a)
  BY <1>1, <1>2, <1>3, AskedIs
<1>5. \A l, events : DrawnFrom(l, events) = Taken(a, l, events)
  BY <1>1 DEF DrawnFrom, Taken
<1>6. \A o \in Outbounds, l \in Lots : a.drawn[o][l] > 0 => o \in Shipped(end)
  BY <1>4 DEF FromLots
<1>7. \A o \in Outbounds : SumFunction(a.drawn[o]) = SumFunctionOnSet(a.drawn[o], Lots)
  BY <1>4 DEF SumFunction, Allocations, Stocks
<1>8. a.uncovered = SumFunction([s \in Skus |-> Short(s, end)])
  <2>1. PICK lack \in [Skus -> Nat] :
          /\ a.uncovered = SumFunctionOnSet(lack, Skus)
          /\ \A k \in Skus : Lacking(k, end, Shipped(end), a.left, lack[k])
    BY <1>4 DEF Uncovered
  <2>2. PICK f : f = [s \in Skus |-> Short(s, end)]
    OBVIOUS
  <2>3. ASSUME NEW k \in Skus PROVE lack[k] \in Int /\ f[k] = lack[k]
    <3>1. lack[k] \in Nat /\ a.left \in Stocks
      BY <1>4, <2>1 DEF Allocations
    <3>2. Short(k, end) = lack[k]
      BY <1>2, <1>4, <2>1, <3>1, ShortIsLack
    <3> QED BY <2>2, <3>1, <3>2
  <2>4. SumFunctionOnSet(f, Skus) = SumFunctionOnSet(lack, Skus)
    BY <1>2, <2>3, StockTyped, SumOfSame
  <2>5. SumFunction(f) = SumFunctionOnSet(f, Skus)
    BY <2>2 DEF SumFunction
  <2> QED BY <2>1, <2>2, <2>4, <2>5
<1> QED BY <1>1, <1>4, <1>5, <1>6, <1>7, <1>8 DEF OldestFirst, FromLots

LEMMA AnsweredPeriodCosts ==
  ASSUME Answered
  PROVE  PeriodCostsAgree
<1>1. PICK p, end, a : p = period /\ end = period.end /\ a = answer.allocated
  OBVIOUS
<1>2. Stocked /\ p \in Periods /\ answer = Calculator(p)
  BY <1>1 DEF Answered
<1>3. a = Allocated(end)
  BY <1>1, AllocatedIs
<1>4. PICK S, b : S = Shipped(end) /\ b = BridgeCosts(p)[S]
  OBVIOUS
<1>5. /\ end \in Days /\ S \in SUBSET Outbounds /\ a \in Allocations
      /\ InStep(p, S, a, b) /\ b \in BridgeStates
  BY <1>1, <1>2, <1>3, <1>4, AskedIs
<1>6. PICK U : U = InPeriod(p)
  OBVIOUS
<1>7. U \in SUBSET S /\ S \cap U = U
  BY <1>1, <1>4, <1>6 DEF InPeriod, Shipped
<1>8. PICK found : found = {out[o].sku : o \in U}
  OBVIOUS
<1>9. found \in SUBSET Skus
  BY <1>2, <1>5, <1>7, <1>8, StockTyped
<1>10. PICK costs : costs = PeriodCosts(p)
  OBVIOUS
<1>11. /\ DOMAIN costs = found
       /\ \A s \in found : /\ costs[s].cost = b.costs[s].cost
                           /\ costs[s].complete <=> b.costs[s].complete /\ s \notin b.open
  <2>1. costs = [s \in found |-> [b.costs[s] EXCEPT !.complete = @ /\ s \notin b.open]]
    BY <1>1, <1>4, <1>6, <1>8, <1>10 DEF PeriodCosts
  <2>2. \A s \in found : b.costs[s] \in CostRows
    BY <1>5, <1>9 DEF BridgeStates
  <2>3. ASSUME NEW s \in found
        PROVE  /\ costs[s].cost = b.costs[s].cost
               /\ costs[s].complete <=> b.costs[s].complete /\ s \notin b.open
    <3>1. PICK row \in CostRows : row = b.costs[s]
      BY <2>2
    <3>2. costs[s] = [row EXCEPT !.complete = row.complete /\ s \notin b.open]
      BY <2>1, <3>1
    <3>3. PICK flag : flag = (row.complete /\ s \notin b.open)
      OBVIOUS
    <3>4. costs[s] = [units |-> row.units, cost |-> row.cost, complete |-> flag]
      BY <3>2, <3>3 DEF CostRows
    <3>5. costs[s].cost = row.cost
      BY <3>4
    <3>6. costs[s].complete = flag
      BY <3>4
    <3>7. costs[s].complete <=> row.complete /\ s \notin b.open
      BY <3>3, <3>6, Zenon
    <3> QED BY <3>1, <3>5, <3>7, Zenon
  <2> QED BY <2>1, <2>3
<1>12. PICK covered : covered = (a.uncovered = 0 /\ Held(end) # {})
  OBVIOUS
<1>13. answer.cogs = IF covered /\ U # {} THEN Cost(a, U) ELSE Untold
  BY <1>1, <1>2, <1>3, <1>6, <1>12 DEF Calculator
<1>14. Cost(a, U) = Spent(a, U)
  BY DEF Cost, Spent
<1>15. a.uncovered = 0 <=> b.open = {}
  BY <1>5 DEF InStep
<1>16. Cost(a, U) = SumFunction([s \in found |-> costs[s].cost]) /\ Cost(a, U) \in Nat
  <2>1. PICK f, g : f = [k \in Skus |-> b.costs[k].cost] /\ g = [s \in found |-> costs[s].cost]
    OBVIOUS
  <2>2. SumFunctionOnSet(f, Skus) = Spent(a, U)
    BY <1>5, <1>6, <1>7, <2>1 DEF InStep
  <2>3. \A k \in Skus : f[k] \in Nat
    BY <1>5, <2>1 DEF BridgeStates, CostRows
  <2>4. \A s \in found : g[s] \in Int /\ f[s] = g[s]
    BY <1>9, <1>11, <2>1, <2>3
  <2>5. \A k \in Skus \ found : f[k] = 0
    <3>1. \A k \in Skus : b.costs[k].cost # 0 => \E o \in U : out[o].sku = k
      BY <1>5, <1>6, <1>7 DEF InStep
    <3> QED BY <1>8, <2>1, <3>1
  <2>6. SumFunctionOnSet(f, Skus) = SumFunctionOnSet(g, found)
    BY <1>2, <1>9, <2>4, <2>5, StockTyped, SumOfPart
  <2>7. SumFunctionOnSet(f, Skus) \in Nat
    BY <1>2, <2>3, StockTyped, SumOfNaturals
  <2>8. SumFunction(g) = SumFunctionOnSet(g, found)
    BY <2>1 DEF SumFunction
  <2> QED BY <1>14, <2>1, <2>2, <2>6, <2>7, <2>8
<1>17. Untold \notin Nat
  BY FifoAssumption
<1>18. answer.cogs # Untold => /\ \A s \in found : costs[s].complete
                               /\ answer.cogs = SumFunction([s \in found |-> costs[s].cost])
  <2> SUFFICES ASSUME answer.cogs # Untold
               PROVE  /\ \A s \in found : costs[s].complete
                      /\ answer.cogs = SumFunction([s \in found |-> costs[s].cost])
    OBVIOUS
  <2>1. covered /\ answer.cogs = Cost(a, U)
    BY <1>13
  <2>2. b.open = {}
    BY <1>12, <1>15, <2>1
  <2>3. \A s \in found : b.costs[s].complete
    BY <1>5, <1>9, <2>2 DEF InStep
  <2> QED BY <1>11, <1>16, <2>1, <2>2, <2>3
<1>19. U = S /\ found # {} /\ Held(end) # {} /\ (\A s \in found : costs[s].complete)
         => answer.cogs # Untold
  <2> SUFFICES ASSUME U = S, found # {}, Held(end) # {}, \A s \in found : costs[s].complete
               PROVE  answer.cogs # Untold
    OBVIOUS
  <2>1. b.open \subseteq found
    BY <1>5, <1>8 DEF InStep
  <2>2. b.open = {}
    BY <1>11, <2>1
  <2>3. covered /\ U # {}
    BY <1>8, <1>12, <1>15, <2>2
  <2> QED BY <1>13, <1>16, <1>17, <2>3
<1>20. ASSUME NEW d \in 1..(end - 1), NEW o \in Shipped(d), NEW l \in Lots
       PROVE  Allocated(d).drawn[o][l] = a.drawn[o][l]
  <2>1. d \in Days /\ d <= end
    BY <1>5, FifoAssumption DEF Days
  <2>2. Shipped(d) \in SUBSET Outbounds /\ S \cap Shipped(d) = Shipped(d)
    BY <1>2, <1>4, <1>5, <2>1, StockTyped DEF Shipped, Days
  <2>3. PICK E : E = Shipped(d)
    OBVIOUS
  <2>4. Allocation(d)[E] = Allocation(end)[E]
    BY <1>2, <1>5, <2>1, <2>3, SameUntil
  <2>5. Allocation(end)[S].drawn[o] = Allocation(end)[S \cap Shipped(d)].drawn[o]
    BY <1>2, <1>5, <2>1, LaterEventsChangeNothing
  <2>6. Allocated(d) = Allocation(d)[E] /\ a = Allocation(end)[S]
    BY <1>3, <1>4, <2>3 DEF Allocated
  <2> QED BY <2>2, <2>3, <2>4, <2>5, <2>6
<1>21. PICK complete : complete = (\A s \in DOMAIN costs : costs[s].complete)
  OBVIOUS
<1> QED BY <1>1, <1>4, <1>6, <1>10, <1>11, <1>18, <1>19, <1>20 DEF PeriodCostsAgree

FifoInv ==
  /\ answer = Untold \/ (Stocked /\ period \in Periods)
  /\ Told => answer = Calculator(period)

LEMMA CalculatorStays ==
  UNCHANGED <<lot, out, period>> => Calculator(period)' = Calculator(period)
BY DEF Calculator, Allocated, Allocation, Serve, Own, Held, Shipped, Untouched, Cost, CostOf,
       InPeriod, Supply, Latest, Before, Draw

\* The rows and the period do not change once they were read.
LEMMA FifoStep == FifoInv /\ [FifoNext]_fifoVars => FifoInv'
<1> SUFFICES ASSUME FifoInv, [FifoNext]_fifoVars PROVE FifoInv'
  OBVIOUS
<1>1. CASE Read
  <2>1. /\ period' \in Periods /\ lot' \in [Lots -> Rows] /\ out' \in [Outbounds -> Rows]
        /\ answer' = Asked
    BY <1>1 DEF Read
  <2> QED BY <2>1 DEF FifoInv, Told, Stocked, Periods, Days, Rows
<1>2. CASE Calculate
  <2>1. answer = Asked /\ answer' = Calculator(period) /\ UNCHANGED <<lot, out, period>>
    BY <1>2 DEF Calculate
  <2>2. answer # Untold
    BY <2>1, FifoAssumption
  <2> QED BY <2>1, <2>2, CalculatorStays DEF FifoInv, Told, Stocked, Periods, Days, Rows
<1>3. CASE UNCHANGED fifoVars
  <2>1. UNCHANGED <<lot, out, period, answer>>
    BY <1>3 DEF fifoVars
  <2> QED BY <2>1, CalculatorStays DEF FifoInv, Told, Stocked, Periods, Days, Rows
<1> QED BY <1>1, <1>2, <1>3 DEF FifoNext

\* Whatever came and went, in whichever order the rows are: calculate_fifo_cost_aging uses
\* the oldest stock first and leaves uncovered what was lacking on the worst day; and
\* _fifo_period_costs finds the same costs, unknown in the same cases, with the lots of
\* all days where the calculator has left out those of later days.
THEOREM CostsFollow == FifoSpec => []CostsFollowLots
<1>1. FifoInit => FifoInv
  BY DEF FifoInit, FifoInv, Told
<1>2. FifoInv => CostsFollowLots
  <2> SUFFICES ASSUME FifoInv PROVE CostsFollowLots
    OBVIOUS
  <2>1. CASE Told
    <3>1. Answered
      BY <2>1 DEF FifoInv, Told, Answered
    <3> QED BY <3>1, AnsweredOldestFirst, AnsweredPeriodCosts DEF CostsFollowLots
  <2>2. CASE ~Told
    BY <2>2 DEF CostsFollowLots, OldestFirst, PeriodCostsAgree
  <2> QED BY <2>1, <2>2
<1> QED BY <1>1, <1>2, FifoStep, PTL DEF FifoSpec
=============================================================================
