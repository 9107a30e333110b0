-------------------------- MODULE OperationsProofs --------------------------
(***************************************************************************)
(* Proofs about the procedures operators run by hand.                      *)
(*                                                                         *)
(* The change of the operator's password.  A pair is replaced item by item *)
(* while the database, the application and the controller fail one by one, *)
(* so what is known of the password in force is stated for each stage the  *)
(* controller may die in; what survives its death is only that a rotation  *)
(* is open, and that the pending pair is left alone until it is finished.  *)
(*                                                                         *)
(* The enablement of the AI.  What it reports is true because every call   *)
(* of its plan leaves a trace in what is deployed; the invariant says, for *)
(* each place of the plan, which of them are already there, and what the   *)
(* ways out of it (abort, recovery) still have to undo.                    *)
(*                                                                         *)
(* The release.  Its process remembers one revision of the control and     *)
(* reads it once; the invariant counts the changes it has made and says    *)
(* that they are the last rows up to the one remembered.                   *)
(***************************************************************************)
EXTENDS OperatorRotation, AIEnablement, AdminAIRelease, SequenceTheorems, TLAPS

-----------------------------------------------------------------------------
(***************************************************************************)
(* Types of the rotation                                                   *)
(***************************************************************************)

Item == Hashes \cup {Missing}

Pair == [password : Item, hash : Item]

Package ==
  [kind : {"forward", "inverse"}, old : Item, new : Item, revision : Nat]

Execution ==
  [package : Package,
   result : {"running", "rotated", "already_rotated", "failed"}]

\* Stages of a run before and after the promotion, which a run by hand shares.
Applying == {"activate", "verify", "smoke", "cleanup"}
Preparing == {"stage", "start", "await"}
Promoting ==
  {"load", "password", "hash", "restore", "clear_password", "clear_hash"}

RunTool ==
  [pc : Preparing \cup Applying \cup Promoting \cup {"receipt"},
   package : Package, exec : Nat, hand : {FALSE}, kept : Pair, taken : Pair]

HandTool ==
  [pc : Promoting, exec : Nat, hand : {TRUE}, kept : Pair, taken : Pair]

RotationTypes ==
  /\ keychain \in [current : Pair, pending : Pair]
  /\ database \in Item /\ login \in Item
  /\ app \in [image : {"serving", "candidate"}, revision : Nat, hash : Item]
  /\ job \in {NoJob} \cup [enabled : {TRUE}, package : Package]
  /\ executions \in Seq(Execution)
  /\ packages \subseteq Package
  /\ tool \in {NoTool} \cup RunTool \cup HandTool

-----------------------------------------------------------------------------
(***************************************************************************)
(* The controller's record                                                 *)
(***************************************************************************)

LEMMA ToolKinds ==
  RotationTypes => tool = NoTool \/ tool \in RunTool \/ tool \in HandTool
BY DEF RotationTypes

LEMMA IdleTool == NoTool.pc = "idle"
BY DEF NoTool

LEMMA RunFields ==
  tool \in RunTool =>
    /\ tool.pc \in Preparing \cup Applying \cup Promoting \cup {"receipt"}
    /\ tool.package \in Package /\ tool.exec \in Nat /\ ~tool.hand
    /\ tool.kept \in Pair /\ tool.taken \in Pair
BY DEF RunTool

LEMMA HandFields ==
  tool \in HandTool =>
    /\ tool.pc \in Promoting
    /\ tool.exec \in Nat /\ tool.hand
    /\ tool.kept \in Pair /\ tool.taken \in Pair
BY DEF HandTool

\* Only a run of the whole procedure has a package.
LEMMA Stages ==
  RotationTypes =>
    /\ tool.pc \in Preparing \cup Applying \cup {"receipt"} => tool \in RunTool
    /\ tool.pc \in Promoting => tool \in RunTool \/ tool \in HandTool
BY ToolKinds, IdleTool, HandFields DEF Preparing, Applying, Promoting

LEMMA RunProceeds ==
  ASSUME tool \in RunTool,
         NEW c \in Preparing \cup Applying \cup Promoting \cup {"receipt"}, Proceed(c)
  PROVE  /\ tool' \in RunTool /\ tool'.pc = c
         /\ tool'.package = tool.package /\ tool'.exec = tool.exec
         /\ tool'.hand = tool.hand /\ tool'.taken = tool.taken
BY DEF RunTool, Proceed

LEMMA HandProceeds ==
  ASSUME tool \in HandTool, NEW c \in Promoting, Proceed(c)
  PROVE  /\ tool' \in HandTool /\ tool'.pc = c
         /\ tool'.hand = tool.hand /\ tool'.taken = tool.taken
BY DEF HandTool, Proceed

\* The shape of the keychain, and what a write to one of its items leaves.
LEMMA PairShape ==
  ASSUME NEW p \in Pair
  PROVE  /\ p = [password |-> p.password, hash |-> p.hash]
         /\ p.password \in Item /\ p.hash \in Item
BY DEF Pair

LEMMA PairTyped ==
  ASSUME NEW h \in Item
  PROVE  PairOf(h) \in Pair /\ PairOf(h).password = h /\ PairOf(h).hash = h
BY DEF PairOf, Pair

-----------------------------------------------------------------------------
(***************************************************************************)
(* What holds at each stage                                                *)
(***************************************************************************)

BothValid == ValidPair(keychain.current) /\ ValidPair(keychain.pending)

OutsideRotations == ~open => Quiet /\ database = keychain.current.password

\* An execution that still runs is the one awaited, or one whose controller
\* stopped; it can only put a password in force that is in the keychain.
RunningIsAwaited ==
  \A i \in DOMAIN executions : executions[i].result = "running" =>
    /\ executions[i].package.new
         \in {keychain.current.password, keychain.pending.password}
    /\ \/ ToolAt("idle")
       \/ ToolAt("await") /\ i = tool.exec

PackageFits ==
  tool.pc \in Preparing \cup Applying =>
    /\ BothValid
    /\ tool.package.new = IF tool.package.kind = "forward"
                          THEN keychain.pending.hash ELSE keychain.current.hash

JobFits ==
  ToolAt("start") => job = [enabled |-> TRUE, package |-> tool.package]

AwaitedFits ==
  ToolAt("await") =>
    /\ open
    /\ tool.exec \in DOMAIN executions
    /\ executions[tool.exec].package = tool.package
    /\ executions[tool.exec].result \in {"rotated", "already_rotated"} =>
         database = tool.package.new

AppliedFits ==
  /\ tool.pc \in Applying => open /\ database = tool.package.new
  /\ tool.pc \in Applying \ {"activate"} => app.hash = database

\* The pair being promoted is the one in force and stays pending until it is current.
PromotionFits ==
  /\ tool.pc \in Promoting => open
  /\ ToolAt("load") /\ BothValid => database = keychain.pending.password
  /\ tool.pc \in {"password", "hash", "restore", "clear_password"} =>
       /\ keychain.pending = tool.taken /\ tool.taken = PairOf(database)
       /\ database # Missing
  /\ ToolAt("hash") => keychain.current.password = database
  /\ tool.pc \in {"clear_password", "clear_hash"} =>
       keychain.current = PairOf(database)
  /\ ToolAt("clear_hash") =>
       keychain.pending.password = Missing /\ keychain.pending.hash # Missing

FailedPromotionFits ==
  ToolAt("idle") /\ stopped = "rotation_local_promotion_failed" =>
    /\ open /\ Quiet
    /\ BothValid => database = keychain.pending.password

ReceiptFits ==
  tool.pc \in Promoting \cup {"receipt"} /\ ~tool.hand =>
    /\ database = tool.package.new /\ app.hash = database /\ job = NoJob
    /\ ToolAt("receipt") => keychain.current = PairOf(database)

RotationInv ==
  /\ RotationTypes
  /\ PasswordInForceIsHeld
  /\ OutsideRotations
  /\ RunningIsAwaited
  /\ PackageFits
  /\ JobFits
  /\ AwaitedFits
  /\ AppliedFits
  /\ PromotionFits
  /\ FailedPromotionFits
  /\ ReceiptFits

LEMMA RotationTyped ==
  ASSUME RotationInv, [RotationNext]_rotationVars
  PROVE  RotationTypes'
<1> USE HashAssumption
<1> RotationTypes
  BY DEF RotationInv
<1>1. keychain' \in [current : Pair, pending : Pair]
  <2>1. CASE UNCHANGED keychain
    BY <2>1 DEF RotationTypes
  <2> keychain \in [current : Pair, pending : Pair]
    BY DEF RotationTypes
  <2>2. ASSUME NEW h \in Hashes, Prepare(h)
        PROVE  keychain' \in [current : Pair, pending : Pair]
    BY <2>2, PairTyped DEF Prepare, Item, Pair
  <2>3. CASE Discard
    BY <2>3, PairTyped DEF Discard, Item, Pair
  <2>4. CASE PromotePassword
    <3>1. tool.kept \in Pair /\ tool.taken \in Pair
      BY <2>4, Stages, RunFields, HandFields DEF PromotePassword, ToolAt, Promoting
    <3>2. QED
      BY <2>4, <3>1 DEF PromotePassword, WriteItem, Pair
  <2>5. CASE PromoteHash
    <3>1. tool.kept \in Pair /\ tool.taken \in Pair
      BY <2>5, Stages, RunFields, HandFields DEF PromoteHash, ToolAt, Promoting
    <3>2. QED
      BY <2>5, <3>1 DEF PromoteHash, WriteItem, Pair
  <2>6. CASE RestoreCurrent
    <3>1. tool.kept \in Pair /\ tool.taken \in Pair
      BY <2>6, Stages, RunFields, HandFields DEF RestoreCurrent, ToolAt, Promoting
    <3>2. QED
      BY <2>6, <3>1 DEF RestoreCurrent, WriteItem, Pair
  <2>7. CASE ClearPassword
    BY <2>7 DEF ClearPassword, WriteItem, Item, Pair
  <2>8. CASE ClearHash
    BY <2>8 DEF ClearHash, WriteItem, Item, Pair
  <2>9. QED
    BY <2>1, <2>2, <2>3, <2>4, <2>5, <2>6, <2>7, <2>8
       DEF RotationNext, RotationRun, rotationVars, Cloud, Local, StageJob, StartJob,
           AwaitJob, ActivateApp, VerifyApp, SmokeLogin, RemoveMaterial, LoadPairs,
           WriteReceipt, CrashTool, GenerateForward, PromoteByHand, VerifyLogin,
           IssueSession, GenerateInverse, StartRun, Execute
<1>2. database' \in Item /\ login' \in Item
  <2> USE DEF RotationTypes
  <2>1. CASE UNCHANGED <<database, login>>
    BY <2>1
  <2>2. ASSUME NEW i \in DOMAIN executions, Execute(i)
        PROVE  database' \in Item /\ login' \in Item
    <3>1. executions[i] \in Execution
      OBVIOUS
    <3>2. executions[i].package.new \in Item
      BY <3>1 DEF Execution, Package
    <3>3. QED
      BY <2>2, <3>2 DEF Execute, Rotate, Cloud, Local
  <2>3. CASE VerifyLogin \/ IssueSession
    BY <2>3 DEF VerifyLogin, IssueSession, Item
  <2>4. QED
    BY <2>1, <2>2, <2>3
       DEF RotationNext, RotationRun, rotationVars, Cloud, Local, StageJob, StartJob,
           AwaitJob, ActivateApp, VerifyApp, SmokeLogin, RemoveMaterial, LoadPairs,
           WriteReceipt, CrashTool, GenerateForward, PromoteByHand, Discard, Prepare,
           GenerateInverse, StartRun, PromotePassword, PromoteHash, RestoreCurrent,
           ClearPassword, ClearHash, WriteItem
<1>3. app' \in [image : {"serving", "candidate"}, revision : Nat, hash : Item]
  <2> USE DEF RotationTypes
  <2>1. CASE UNCHANGED app
    BY <2>1
  <2>2. CASE ActivateApp
    <3>1. tool.package.new \in Item
      BY <2>2, Stages, RunFields DEF ActivateApp, ToolAt, Applying, Package
    <3>2. QED
      BY <2>2, <3>1 DEF ActivateApp
  <2>3. QED
    BY <2>1, <2>2
       DEF RotationNext, RotationRun, rotationVars, Cloud, Local, StageJob, StartJob,
           AwaitJob, VerifyApp, SmokeLogin, RemoveMaterial, LoadPairs,
           WriteReceipt, CrashTool, GenerateForward, PromoteByHand, Discard, Prepare,
           GenerateInverse, StartRun, PromotePassword, PromoteHash, RestoreCurrent,
           ClearPassword, ClearHash, WriteItem, VerifyLogin, IssueSession, Execute
<1>4. job' \in {NoJob} \cup [enabled : {TRUE}, package : Package]
  <2> USE DEF RotationTypes
  <2>1. CASE UNCHANGED job
    BY <2>1
  <2>2. CASE StageJob
    <3>1. tool.package \in Package
      BY <2>2, Stages, RunFields DEF StageJob, ToolAt, Preparing
    <3>2. [enabled |-> TRUE, package |-> tool.package]
            \in [enabled : {TRUE}, package : Package]
      BY <3>1
    <3>3. QED
      BY <2>2, <3>2 DEF StageJob
  <2>3. CASE RemoveMaterial
    BY <2>3 DEF RemoveMaterial
  <2>4. QED
    BY <2>1, <2>2, <2>3
       DEF RotationNext, RotationRun, rotationVars, Cloud, Local, StartJob,
           AwaitJob, ActivateApp, VerifyApp, SmokeLogin, LoadPairs,
           WriteReceipt, CrashTool, GenerateForward, PromoteByHand, Discard, Prepare,
           GenerateInverse, StartRun, PromotePassword, PromoteHash, RestoreCurrent,
           ClearPassword, ClearHash, WriteItem, VerifyLogin, IssueSession, Execute
<1>6. packages' \subseteq Package
  <2> USE DEF RotationTypes
  <2>1. CASE UNCHANGED packages
    BY <2>1
  <2>2. CASE GenerateForward
    BY <2>2 DEF GenerateForward, ForwardPackage, Package, Pair
  <2>3. ASSUME NEW p \in packages, GenerateInverse(p) PROVE packages' \subseteq Package
    BY <2>3 DEF GenerateInverse, InversePackage, Package
  <2>4. QED
    BY <2>1, <2>2, <2>3
       DEF RotationNext, RotationRun, rotationVars, Cloud, Local, StageJob, StartJob,
           AwaitJob, ActivateApp, VerifyApp, SmokeLogin, RemoveMaterial, LoadPairs,
           WriteReceipt, CrashTool, PromoteByHand, Discard, Prepare,
           StartRun, PromotePassword, PromoteHash, RestoreCurrent,
           ClearPassword, ClearHash, WriteItem, VerifyLogin, IssueSession, Execute
<1>5. executions' \in Seq(Execution)
  <2> USE DEF RotationTypes
  <2>1. CASE UNCHANGED executions
    BY <2>1
  <2>2. CASE StartJob
    <3>1. job.package \in Package
      <4>1. tool \in RunTool
        BY <2>2, Stages DEF StartJob, ToolAt, Preparing
      <4>2. job.package = tool.package
        BY <2>2 DEF StartJob, RotationInv, JobFits
      <4>3. QED
        BY <4>1, <4>2, RunFields
    <3>2. [package |-> job.package, result |-> "running"] \in Execution
      BY <3>1 DEF Execution
    <3>3. QED
      BY <2>2, <3>2 DEF StartJob
  <2>3. ASSUME NEW i \in DOMAIN executions, Execute(i)
        PROVE  executions' \in Seq(Execution)
    <3>1. \E r \in {"rotated", "already_rotated", "failed"} :
            executions' = [executions EXCEPT ![i].result = r]
      BY <2>3 DEF Execute, RotationResult
    <3>2. PICK r \in {"rotated", "already_rotated", "failed"} :
            executions' = [executions EXCEPT ![i] = [executions[i] EXCEPT !.result = r]]
      BY <3>1
    <3>3. [executions[i] EXCEPT !.result = r] \in Execution
      <4>1. executions[i] \in Execution
        OBVIOUS
      <4>2. QED
        BY <4>1 DEF Execution
    <3>4. QED
      BY <3>2, <3>3
  <2>4. QED
    BY <2>1, <2>2, <2>3
       DEF RotationNext, RotationRun, rotationVars, Cloud, Local, StageJob, 
           AwaitJob, ActivateApp, VerifyApp, SmokeLogin, RemoveMaterial, LoadPairs,
           WriteReceipt, CrashTool, GenerateForward, PromoteByHand, Discard, Prepare,
           GenerateInverse, StartRun, PromotePassword, PromoteHash, RestoreCurrent,
           ClearPassword, ClearHash, WriteItem, VerifyLogin, IssueSession
<1>7. tool' \in {NoTool} \cup RunTool \cup HandTool
  <2> DEFINE Typed == tool' \in {NoTool} \cup RunTool \cup HandTool
  <2> SUFFICES Typed
    OBVIOUS
  <2>1. CASE UNCHANGED tool
    BY <2>1 DEF RotationTypes
  <2>2. tool' = NoTool => Typed
    OBVIOUS
  <2>3. ASSUME tool \in RunTool,
               NEW c \in Preparing \cup Applying \cup Promoting \cup {"receipt"},
               Proceed(c)
        PROVE  Typed
    BY <2>3, RunProceeds
  <2>4. ASSUME tool \in HandTool, NEW c \in Promoting, Proceed(c)
        PROVE  Typed
    BY <2>4, HandProceeds
  <2> HIDE DEF Typed
  <2>5. CASE StageJob
    BY <2>2, <2>3, <2>5, Stages DEF Stop, StageJob, ToolAt, Preparing
  <2>6. CASE StartJob
    <3>1. tool \in RunTool
      BY <2>6, Stages DEF Stop, StartJob, ToolAt, Preparing
    <3>2. Len(executions) + 1 \in Nat
      BY DEF RotationTypes
    <3>3. ASSUME tool' = [tool EXCEPT !.pc = "await", !.exec = Len(executions) + 1]
          PROVE  tool' \in RunTool
      BY <3>1, <3>2, <3>3 DEF RunTool, Preparing
    <3>4. QED
      BY <2>2, <2>6, <3>3 DEF Stop, StartJob, Typed
  <2>7. CASE AwaitJob
    BY <2>2, <2>3, <2>7, Stages DEF Stop, AwaitJob, ToolAt, Preparing, Applying
  <2>8. CASE ActivateApp
    BY <2>2, <2>3, <2>8, Stages DEF Stop, ActivateApp, ToolAt, Applying
  <2>9. CASE VerifyApp
    BY <2>2, <2>3, <2>9, Stages DEF Stop, VerifyApp, ToolAt, Applying
  <2>10. CASE SmokeLogin
    BY <2>2, <2>3, <2>10, Stages DEF Stop, SmokeLogin, ToolAt, Applying
  <2>11. CASE RemoveMaterial
    BY <2>2, <2>3, <2>11, Stages
       DEF Stop, RemoveMaterial, AfterCleanup, ToolAt, Applying, Promoting
  <2>12. CASE LoadPairs
    <3>1. tool \in RunTool \/ tool \in HandTool
      BY <2>12, Stages DEF Stop, LoadPairs, ToolAt, Promoting
    <3>2. keychain.current \in Pair /\ keychain.pending \in Pair
      BY DEF RotationTypes
    <3>3. ASSUME tool' = [tool EXCEPT !.pc = "password", !.kept = keychain.current,
                                      !.taken = keychain.pending]
          PROVE  tool' \in RunTool \/ tool' \in HandTool
      BY <3>1, <3>2, <3>3 DEF RunTool, HandTool, Promoting
    <3>4. QED
      BY <2>2, <2>12, <3>3 DEF Stop, LoadPairs, PromotionFails, Typed
  <2>13. CASE PromotePassword
    BY <2>3, <2>4, <2>13, Stages DEF Stop, PromotePassword, WriteItem, ToolAt, Promoting
  <2>14. CASE PromoteHash
    BY <2>3, <2>4, <2>14, Stages DEF Stop, PromoteHash, WriteItem, ToolAt, Promoting
  <2>15. CASE ClearPassword
    BY <2>2, <2>3, <2>4, <2>15, Stages
       DEF Stop, ClearPassword, WriteItem, PromotionFails, ToolAt, Promoting
  <2>16. CASE ClearHash
    BY <2>2, <2>3, <2>16, Stages, HandFields
       DEF Stop, ClearHash, WriteItem, PromotionFails, ToolAt, Promoting
  <2>17. CASE PromoteByHand
    BY <2>17 DEF Stop, PromoteByHand, Typed, HandTool, RotationTypes, Promoting
  <2>18. ASSUME NEW p \in packages, StartRun(p) PROVE Typed
    <3>1. p \in Package /\ keychain.current \in Pair /\ keychain.pending \in Pair
      BY DEF RotationTypes
    <3>2. QED
      BY <2>18, <3>1 DEF Stop, StartRun, Typed, RunTool, Preparing
  <2>19. CASE RestoreCurrent \/ WriteReceipt \/ CrashTool
    BY <2>2, <2>19 DEF Stop, RestoreCurrent, PromotionFails, WriteReceipt, CrashTool
  <2>20. Typed
    BY <2>1, <2>5, <2>6, <2>7, <2>8, <2>9, <2>10, <2>11, <2>12, <2>13, <2>14, <2>15,
       <2>16, <2>17, <2>18, <2>19
       DEF RotationNext, RotationRun, rotationVars, Discard, Prepare, GenerateForward,
           GenerateInverse, VerifyLogin, IssueSession, Execute, Typed
  <2>21. QED
    BY <2>20 DEF Typed
<1>8. QED
  BY <1>1, <1>2, <1>3, <1>4, <1>5, <1>6, <1>7 DEF RotationTypes

-----------------------------------------------------------------------------
(***************************************************************************)
(* A step of the rotation                                                  *)
(***************************************************************************)

LEMMA QuietUnlessAwaited ==
  RotationInv /\ tool.pc \notin {"idle", "await"} => Quiet
BY DEF RotationInv, RotationTypes, RunningIsAwaited, Quiet, ToolAt

\* Wherever the controller stops and whatever it has not noticed in the cloud.
LEMMA RotationStops ==
  ASSUME RotationInv, RotationTypes', tool' = NoTool,
         UNCHANGED <<keychain, database, executions, open>>,
         stopped' = "rotation_local_promotion_failed" =>
           open /\ Quiet /\ (BothValid => database = keychain.pending.password)
  PROVE  RotationInv'
<1>1. tool'.pc = "idle"
  BY IdleTool
<1>2. PasswordInForceIsHeld' /\ OutsideRotations' /\ RunningIsAwaited'
  BY <1>1 DEF RotationInv, PasswordInForceIsHeld, OutsideRotations, RunningIsAwaited,
     Quiet, ToolAt
<1>3. PackageFits' /\ JobFits' /\ AwaitedFits' /\ AppliedFits' /\ ReceiptFits'
  BY <1>1 DEF PackageFits, JobFits, AwaitedFits, AppliedFits, ReceiptFits, ToolAt,
     Preparing, Applying, Promoting
<1>4. PromotionFits'
  BY <1>1 DEF PromotionFits, ToolAt, Promoting
<1>5. FailedPromotionFits'
  BY DEF FailedPromotionFits, BothValid, ValidPair, Quiet
<1>6. QED
  BY <1>2, <1>3, <1>4, <1>5 DEF RotationInv

LEMMA StageJobStep ==
  ASSUME RotationInv, RotationTypes', StageJob
  PROVE  RotationInv'
<1>1. tool \in RunTool /\ ToolAt("stage")
  BY Stages DEF RotationInv, StageJob, ToolAt, Preparing
<1>2. CASE tool' = NoTool
  <2>1. UNCHANGED <<keychain, database, executions, open>>
    BY DEF StageJob, Cloud, Local
  <2>2. stopped' # "rotation_local_promotion_failed"
    BY <1>1, <1>2, RunProceeds, IdleTool DEF StageJob, Stop, Preparing
  <2>3. QED
    BY <1>2, <2>1, <2>2, RotationStops
<1>3. CASE tool' # NoTool
  <2>1. /\ Proceed("start")
        /\ job' = [enabled |-> TRUE, package |-> tool.package]
        /\ UNCHANGED <<keychain, database, executions, open, app>>
    BY <1>3 DEF StageJob, Stop, Cloud, Local
  <2>2. /\ tool'.pc = "start" /\ tool'.package = tool.package
        /\ tool'.exec = tool.exec /\ ~tool'.hand
    BY <1>1, <2>1, RunProceeds, RunFields DEF Preparing, Applying
  <2>3. PasswordInForceIsHeld' /\ OutsideRotations'
    BY <2>1 DEF RotationInv, PasswordInForceIsHeld, OutsideRotations, Quiet
  <2>4. RunningIsAwaited'
    BY <1>1, <2>1 DEF RotationInv, RunningIsAwaited, ToolAt
  <2>5. PackageFits' /\ JobFits'
    BY <1>1, <2>1, <2>2
       DEF RotationInv, PackageFits, JobFits, ToolAt, BothValid, ValidPair, Preparing,
           Applying
  <2>6. AwaitedFits' /\ AppliedFits'
    BY <1>1, <2>1, <2>2
       DEF RotationInv, AwaitedFits, AppliedFits, ToolAt, Applying, AppReady, StageJob
  <2>7. PromotionFits' /\ FailedPromotionFits' /\ ReceiptFits'
    BY <2>2
       DEF PromotionFits, FailedPromotionFits, ReceiptFits, ToolAt, Promoting
  <2>8. QED
    BY <2>3, <2>4, <2>5, <2>6, <2>7 DEF RotationInv
<1>4. QED
  BY <1>2, <1>3

LEMMA AwaitJobStep ==
  ASSUME RotationInv, RotationTypes', AwaitJob
  PROVE  RotationInv'
<1>1. tool \in RunTool /\ ToolAt("await")
  BY Stages DEF RotationInv, AwaitJob, ToolAt, Preparing
<1>2. CASE tool' = NoTool
  <2>1. UNCHANGED <<keychain, database, executions, open>>
    BY DEF AwaitJob, Cloud, Local
  <2>2. stopped' # "rotation_local_promotion_failed"
    BY <1>1, <1>2, RunProceeds, IdleTool DEF AwaitJob, Stop, Applying
  <2>3. QED
    BY <1>2, <2>1, <2>2, RotationStops
<1>3. CASE tool' # NoTool
  <2>1. /\ Proceed("activate")
        /\ executions[tool.exec].result \in {"rotated", "already_rotated"}
        /\ UNCHANGED <<keychain, database, executions, open, app, job>>
    BY <1>3 DEF AwaitJob, Stop, Cloud, Local
  <2>2. /\ tool'.pc = "activate" /\ tool'.package = tool.package
        /\ tool'.exec = tool.exec /\ ~tool'.hand
    BY <1>1, <2>1, RunProceeds, RunFields DEF Preparing, Applying
  <2>3. PasswordInForceIsHeld' /\ OutsideRotations'
    BY <2>1 DEF RotationInv, PasswordInForceIsHeld, OutsideRotations, Quiet
  <2>4. RunningIsAwaited'
    BY <1>1, <2>1 DEF RotationInv, RunningIsAwaited, ToolAt
  <2>5. PackageFits' /\ JobFits'
    BY <1>1, <2>1, <2>2
       DEF RotationInv, PackageFits, JobFits, ToolAt, BothValid, ValidPair, Preparing,
           Applying
  <2>6. AwaitedFits' /\ AppliedFits'
    BY <1>1, <2>1, <2>2
       DEF RotationInv, AwaitedFits, AppliedFits, ToolAt, Applying, AppReady, AwaitJob
  <2>7. PromotionFits' /\ FailedPromotionFits' /\ ReceiptFits'
    BY <2>2
       DEF PromotionFits, FailedPromotionFits, ReceiptFits, ToolAt, Promoting
  <2>8. QED
    BY <2>3, <2>4, <2>5, <2>6, <2>7 DEF RotationInv
<1>4. QED
  BY <1>2, <1>3

LEMMA ActivateAppStep ==
  ASSUME RotationInv, RotationTypes', ActivateApp
  PROVE  RotationInv'
<1>1. tool \in RunTool /\ ToolAt("activate")
  BY Stages DEF RotationInv, ActivateApp, ToolAt, Applying
<1>2. CASE tool' = NoTool
  <2>1. UNCHANGED <<keychain, database, executions, open>>
    BY DEF ActivateApp, Cloud, Local
  <2>2. stopped' # "rotation_local_promotion_failed"
    BY <1>1, <1>2, RunProceeds, IdleTool DEF ActivateApp, Stop, Applying, CommittedCode
  <2>3. QED
    BY <1>2, <2>1, <2>2, RotationStops
<1>3. CASE tool' # NoTool
  <2>1. /\ Proceed("verify")
        /\ app'.hash = tool.package.new
        /\ UNCHANGED <<keychain, database, executions, open, job>>
    BY <1>3 DEF ActivateApp, Stop, Cloud, Local
  <2>2. /\ tool'.pc = "verify" /\ tool'.package = tool.package
        /\ tool'.exec = tool.exec /\ ~tool'.hand
    BY <1>1, <2>1, RunProceeds, RunFields DEF Preparing, Applying
  <2>3. PasswordInForceIsHeld' /\ OutsideRotations'
    BY <2>1 DEF RotationInv, PasswordInForceIsHeld, OutsideRotations, Quiet
  <2>4. RunningIsAwaited'
    BY <1>1, <2>1 DEF RotationInv, RunningIsAwaited, ToolAt
  <2>5. PackageFits' /\ JobFits'
    BY <1>1, <2>1, <2>2
       DEF RotationInv, PackageFits, JobFits, ToolAt, BothValid, ValidPair, Preparing,
           Applying
  <2>6. AwaitedFits' /\ AppliedFits'
    BY <1>1, <2>1, <2>2
       DEF RotationInv, AwaitedFits, AppliedFits, ToolAt, Applying, AppReady, ActivateApp
  <2>7. PromotionFits' /\ FailedPromotionFits' /\ ReceiptFits'
    BY <2>2
       DEF PromotionFits, FailedPromotionFits, ReceiptFits, ToolAt, Promoting
  <2>8. QED
    BY <2>3, <2>4, <2>5, <2>6, <2>7 DEF RotationInv
<1>4. QED
  BY <1>2, <1>3

LEMMA VerifyAppStep ==
  ASSUME RotationInv, RotationTypes', VerifyApp
  PROVE  RotationInv'
<1>1. tool \in RunTool /\ ToolAt("verify")
  BY Stages DEF RotationInv, VerifyApp, ToolAt, Applying
<1>2. CASE tool' = NoTool
  <2>1. UNCHANGED <<keychain, database, executions, open>>
    BY DEF VerifyApp, Cloud, Local
  <2>2. stopped' # "rotation_local_promotion_failed"
    BY <1>1, <1>2, RunProceeds, IdleTool DEF VerifyApp, Stop, Applying, CommittedCode, AppReady
  <2>3. QED
    BY <1>2, <2>1, <2>2, RotationStops
<1>3. CASE tool' # NoTool
  <2>1. /\ Proceed("smoke")
        /\ UNCHANGED <<keychain, database, executions, open, app, job>>
    BY <1>3 DEF VerifyApp, Stop, Cloud, Local
  <2>2. /\ tool'.pc = "smoke" /\ tool'.package = tool.package
        /\ tool'.exec = tool.exec /\ ~tool'.hand
    BY <1>1, <2>1, RunProceeds, RunFields DEF Preparing, Applying
  <2>3. PasswordInForceIsHeld' /\ OutsideRotations'
    BY <2>1 DEF RotationInv, PasswordInForceIsHeld, OutsideRotations, Quiet
  <2>4. RunningIsAwaited'
    BY <1>1, <2>1 DEF RotationInv, RunningIsAwaited, ToolAt
  <2>5. PackageFits' /\ JobFits'
    BY <1>1, <2>1, <2>2
       DEF RotationInv, PackageFits, JobFits, ToolAt, BothValid, ValidPair, Preparing,
           Applying
  <2>6. AwaitedFits' /\ AppliedFits'
    BY <1>1, <2>1, <2>2
       DEF RotationInv, AwaitedFits, AppliedFits, ToolAt, Applying, AppReady, VerifyApp
  <2>7. PromotionFits' /\ FailedPromotionFits' /\ ReceiptFits'
    BY <2>2
       DEF PromotionFits, FailedPromotionFits, ReceiptFits, ToolAt, Promoting
  <2>8. QED
    BY <2>3, <2>4, <2>5, <2>6, <2>7 DEF RotationInv
<1>4. QED
  BY <1>2, <1>3

LEMMA SmokeLoginStep ==
  ASSUME RotationInv, RotationTypes', SmokeLogin
  PROVE  RotationInv'
<1>1. tool \in RunTool /\ ToolAt("smoke")
  BY Stages DEF RotationInv, SmokeLogin, ToolAt, Applying
<1>2. CASE tool' = NoTool
  <2>1. UNCHANGED <<keychain, database, executions, open>>
    BY DEF SmokeLogin, Cloud, Local
  <2>2. stopped' # "rotation_local_promotion_failed"
    BY <1>1, <1>2, RunProceeds, IdleTool DEF SmokeLogin, Stop, Applying, CommittedCode
  <2>3. QED
    BY <1>2, <2>1, <2>2, RotationStops
<1>3. CASE tool' # NoTool
  <2>1. /\ Proceed("cleanup")
        /\ UNCHANGED <<keychain, database, executions, open, app, job>>
    BY <1>3 DEF SmokeLogin, Stop, Cloud, Local
  <2>2. /\ tool'.pc = "cleanup" /\ tool'.package = tool.package
        /\ tool'.exec = tool.exec /\ ~tool'.hand
    BY <1>1, <2>1, RunProceeds, RunFields DEF Preparing, Applying
  <2>3. PasswordInForceIsHeld' /\ OutsideRotations'
    BY <2>1 DEF RotationInv, PasswordInForceIsHeld, OutsideRotations, Quiet
  <2>4. RunningIsAwaited'
    BY <1>1, <2>1 DEF RotationInv, RunningIsAwaited, ToolAt
  <2>5. PackageFits' /\ JobFits'
    BY <1>1, <2>1, <2>2
       DEF RotationInv, PackageFits, JobFits, ToolAt, BothValid, ValidPair, Preparing,
           Applying
  <2>6. AwaitedFits' /\ AppliedFits'
    BY <1>1, <2>1, <2>2
       DEF RotationInv, AwaitedFits, AppliedFits, ToolAt, Applying, AppReady, SmokeLogin
  <2>7. PromotionFits' /\ FailedPromotionFits' /\ ReceiptFits'
    BY <2>2
       DEF PromotionFits, FailedPromotionFits, ReceiptFits, ToolAt, Promoting
  <2>8. QED
    BY <2>3, <2>4, <2>5, <2>6, <2>7 DEF RotationInv
<1>4. QED
  BY <1>2, <1>3

LEMMA StartJobStep ==
  ASSUME RotationInv, RotationTypes', StartJob
  PROVE  RotationInv'
<1> DEFINE n == Len(executions) + 1
           begun == [package |-> job.package, result |-> "running"]
<1>1. tool \in RunTool /\ ToolAt("start") /\ executions \in Seq(Execution)
  BY Stages DEF RotationInv, RotationTypes, StartJob, ToolAt, Preparing
<1>2. /\ open' /\ UNCHANGED <<keychain, database, app>>
      /\ executions' \in {executions, Append(executions, begun)}
  BY DEF StartJob, Local
<1>3. Quiet
  BY <1>1, QuietUnlessAwaited DEF ToolAt
<1>4. begun.package = tool.package /\ BothValid
      /\ tool.package.new \in {keychain.current.password, keychain.pending.password}
  BY <1>1
     DEF RotationInv, JobFits, PackageFits, BothValid, ValidPair, ToolAt, Preparing
<1>5. \A i \in DOMAIN executions' :
        \/ i \in DOMAIN executions /\ executions'[i] = executions[i]
        \/ i = n /\ executions'[i] = begun
  BY <1>1, <1>2
<1> HIDE DEF n, begun
<1>6. \A i \in DOMAIN executions' : executions'[i].result = "running" =>
        executions'[i].package.new
          \in {keychain'.current.password, keychain'.pending.password} /\ i = n
  BY <1>2, <1>3, <1>4, <1>5 DEF Quiet
<1>7. PasswordInForceIsHeld' /\ OutsideRotations'
  BY <1>2 DEF RotationInv, PasswordInForceIsHeld, OutsideRotations
<1>8. CASE tool' = NoTool
  <2>1. tool'.pc = "idle" /\ stopped' # "rotation_local_promotion_failed"
    <3>1. [tool EXCEPT !.pc = "await", !.exec = Len(executions) + 1].pc = "await"
      BY <1>1 DEF RunTool
    <3>2. QED
      BY <1>8, <3>1, IdleTool DEF StartJob, Stop
  <2>2. RunningIsAwaited'
    BY <1>6, <2>1 DEF RunningIsAwaited, ToolAt
  <2>3. /\ PackageFits' /\ JobFits' /\ AwaitedFits' /\ AppliedFits' /\ PromotionFits'
        /\ FailedPromotionFits' /\ ReceiptFits'
    BY <2>1
       DEF PackageFits, JobFits, AwaitedFits, AppliedFits, PromotionFits,
           FailedPromotionFits, ReceiptFits, ToolAt, Preparing, Applying, Promoting
  <2>4. QED
    BY <1>7, <2>2, <2>3 DEF RotationInv
<1>9. CASE tool' # NoTool
  <2>1. /\ tool' = [tool EXCEPT !.pc = "await", !.exec = n]
        /\ executions' = Append(executions, begun)
    BY <1>9 DEF StartJob, Stop, n, begun
  <2>2. /\ tool'.pc = "await" /\ tool'.package = tool.package /\ tool'.exec = n
    BY <1>1, <2>1 DEF RunTool
  <2>3. n \in DOMAIN executions' /\ executions'[n] = begun
    BY <1>1, <2>1 DEF n
  <2>4. RunningIsAwaited'
    BY <1>6, <2>2 DEF RunningIsAwaited, ToolAt
  <2>5. PackageFits' /\ JobFits'
    BY <1>1, <1>2, <2>2
       DEF RotationInv, PackageFits, JobFits, ToolAt, BothValid, ValidPair, Preparing,
           Applying
  <2>6. AwaitedFits' /\ AppliedFits'
    BY <1>2, <1>4, <2>2, <2>3 DEF AwaitedFits, AppliedFits, ToolAt, Applying, begun
  <2>7. PromotionFits' /\ FailedPromotionFits' /\ ReceiptFits'
    BY <2>2 DEF PromotionFits, FailedPromotionFits, ReceiptFits, ToolAt, Promoting
  <2>8. QED
    BY <1>7, <2>4, <2>5, <2>6, <2>7 DEF RotationInv
<1>10. QED
  BY <1>8, <1>9

\* What every stage of the promotion, and the receipt after it, has to establish
\* where it goes on.
LEMMA PromotionGoesOn ==
  ASSUME RotationInv, RotationTypes', tool'.pc \in Promoting \cup {"receipt"}, Quiet,
         UNCHANGED <<database, executions>>,
         PasswordInForceIsHeld', OutsideRotations', PromotionFits', ReceiptFits'
  PROVE  RotationInv'
<1>1. RunningIsAwaited'
  BY DEF RunningIsAwaited, Quiet
<1>2. PackageFits' /\ JobFits' /\ AwaitedFits' /\ AppliedFits' /\ FailedPromotionFits'
  BY DEF PackageFits, JobFits, AwaitedFits, AppliedFits, FailedPromotionFits, ToolAt,
     Preparing, Applying, Promoting
<1>3. QED
  BY <1>1, <1>2 DEF RotationInv

LEMMA RemoveMaterialStep ==
  ASSUME RotationInv, RotationTypes', RemoveMaterial
  PROVE  RotationInv'
<1>1. tool \in RunTool /\ ToolAt("cleanup")
  BY Stages DEF RotationInv, RemoveMaterial, ToolAt, Applying
<1>2. CASE tool' = NoTool
  <2>1. UNCHANGED <<keychain, database, executions, open>>
        /\ stopped' # "rotation_local_promotion_failed"
    BY <1>1, <1>2, RunProceeds, IdleTool
       DEF RemoveMaterial, AfterCleanup, Local, Stop, Promoting
  <2>2. QED
    BY <1>2, <2>1, RotationStops
<1>3. CASE tool' # NoTool
  <2>1. /\ Proceed(AfterCleanup) /\ job' = NoJob
        /\ open' = (tool.package.kind = "forward")
        /\ UNCHANGED <<keychain, database, app, executions>>
    BY <1>3 DEF RemoveMaterial, Local, Stop
  <2>2. AfterCleanup \in {"load", "receipt"}
        /\ (AfterCleanup = "load" <=> tool.package.kind = "forward")
    BY DEF AfterCleanup
  <2>3. tool'.pc = AfterCleanup /\ tool'.package = tool.package /\ ~tool'.hand
    BY <1>1, <2>1, <2>2, RunProceeds, RunFields DEF Promoting
  <2>4. Quiet
    BY <1>1, QuietUnlessAwaited DEF ToolAt
  <2>5. /\ database = tool.package.new /\ app.hash = database /\ BothValid
        /\ tool.package.new = IF tool.package.kind = "forward"
                              THEN keychain.pending.hash ELSE keychain.current.hash
    BY <1>1 DEF RotationInv, AppliedFits, PackageFits, ToolAt, Applying, Preparing
  <2>6. keychain.current \in Pair /\ keychain.pending \in Pair
    BY DEF RotationInv, RotationTypes
  <2>7. PasswordInForceIsHeld' /\ OutsideRotations'
    BY <2>1, <2>4, <2>5
       DEF RotationInv, PasswordInForceIsHeld, OutsideRotations, Quiet, BothValid,
           ValidPair
  <2>8. PromotionFits'
    BY <2>1, <2>2, <2>3, <2>5
       DEF PromotionFits, BothValid, ValidPair, ToolAt, Promoting
  <2>9. ReceiptFits'
    <3>1. AfterCleanup = "receipt" => keychain.current = PairOf(database)
      BY <2>2, <2>5, <2>6, PairShape DEF BothValid, ValidPair, PairOf
    <3>2. QED
      BY <2>1, <2>2, <2>3, <2>5, <3>1 DEF ReceiptFits, ToolAt, PairOf
  <2>10. QED
    BY <2>1, <2>2, <2>3, <2>4, <2>7, <2>8, <2>9, PromotionGoesOn DEF Promoting
<1>4. QED
  BY <1>2, <1>3

LEMMA WriteReceiptStep ==
  ASSUME RotationInv, RotationTypes', WriteReceipt \/ CrashTool
  PROVE  RotationInv'
BY RotationStops DEF WriteReceipt, CrashTool, Stop, Cloud, Local

LEMMA PromotionProceeds ==
  ASSUME RotationTypes, tool.pc \in Promoting, NEW c \in Promoting, Proceed(c)
  PROVE  /\ tool'.pc = c /\ tool'.taken = tool.taken /\ tool'.hand = tool.hand
         /\ ~tool.hand => tool'.package = tool.package
BY Stages, RunProceeds, HandProceeds, HandFields

\* A promotion keeps the package, the application and the job.
LEMMA ReceiptStaysFit ==
  ASSUME RotationInv, tool.pc \in Promoting, tool'.pc \in Promoting,
         tool'.hand = tool.hand, ~tool.hand => tool'.package = tool.package,
         UNCHANGED <<database, app, job>>
  PROVE  ReceiptFits'
BY DEF RotationInv, ReceiptFits, ToolAt, Promoting

LEMMA LoadPairsStep ==
  ASSUME RotationInv, RotationTypes', LoadPairs
  PROVE  RotationInv'
<1>1. /\ tool.pc = "load" /\ RotationTypes
      /\ UNCHANGED <<keychain, database, app, job, executions, open>>
  BY DEF RotationInv, LoadPairs, ToolAt, Cloud, Local
<1>2. open /\ Quiet
  BY <1>1, QuietUnlessAwaited DEF RotationInv, PromotionFits, Promoting
<1>3. CASE BothValid
  <2>1. tool \in RunTool \/ tool \in HandTool
    BY <1>1, Stages DEF Promoting
  <2>2. tool' = [tool EXCEPT !.pc = "password", !.kept = keychain.current,
                             !.taken = keychain.pending]
    BY <1>3 DEF LoadPairs, BothValid
  <2>3. /\ tool'.pc = "password" /\ tool'.taken = keychain.pending
        /\ tool'.hand = tool.hand /\ (~tool.hand => tool'.package = tool.package)
    <3>1. CASE tool \in RunTool
      BY <2>2, <3>1 DEF RunTool
    <3>2. CASE tool \in HandTool
      <4>1. /\ tool'.pc = "password" /\ tool'.taken = keychain.pending
            /\ tool'.hand = tool.hand
        BY <2>2, <3>2 DEF HandTool
      <4>2. QED
        BY <3>2, <4>1, HandFields
    <3>3. QED
      BY <2>1, <3>1, <3>2
  <2>4. PasswordInForceIsHeld' /\ OutsideRotations'
    BY <1>1 DEF RotationInv, PasswordInForceIsHeld, OutsideRotations, Quiet
  <2>5. PromotionFits'
    <3>1. keychain.pending = PairOf(database) /\ database # Missing
      <4>1. /\ database = keychain.pending.password
            /\ keychain.pending.hash = keychain.pending.password
            /\ keychain.pending.password # Missing
        BY <1>1, <1>3
           DEF RotationInv, PromotionFits, ToolAt, BothValid, ValidPair
      <4>2. keychain.pending \in Pair
        BY <1>1 DEF RotationTypes
      <4>3. QED
        BY <4>1, <4>2, PairShape DEF PairOf
    <3>2. QED
      BY <1>1, <1>2, <2>3, <3>1 DEF PromotionFits, ToolAt, PairOf
  <2>6. ReceiptFits'
    BY <1>1, <2>3, ReceiptStaysFit DEF Promoting
  <2>7. QED
    BY <1>1, <1>2, <2>3, <2>4, <2>5, <2>6, PromotionGoesOn DEF Promoting
<1>4. CASE ~BothValid
  <2>1. tool' = NoTool
    BY <1>4 DEF LoadPairs, BothValid, PromotionFails, Stop
  <2>2. QED
    BY <1>1, <1>2, <1>4, <2>1, RotationStops
<1>5. QED
  BY <1>3, <1>4

\* What the promotion has taken is in force.
LEMMA TakenIsInForce ==
  ASSUME RotationInv, tool.pc \in {"password", "hash", "restore", "clear_password"}
  PROVE  /\ keychain.pending = tool.taken
         /\ tool.taken.password = database /\ tool.taken.hash = database
         /\ keychain.pending.password = database /\ database # Missing
BY DEF RotationInv, PromotionFits, PairOf

LEMMA PromoteStep ==
  ASSUME RotationInv, RotationTypes', PromotePassword \/ PromoteHash
  PROVE  RotationInv'
<1> DEFINE next == IF ToolAt("password") THEN "hash" ELSE "clear_password"
           item == IF ToolAt("password")
                   THEN [keychain EXCEPT !.current.password = tool.taken.password]
                   ELSE [keychain EXCEPT !.current.hash = tool.taken.hash]
<1>1. /\ tool.pc \in {"password", "hash"} /\ RotationTypes
      /\ keychain \in [current : Pair, pending : Pair]
      /\ UNCHANGED <<database, app, job, executions, open>>
  BY DEF RotationInv, RotationTypes, PromotePassword, PromoteHash, WriteItem, ToolAt,
     Cloud
<1>2. open /\ Quiet
  BY <1>1, QuietUnlessAwaited DEF RotationInv, PromotionFits, Promoting
<1>3. \/ keychain' = item /\ Proceed(next)
      \/ keychain' = keychain /\ Proceed("restore")
  BY DEF PromotePassword, PromoteHash, WriteItem, ToolAt
<1>4. PICK c \in {next, "restore"} :
        Proceed(c) /\ keychain' = IF c = next THEN item ELSE keychain
  BY <1>3 DEF ToolAt
<1>5. /\ tool'.pc = c /\ tool'.taken = tool.taken /\ tool'.hand = tool.hand
      /\ ~tool.hand => tool'.package = tool.package
      /\ c \in Promoting
  BY <1>1, <1>4, PromotionProceeds DEF Promoting, ToolAt
<1>6. /\ keychain'.pending = keychain.pending
      /\ c = "hash" => keychain'.current.password = database
      /\ c = "clear_password" => keychain'.current = PairOf(database)
  <2>1. keychain.current = [password |-> keychain.current.password,
                            hash |-> keychain.current.hash]
    BY <1>1, PairShape
  <2>2. keychain = [current |-> keychain.current, pending |-> keychain.pending]
    BY <1>1
  <2>3. ToolAt("hash") => keychain.current.password = database
    BY DEF RotationInv, PromotionFits
  <2>4. QED
    BY <1>1, <1>4, <2>1, <2>2, <2>3, TakenIsInForce DEF ToolAt, PairOf
<1>7. PasswordInForceIsHeld' /\ OutsideRotations'
  BY <1>1, <1>2, <1>6, TakenIsInForce DEF PasswordInForceIsHeld, OutsideRotations
<1>8. PromotionFits'
  BY <1>1, <1>2, <1>4, <1>5, <1>6, TakenIsInForce
     DEF RotationInv, PromotionFits, ToolAt, PairOf
<1>9. ReceiptFits'
  BY <1>1, <1>5, ReceiptStaysFit DEF Promoting
<1>10. QED
  BY <1>1, <1>2, <1>5, <1>7, <1>8, <1>9, PromotionGoesOn

LEMMA RestoreCurrentStep ==
  ASSUME RotationInv, RotationTypes', RestoreCurrent
  PROVE  RotationInv'
<1>1. /\ tool.pc = "restore" /\ tool' = NoTool
      /\ keychain \in [current : Pair, pending : Pair]
      /\ UNCHANGED <<database, app, job, executions, open>>
  BY DEF RotationInv, RotationTypes, RestoreCurrent, ToolAt, Cloud, PromotionFails, Stop
<1>2. open /\ Quiet
  BY <1>1, QuietUnlessAwaited DEF RotationInv, PromotionFits, Promoting
<1>3. keychain'.pending = keychain.pending
  BY <1>1 DEF RestoreCurrent
<1>4. keychain'.pending.password = database
  BY <1>1, <1>3, TakenIsInForce
<1>5. tool'.pc = "idle"
  BY <1>1, IdleTool
<1>6. PasswordInForceIsHeld' /\ OutsideRotations' /\ RunningIsAwaited'
      /\ FailedPromotionFits'
  BY <1>1, <1>2, <1>4, <1>5
     DEF PasswordInForceIsHeld, OutsideRotations, RunningIsAwaited, ToolAt, Quiet,
         FailedPromotionFits
<1>7. PackageFits' /\ JobFits' /\ AwaitedFits' /\ AppliedFits' /\ ReceiptFits'
      /\ PromotionFits'
  BY <1>5 DEF PackageFits, JobFits, AwaitedFits, AppliedFits, ReceiptFits,
     PromotionFits, ToolAt, Preparing, Applying, Promoting
<1>8. QED
  BY <1>6, <1>7 DEF RotationInv

LEMMA ClearPasswordStep ==
  ASSUME RotationInv, RotationTypes', ClearPassword
  PROVE  RotationInv'
<1>1. /\ tool.pc = "clear_password" /\ RotationTypes
      /\ keychain \in [current : Pair, pending : Pair]
      /\ UNCHANGED <<database, app, job, executions, open>>
  BY DEF RotationInv, RotationTypes, ClearPassword, WriteItem, ToolAt, Cloud
<1>2. open /\ Quiet
  BY <1>1, QuietUnlessAwaited DEF RotationInv, PromotionFits, Promoting
<1>3. keychain.current = PairOf(database)
  BY <1>1 DEF RotationInv, PromotionFits
<1>4. CASE tool' = NoTool
  <2>1. UNCHANGED keychain
    BY <1>1, <1>4, PromotionProceeds, IdleTool DEF ClearPassword, WriteItem, Promoting
  <2>2. QED
    BY <1>1, <1>2, <1>4, <2>1, TakenIsInForce, RotationStops
<1>5. CASE tool' # NoTool
  <2>1. Proceed("clear_hash")
        /\ keychain' = [keychain EXCEPT !.pending.password = Missing]
    BY <1>5 DEF ClearPassword, WriteItem, PromotionFails, Stop
  <2>2. /\ tool'.pc = "clear_hash" /\ tool'.hand = tool.hand
        /\ ~tool.hand => tool'.package = tool.package
    BY <1>1, <2>1, PromotionProceeds DEF Promoting
  <2>3. keychain'.current = keychain.current
        /\ keychain'.pending.hash = keychain.pending.hash
        /\ keychain'.pending.password = Missing
    BY <1>1, <2>1 DEF Pair
  <2>4. PasswordInForceIsHeld' /\ OutsideRotations'
    BY <1>1, <1>2, <1>3, <2>3 DEF PasswordInForceIsHeld, OutsideRotations, PairOf
  <2>5. PromotionFits'
    <3>1. keychain'.pending.hash # Missing
      BY <1>1, <2>3, TakenIsInForce
    <3>2. QED
      BY <1>1, <1>2, <1>3, <2>2, <2>3, <3>1 DEF PromotionFits, ToolAt, PairOf
  <2>6. ReceiptFits'
    BY <1>1, <2>2, ReceiptStaysFit DEF Promoting
  <2>7. QED
    BY <1>1, <1>2, <2>2, <2>4, <2>5, <2>6, PromotionGoesOn DEF Promoting
<1>6. QED
  BY <1>4, <1>5

LEMMA ClearHashStep ==
  ASSUME RotationInv, RotationTypes', ClearHash
  PROVE  RotationInv'
<1>1. /\ tool.pc = "clear_hash" /\ RotationTypes
      /\ keychain \in [current : Pair, pending : Pair]
      /\ UNCHANGED <<database, app, job, executions>>
  BY DEF RotationInv, RotationTypes, ClearHash, WriteItem, ToolAt, Cloud
<1>2. open /\ Quiet
  BY <1>1, QuietUnlessAwaited DEF RotationInv, PromotionFits, Promoting
<1>3. /\ keychain.current = PairOf(database)
      /\ keychain.pending.password = Missing /\ keychain.pending.hash # Missing
  BY <1>1 DEF RotationInv, PromotionFits, ToolAt
<1>4. \/ /\ keychain' = [keychain EXCEPT !.pending.hash = Missing]
         /\ \/ tool.hand /\ tool' = NoTool /\ stopped' = "finished"
            \/ ~tool.hand /\ Proceed("receipt")
      \/ keychain' = keychain /\ tool' = NoTool
  BY DEF ClearHash, WriteItem, PromotionFails, Stop
<1>5. /\ keychain'.current = keychain.current
      /\ keychain' = keychain => open' = open
  BY <1>1, <1>2, <1>3, <1>4 DEF ClearHash
<1>6. PasswordInForceIsHeld' /\ OutsideRotations'
  BY <1>1, <1>2, <1>3, <1>5
     DEF PasswordInForceIsHeld, OutsideRotations, PairOf, Quiet
<1>7. CASE tool' = NoTool
  <2>1. tool'.pc = "idle"
    BY <1>7, IdleTool
  <2>2. RunningIsAwaited'
    BY <1>1, <1>2 DEF RunningIsAwaited, Quiet
  <2>3. FailedPromotionFits'
    <3>1. CASE keychain' = keychain
      BY <1>1, <1>2, <1>3, <1>5, <3>1
         DEF FailedPromotionFits, BothValid, ValidPair, PairOf, Quiet
    <3>2. CASE stopped' = "finished"
      BY <3>2 DEF FailedPromotionFits
    <3>3. QED
      BY <1>1, <1>4, <1>7, <3>1, <3>2, Stages, RunProceeds, HandFields, IdleTool DEF Promoting
  <2>4. PackageFits' /\ JobFits' /\ AwaitedFits' /\ AppliedFits' /\ ReceiptFits'
        /\ PromotionFits'
    BY <2>1 DEF PackageFits, JobFits, AwaitedFits, AppliedFits, ReceiptFits,
       PromotionFits, ToolAt, Preparing, Applying, Promoting
  <2>5. QED
    BY <1>6, <2>2, <2>3, <2>4 DEF RotationInv
<1>8. CASE tool' # NoTool
  <2>1. ~tool.hand /\ Proceed("receipt")
    BY <1>4, <1>8
  <2>2. tool'.pc = "receipt" /\ tool'.package = tool.package
    BY <1>1, <2>1, Stages, RunProceeds, HandFields DEF Promoting
  <2>3. PromotionFits'
    BY <2>2 DEF PromotionFits, ToolAt, Promoting
  <2>4. ReceiptFits'
    BY <1>1, <1>3, <1>5, <2>1, <2>2
       DEF RotationInv, ReceiptFits, ToolAt, Promoting, PairOf
  <2>5. QED
    BY <1>1, <1>2, <1>6, <2>2, <2>3, <2>4, PromotionGoesOn
<1>9. QED
  BY <1>7, <1>8

\* Between rotations the pending pair is the operator's to change.
LEMMA PendingStep ==
  ASSUME RotationInv, RotationTypes', Discard \/ \E h \in Hashes : Prepare(h)
  PROVE  RotationInv'
<1>1. /\ tool.pc = "idle" /\ ~open /\ Quiet
      /\ keychain \in [current : Pair, pending : Pair]
      /\ UNCHANGED <<database, app, job, executions, open, tool, stopped>>
  BY DEF RotationInv, RotationTypes, Discard, Prepare, ToolAt, Cloud
<1>2. keychain'.current = keychain.current
  <2>1. CASE Discard
    BY <1>1, <2>1 DEF Discard
  <2>2. ASSUME NEW h \in Hashes, Prepare(h) PROVE keychain'.current = keychain.current
    BY <1>1, <2>2 DEF Prepare
  <2>3. QED
    BY <2>1, <2>2
<1>3. PasswordInForceIsHeld' /\ OutsideRotations' /\ RunningIsAwaited'
  BY <1>1, <1>2
     DEF RotationInv, PasswordInForceIsHeld, OutsideRotations, RunningIsAwaited, Quiet
<1>4. FailedPromotionFits'
  BY <1>1 DEF RotationInv, FailedPromotionFits, ToolAt
<1>5. PackageFits' /\ JobFits' /\ AwaitedFits' /\ AppliedFits' /\ ReceiptFits'
      /\ PromotionFits'
  BY <1>1 DEF PackageFits, JobFits, AwaitedFits, AppliedFits, ReceiptFits,
     PromotionFits, ToolAt, Preparing, Applying, Promoting
<1>6. QED
  BY <1>3, <1>4, <1>5 DEF RotationInv

\* Packages and logins are no part of the invariant.
LEMMA OtherStep ==
  ASSUME RotationInv, RotationTypes',
         UNCHANGED <<keychain, database, app, job, executions, tool, stopped, open>>
  PROVE  RotationInv'
<1>1. PasswordInForceIsHeld' /\ OutsideRotations' /\ RunningIsAwaited'
  BY DEF RotationInv, PasswordInForceIsHeld, OutsideRotations, RunningIsAwaited, Quiet,
     ToolAt
<1>2. PackageFits' /\ JobFits' /\ AwaitedFits' /\ AppliedFits'
  BY DEF RotationInv, PackageFits, JobFits, AwaitedFits, AppliedFits, ToolAt,
     BothValid, ValidPair
<1>3. PromotionFits' /\ FailedPromotionFits' /\ ReceiptFits'
  BY DEF RotationInv, PromotionFits, FailedPromotionFits, ReceiptFits, ToolAt,
     BothValid, ValidPair, Quiet, PairOf, NoJob
<1>4. QED
  BY <1>1, <1>2, <1>3 DEF RotationInv

LEMMA PromoteByHandStep ==
  ASSUME RotationInv, RotationTypes', PromoteByHand
  PROVE  RotationInv'
<1>1. /\ ToolAt("idle") /\ stopped = "rotation_local_promotion_failed" /\ Quiet
      /\ tool'.pc = "load" /\ tool'.hand
      /\ UNCHANGED <<keychain, database, app, job, executions, open>>
  BY DEF PromoteByHand, Cloud, Local
<1>2. open /\ (BothValid => database = keychain.pending.password)
  BY <1>1 DEF RotationInv, FailedPromotionFits
<1>3. PasswordInForceIsHeld' /\ OutsideRotations'
  BY <1>1 DEF RotationInv, PasswordInForceIsHeld, OutsideRotations, Quiet
<1>4. PromotionFits' /\ ReceiptFits'
  BY <1>1, <1>2
     DEF PromotionFits, ReceiptFits, ToolAt, BothValid, ValidPair, Promoting
<1>5. QED
  BY <1>1, <1>3, <1>4, PromotionGoesOn DEF Promoting

LEMMA StartRunStep ==
  ASSUME RotationInv, RotationTypes', NEW p \in packages, StartRun(p)
  PROVE  RotationInv'
<1>1. /\ ToolAt("idle") /\ Quiet /\ tool'.pc = "stage" /\ tool'.package = p
      /\ UNCHANGED <<keychain, database, app, job, executions, open>>
  BY DEF StartRun, Cloud, Local
<1>2. /\ BothValid
      /\ p.new = IF p.kind = "forward" THEN keychain.pending.hash
                 ELSE keychain.current.hash
  <2>1. p.kind \in {"forward", "inverse"}
    BY DEF RotationInv, RotationTypes, Package
  <2>2. CASE p.kind = "forward"
    BY <2>2 DEF StartRun, ForwardAccepted, DistinctPairs, ForwardPackage, BothValid
  <2>3. CASE p.kind = "inverse"
    BY <2>3 DEF StartRun, InverseAccepted, DistinctPairs, BothValid
  <2>4. QED
    BY <2>1, <2>2, <2>3
<1>3. PasswordInForceIsHeld' /\ OutsideRotations' /\ RunningIsAwaited'
  BY <1>1
     DEF RotationInv, PasswordInForceIsHeld, OutsideRotations, RunningIsAwaited, Quiet
<1>4. PackageFits'
  BY <1>1, <1>2 DEF PackageFits, BothValid, ValidPair
<1>5. JobFits' /\ AwaitedFits' /\ AppliedFits' /\ PromotionFits' /\ FailedPromotionFits'
      /\ ReceiptFits'
  BY <1>1 DEF JobFits, AwaitedFits, AppliedFits, PromotionFits, FailedPromotionFits,
     ReceiptFits, ToolAt, Applying, Promoting
<1>6. QED
  BY <1>3, <1>4, <1>5 DEF RotationInv

LEMMA ExecuteStep ==
  ASSUME RotationInv, RotationTypes', NEW i \in DOMAIN executions, Execute(i)
  PROVE  RotationInv'
<1> DEFINE p == executions[i].package
<1>1. /\ executions[i].result = "running"
      /\ UNCHANGED <<keychain, app, job, tool, stopped, open>>
      /\ executions \in Seq(Execution)
  BY DEF RotationInv, RotationTypes, Execute, Local
<1>2. PICK r \in {"rotated", "already_rotated", "failed"} :
        /\ executions' = [executions EXCEPT ![i].result = r]
        /\ database' \in {database, p.new}
        /\ r \in {"rotated", "already_rotated"} => database' = p.new
  BY DEF Execute, Rotate, RotationResult
<1>3. /\ DOMAIN executions' = DOMAIN executions
      /\ executions'[i].result = r /\ executions'[i].package = p
      /\ \A j \in DOMAIN executions \ {i} : executions'[j] = executions[j]
  <2>1. executions[i] \in Execution
    BY <1>1
  <2>2. executions' = [executions EXCEPT ![i] = [executions[i] EXCEPT !.result = r]]
    BY <1>2
  <2>3. [executions[i] EXCEPT !.result = r].result = r
        /\ [executions[i] EXCEPT !.result = r].package = p
    BY <2>1 DEF Execution
  <2>4. QED
    BY <1>1, <2>2, <2>3
<1>4. /\ p.new \in {keychain.current.password, keychain.pending.password}
      /\ \/ ToolAt("idle")
         \/ ToolAt("await") /\ i = tool.exec
      /\ ~Quiet
  BY <1>1 DEF RotationInv, RunningIsAwaited, Quiet
<1> HIDE DEF p
<1>5. PasswordInForceIsHeld' /\ OutsideRotations'
  BY <1>1, <1>2, <1>4 DEF RotationInv, PasswordInForceIsHeld, OutsideRotations
<1>6. RunningIsAwaited'
  BY <1>1, <1>2, <1>3, <1>4 DEF RotationInv, RunningIsAwaited, ToolAt
<1>7. PackageFits' /\ JobFits'
  BY <1>1 DEF RotationInv, PackageFits, JobFits, ToolAt, BothValid, ValidPair
<1>8. AwaitedFits'
  BY <1>1, <1>2, <1>3, <1>4 DEF RotationInv, AwaitedFits, ToolAt, p
<1>9. AppliedFits' /\ PromotionFits' /\ ReceiptFits'
  BY <1>1, <1>4
     DEF AppliedFits, PromotionFits, ReceiptFits, ToolAt, Applying, Promoting
<1>10. FailedPromotionFits'
  BY <1>1, <1>4 DEF RotationInv, FailedPromotionFits, ToolAt
<1>11. QED
  BY <1>5, <1>6, <1>7, <1>8, <1>9, <1>10 DEF RotationInv

LEMMA RotationStarts == RotationInit => RotationInv
<1> SUFFICES ASSUME RotationInit PROVE RotationInv
  OBVIOUS
<1>1. FirstHash \in Item /\ Missing \in Item /\ NoTool.pc = "idle"
  BY HashAssumption, IdleTool DEF Item
<1>2. RotationTypes
  <2>1. /\ keychain \in [current : Pair, pending : Pair]
        /\ database \in Item /\ login \in Item
    BY <1>1, PairTyped DEF RotationInit
  <2>2. app \in [image : {"serving", "candidate"}, revision : Nat, hash : Item]
    BY <1>1 DEF RotationInit
  <2>3. /\ job \in {NoJob} \cup [enabled : {TRUE}, package : Package]
        /\ executions \in Seq(Execution) /\ packages \subseteq Package
        /\ tool \in {NoTool} \cup RunTool \cup HandTool
    BY DEF RotationInit
  <2>4. QED
    BY <2>1, <2>2, <2>3 DEF RotationTypes
<1>3. PasswordInForceIsHeld /\ OutsideRotations /\ RunningIsAwaited
  BY DEF RotationInit, PasswordInForceIsHeld, OutsideRotations, RunningIsAwaited,
     Quiet, PairOf
<1>4. /\ PackageFits /\ JobFits /\ AwaitedFits /\ AppliedFits /\ ReceiptFits
      /\ PromotionFits /\ FailedPromotionFits
  BY <1>1 DEF RotationInit, PackageFits, JobFits, AwaitedFits, AppliedFits, ReceiptFits,
     PromotionFits, FailedPromotionFits, ToolAt, Preparing, Applying, Promoting
<1>5. QED
  BY <1>2, <1>3, <1>4 DEF RotationInv

LEMMA RotationStep ==
  ASSUME RotationInv, [RotationNext]_rotationVars
  PROVE  RotationInv'
<1> RotationTypes'
  BY RotationTyped
<1>1. CASE StageJob \/ StartJob \/ AwaitJob
  BY <1>1, StageJobStep, StartJobStep, AwaitJobStep
<1>2. CASE ActivateApp \/ VerifyApp \/ SmokeLogin \/ RemoveMaterial
  BY <1>2, ActivateAppStep, VerifyAppStep, SmokeLoginStep, RemoveMaterialStep
<1>3. CASE LoadPairs \/ PromotePassword \/ PromoteHash \/ RestoreCurrent
  BY <1>3, LoadPairsStep, PromoteStep, RestoreCurrentStep
<1>4. CASE ClearPassword \/ ClearHash \/ WriteReceipt \/ CrashTool
  BY <1>4, ClearPasswordStep, ClearHashStep, WriteReceiptStep
<1>5. CASE Discard \/ \E h \in Hashes : Prepare(h)
  BY <1>5, PendingStep
<1>6. CASE GenerateForward \/ \E p \in packages : GenerateInverse(p)
  BY <1>6, OtherStep DEF GenerateForward, GenerateInverse, Cloud
<1>7. CASE VerifyLogin \/ IssueSession
  BY <1>7, OtherStep DEF VerifyLogin, IssueSession, Local
<1>8. CASE PromoteByHand
  BY <1>8, PromoteByHandStep
<1>9. ASSUME NEW p \in packages, StartRun(p) PROVE RotationInv'
  BY <1>9, StartRunStep
<1>10. ASSUME NEW i \in DOMAIN executions, Execute(i) PROVE RotationInv'
  BY <1>10, ExecuteStep
<1>11. CASE UNCHANGED rotationVars
  BY <1>11, OtherStep DEF rotationVars
<1>12. QED
  BY <1>1, <1>2, <1>3, <1>4, <1>5, <1>6, <1>7, <1>8, <1>9, <1>10, <1>11
     DEF RotationNext, RotationRun

THEOREM RotationInvariant == RotationSpec => []RotationInv
BY RotationStarts, RotationStep, PTL DEF RotationSpec

\* The operator is never locked out: wherever the controller stops or dies, and
\* whatever the cloud did after it stopped listening, the password in force is in the
\* keychain, current or pending.
THEOREM OperatorIsNeverLockedOut == RotationSpec => []PasswordInForceIsHeld
BY RotationInvariant, PTL DEF RotationInv

\* What a receipt says is so when it is written: the package's password is in force,
\* served and the current one, and the job holds no material of it any more.
THEOREM ReceiptsAreTrue == RotationSpec => ReceiptIsTrue
<1> DEFINE Written ==
      \A p \in rotated' \ rotated :
        /\ database = p.new /\ app.hash = p.new
        /\ keychain.current = PairOf(p.new)
        /\ job = NoJob
<1>1. ASSUME RotationInv, [RotationNext]_rotationVars PROVE Written
  <2>1. CASE UNCHANGED rotated
    BY <2>1
  <2>2. CASE WriteReceipt
    <3>1. tool.pc = "receipt" /\ tool \in RunTool
      BY <1>1, <2>2, Stages DEF RotationInv, WriteReceipt, ToolAt
    <3>2. rotated' = rotated \/ rotated' = rotated \cup {tool.package}
      BY <2>2 DEF WriteReceipt
    <3>3. /\ database = tool.package.new /\ app.hash = database /\ job = NoJob
          /\ keychain.current = PairOf(database)
      BY <1>1, <3>1, RunFields DEF RotationInv, ReceiptFits, ToolAt
    <3>4. QED
      BY <3>2, <3>3
  <2>3. QED
    BY <1>1, <2>1, <2>2
       DEF RotationNext, RotationRun, rotationVars, Cloud, Local, StageJob, StartJob,
           AwaitJob, ActivateApp, VerifyApp, SmokeLogin, RemoveMaterial, LoadPairs,
           CrashTool, PromoteByHand, Discard, Prepare, GenerateForward,
           GenerateInverse, StartRun, PromotePassword, PromoteHash, RestoreCurrent,
           ClearPassword, ClearHash, WriteItem, VerifyLogin, IssueSession, Execute
<1>2. RotationInv /\ [RotationNext]_rotationVars => [Written]_rotationVars
  BY <1>1
<1>3. QED
  BY <1>2, RotationInvariant, PTL DEF RotationSpec, ReceiptIsTrue

-----------------------------------------------------------------------------
(***************************************************************************)
(* The enablement: what holds at each call of the plan                     *)
(***************************************************************************)

Labels ==
  {Plan[i][2] : i \in 1..23} \cup {"rollback", "abort", "r9-disable"}

RunnerFields ==
  {"pc", "step", "known", "before", "attempted", "finalized", "broken", "paid",
   "result"}

EnablementTypes ==
  /\ revision \in [latest : Labels, ready : Labels]
  /\ DOMAIN runner = RunnerFields
  /\ runner.step \in 1..23
  /\ runner.attempted \in BOOLEAN
  /\ DOMAIN recovery = {"pc", "receipt"}

Serving(label) == revision.latest = label /\ revision.ready = label

\* The flag of the real key's write is set from its call on, and never before.
PlanFits ==
  /\ RunnerAt("idle") => runner.step = 1
  /\ runner.pc \in {"idle", "plan"} =>
       /\ runner.attempted <=> runner.step >= 19
       /\ runner.step >= 19 => secret = "real"
       /\ runner.step >= 21 => Serving("ai-on")
       /\ runner.step >= 23 => runner.paid = 13 /\ observed

KeyFits == ~runner.attempted => secret # "real"

AbortFits ==
  /\ runner.pc \in {"abort_patch", "abort_reconcile"} => ~runner.broken
  /\ RunnerAt("abort_write") /\ ~runner.broken => Serving("abort")

FailureFits ==
  runner.pc \in {"receipt", "ended"} /\ runner.result = "failed" =>
    /\ secret # "real"
    /\ runner.attempted => Serving("abort")

SuccessFits ==
  runner.result = "completed" =>
    /\ RunnerAt("ended")
    /\ Serving("ai-on") /\ secret = "real"
    /\ runner.paid = 13 /\ observed /\ receipt = "completed"

\* The recovery begins after a run that left the budget rehearsal on, so it is never
\* what a run that succeeded, or was aborted, is followed by.
RecoveryFits ==
  /\ ~RecoveryAt("idle") =>
       /\ runner.pc \in {"ended", "dead"}
       /\ revision.latest \in {"budget", "r9-disable"}
  /\ recovery.receipt = "completed" =>
       RecoveryAt("ended") /\ Serving("r9-disable")

EnablementInv ==
  /\ EnablementTypes
  /\ PlanFits
  /\ KeyFits
  /\ AbortFits
  /\ FailureFits
  /\ SuccessFits
  /\ RecoveryFits

\* What the proof needs of the plan: where the key is written, and what follows.
LEMMA PlanFacts ==
  /\ \A i \in 1..23 : Plan[i][1] = "write" <=> i \in {11, 18}
  /\ \A i \in 1..23 : Plan[i][1] = "observe" <=> i = 22
  /\ \A i \in 1..23 : Plan[i][1] = "finalize" <=> i = 23
  /\ \A i \in 1..23 : Plan[i][1] = "patch" => i \notin {18, 20, 21, 22, 23}
  /\ \A i \in 1..23 : Plan[i][1] = "reconcile" => i \notin {18, 22, 23}
  /\ \A i \in 1..23 : Plan[i][1] = "call" => i < 18
  /\ \A i \in 1..23 : Plan[i][1] = "browser" => i \notin {18, 20, 22, 23}
  /\ Plan[11][2] = "placeholder" /\ Plan[18][2] = "real" /\ Plan[20][2] = "ai-on"
BY DEF Plan

LEMMA LabelFacts ==
  /\ \A i \in 1..23 : Plan[i][2] \in Labels
  /\ "rollback" \in Labels /\ "abort" \in Labels /\ "r9-disable" \in Labels
BY DEF Labels

\* A call that fails leaves the plan, or goes on with the recovery of its rehearsal.
LEMMA FailedCall ==
  ASSUME NEW r, DOMAIN r = RunnerFields, r.step \in 1..23, r.pc = "plan",
         NEW u \in {Raised(r), ToHandler(r)}
  PROVE  /\ DOMAIN u = RunnerFields /\ u.step \in 1..23
         /\ u.attempted = r.attempted /\ u.result = r.result
         /\ \/ u.pc = "handler"
            \/ u.pc = "plan" /\ u.step < 18 /\ r.step < 18
<1>1. CASE u = ToHandler(r)
  BY <1>1 DEF ToHandler, RunnerFields
<1>2. CASE u = Raised(r) /\ r.step \in BudgetRehearsal
  BY <1>2 DEF Raised, RunnerFields, BudgetRehearsal
<1>3. CASE u = Raised(r) /\ r.step \in ProviderRehearsal
  BY <1>3 DEF Raised, RunnerFields, BudgetRehearsal, ProviderRehearsal
<1>4. CASE u = Raised(r) /\ r.step \notin BudgetRehearsal \cup ProviderRehearsal
  <2>1. u = ToHandler(r)
    BY <1>4 DEF Raised
  <2>2. QED
    BY <1>1, <2>1
<1>5. QED
  BY <1>1, <1>2, <1>3, <1>4

LEMMA PlanMoves ==
  ASSUME EnablementInv, EnablementTypes', RunnerAt("plan"),
         runner'.pc \in {"plan", "handler"}, runner'.result = runner.result,
         recovery' = recovery, PlanFits', KeyFits'
  PROVE  EnablementInv'
<1>1. AbortFits' /\ FailureFits'
  BY DEF AbortFits, FailureFits, RunnerAt
<1>2. SuccessFits'
  BY DEF EnablementInv, SuccessFits, RunnerAt
<1>3. RecoveryFits'
  <2>1. RecoveryAt("idle") /\ recovery.receipt # "completed"
    BY DEF EnablementInv, RecoveryFits, RunnerAt, RecoveryAt
  <2>2. QED
    BY <2>1 DEF RecoveryFits, RecoveryAt
<1>4. QED
  BY <1>1, <1>2, <1>3 DEF EnablementInv

\* Whatever a failed call did, if it did not write the real key unflagged.
LEMMA PlanFails ==
  ASSUME EnablementInv, RunnerAt("plan"), NEW r, DOMAIN r = RunnerFields,
         r.step = runner.step, r.pc = "plan", r.attempted \in BOOLEAN,
         r.result = runner.result,
         r.step < 18 => ~r.attempted,
         Go(Raised(r)) \/ Go(ToHandler(r)),
         recovery' = recovery,
         revision' \in [latest : Labels, ready : Labels],
         ~r.attempted => secret' # "real"
  PROVE  EnablementInv'
<1>1. runner' \in {Raised(r), ToHandler(r)} /\ r.step \in 1..23
  BY DEF Go, EnablementInv, EnablementTypes
<1>2. /\ DOMAIN runner' = RunnerFields /\ runner'.step \in 1..23
      /\ runner'.attempted = r.attempted /\ runner'.result = r.result
      /\ \/ runner'.pc = "handler"
         \/ runner'.pc = "plan" /\ runner'.step < 18 /\ r.step < 18
  BY <1>1, FailedCall
<1>3. EnablementTypes'
  BY <1>2 DEF EnablementInv, EnablementTypes
<1>4. PlanFits'
  BY <1>2, <1>3 DEF PlanFits, RunnerAt, EnablementTypes
<1>5. KeyFits'
  BY <1>2 DEF KeyFits
<1>6. QED
  BY <1>2, <1>3, <1>4, <1>5, PlanMoves

LEMMA AtPlan ==
  ASSUME EnablementInv, RunnerAt("plan")
  PROVE  /\ EnablementTypes /\ KeyFits /\ runner.pc = "plan"
         /\ (runner.attempted <=> runner.step >= 19)
         /\ (runner.step >= 19 => secret = "real")
         /\ (runner.step >= 21 => Serving("ai-on"))
         /\ (runner.step >= 23 => runner.paid = 13 /\ observed)
BY DEF EnablementInv, PlanFits, RunnerAt

\* The same call fails and nothing of the key has changed.
LEMMA PlanFailsPlainly ==
  ASSUME EnablementInv, RunnerAt("plan"),
         Go(Raised(runner)) \/ Go(ToHandler(runner)), recovery' = recovery,
         secret' = secret, revision' \in [latest : Labels, ready : Labels]
  PROVE  EnablementInv'
<1>1. /\ DOMAIN runner = RunnerFields /\ runner.pc = "plan"
      /\ runner.attempted \in BOOLEAN
      /\ runner.step < 18 => ~runner.attempted
      /\ ~runner.attempted => secret' # "real"
  BY AtPlan DEF EnablementTypes, KeyFits
<1>2. QED
  BY <1>1, PlanFails

\* The next call of the plan, which is not one that follows the write of the key
\* unless that is done.
LEMMA PlanGoesOn ==
  ASSUME EnablementInv, RunnerAt("plan"),
         DOMAIN runner' = RunnerFields, runner'.pc = "plan",
         runner'.step = runner.step + 1, runner'.step \in 1..23,
         runner'.attempted = runner.attempted, runner'.result = runner.result,
         runner.step # 18, recovery' = recovery, secret' = secret,
         revision' \in [latest : Labels, ready : Labels],
         runner.step >= 20 => Serving("ai-on")',
         runner.step >= 22 => runner'.paid = 13 /\ observed'
  PROVE  EnablementInv'
<1>1. EnablementTypes' /\ KeyFits'
  BY AtPlan DEF EnablementTypes, KeyFits
<1>2. PlanFits'
  BY AtPlan DEF PlanFits, EnablementTypes, RunnerAt
<1>3. QED
  BY <1>1, <1>2, PlanMoves

LEMMA RunCallStep == EnablementInv /\ RunCall => EnablementInv'
<1> SUFFICES ASSUME EnablementInv, RunCall PROVE EnablementInv'
  OBVIOUS
<1>1. /\ RunnerAt("plan") /\ Plan[runner.step][1] = "call"
      /\ UNCHANGED <<revision, secret, observed, recovery>>
  BY DEF RunCall, Doing, Hosted
<1>2. runner.step \in 1..17 /\ revision \in [latest : Labels, ready : Labels]
  BY <1>1, AtPlan, PlanFacts DEF EnablementTypes
<1>3. CASE Fails(runner)
  BY <1>1, <1>2, <1>3, PlanFailsPlainly DEF Fails
<1>4. CASE ~Fails(runner)
  <2>1. PICK k : runner' = [Advanced(runner) EXCEPT !.paid = k]
    <3>1. DOMAIN Advanced(runner) = RunnerFields
      BY <1>1, AtPlan DEF Advanced, EnablementTypes
    <3>2. runner' = [Advanced(runner) EXCEPT
                       !.paid = IF Label = "qualification"
                                THEN Advanced(runner).paid + 12 ELSE Advanced(runner).paid]
      BY <1>4 DEF RunCall, Go
    <3>3. QED
      BY <3>2
  <2>2. /\ DOMAIN runner' = RunnerFields /\ runner'.pc = "plan"
        /\ runner'.step = runner.step + 1 /\ runner'.step \in 1..23
        /\ runner'.attempted = runner.attempted /\ runner'.result = runner.result
    BY <1>1, <1>2, <2>1, AtPlan DEF EnablementTypes, Advanced, RunnerFields
  <2>3. QED
    BY <1>1, <1>2, <2>2, PlanGoesOn
<1>5. QED
  BY <1>3, <1>4

LEMMA ApplyRevisionStep == EnablementInv /\ ApplyRevision => EnablementInv'
<1> SUFFICES ASSUME EnablementInv, ApplyRevision PROVE EnablementInv'
  OBVIOUS
<1>1. /\ RunnerAt("plan") /\ Plan[runner.step][1] = "patch"
      /\ UNCHANGED <<secret, observed, recovery>>
  BY DEF ApplyRevision, Doing
<1>2. runner.step \in 1..19 /\ runner.step # 18
  BY <1>1, AtPlan, PlanFacts DEF EnablementTypes
<1>3. revision' \in [latest : Labels, ready : Labels]
  <2>1. revision \in [latest : Labels, ready : Labels] /\ Label \in Labels
    BY <1>1, <1>2, AtPlan, LabelFacts DEF EnablementTypes, Label
  <2>2. QED
    BY <2>1 DEF ApplyRevision, Patched
<1>4. CASE Fails(runner)
  BY <1>1, <1>3, <1>4, PlanFailsPlainly DEF Fails
<1>5. CASE ~Fails(runner)
  <2>1. runner' = [Advanced(runner) EXCEPT !.before = runner.known, !.known = Label]
    BY <1>5 DEF ApplyRevision, Go
  <2>2. /\ DOMAIN runner' = RunnerFields /\ runner'.pc = "plan"
        /\ runner'.step = runner.step + 1 /\ runner'.step \in 1..23
        /\ runner'.attempted = runner.attempted /\ runner'.result = runner.result
    BY <1>1, <1>2, <2>1, AtPlan DEF EnablementTypes, Advanced, RunnerFields
  <2>3. QED
    BY <1>1, <1>2, <1>3, <2>2, PlanGoesOn
<1>6. QED
  BY <1>4, <1>5

LEMMA ReconcileRevisionStep == EnablementInv /\ ReconcileRevision => EnablementInv'
<1> SUFFICES ASSUME EnablementInv, ReconcileRevision PROVE EnablementInv'
  OBVIOUS
<1>1. /\ RunnerAt("plan") /\ Plan[runner.step][1] = "reconcile"
      /\ UNCHANGED <<revision, secret, observed, recovery>>
  BY DEF ReconcileRevision, Doing, Hosted
<1>2. /\ runner.step \in 1..21 /\ runner.step # 18
      /\ revision \in [latest : Labels, ready : Labels]
  BY <1>1, AtPlan, PlanFacts DEF EnablementTypes
<1>3. CASE Go(Raised(runner)) \/ Go(ToHandler(runner))
  BY <1>1, <1>2, <1>3, PlanFailsPlainly
<1>4. CASE ~(Go(Raised(runner)) \/ Go(ToHandler(runner)))
  <2>1. Converged(Label) /\ Go(AfterReconcile(runner))
    BY <1>4 DEF ReconcileRevision, Fails
  <2>2. runner' = Advanced(runner)
    BY <1>4, <2>1 DEF AfterReconcile, Go
  <2>3. /\ DOMAIN runner' = RunnerFields /\ runner'.pc = "plan"
        /\ runner'.step = runner.step + 1 /\ runner'.step \in 1..23
        /\ runner'.attempted = runner.attempted /\ runner'.result = runner.result
    BY <1>1, <1>2, <2>2, AtPlan DEF EnablementTypes, Advanced, RunnerFields
  <2>4. runner.step >= 20 => Serving("ai-on")'
    <3>1. CASE runner.step = 20
      BY <1>1, <2>1, <3>1, PlanFacts DEF Converged, Label, Serving
    <3>2. CASE runner.step > 20
      BY <1>1, <3>2, AtPlan DEF Serving, EnablementTypes
    <3>3. QED
      BY <1>2, <3>1, <3>2
  <2>5. QED
    BY <1>1, <1>2, <2>3, <2>4, PlanGoesOn
<1>5. QED
  BY <1>3, <1>4

LEMMA BrowserGateStep == EnablementInv /\ BrowserGate => EnablementInv'
<1> SUFFICES ASSUME EnablementInv, BrowserGate PROVE EnablementInv'
  OBVIOUS
<1>1. /\ RunnerAt("plan") /\ Plan[runner.step][1] = "browser"
      /\ UNCHANGED <<revision, secret, observed, recovery>>
  BY DEF BrowserGate, Doing, Hosted
<1>2. /\ runner.step \in 1..21 /\ runner.step \notin {18, 20}
      /\ revision \in [latest : Labels, ready : Labels]
  BY <1>1, AtPlan, PlanFacts DEF EnablementTypes
<1>3. CASE Fails(runner)
  BY <1>1, <1>2, <1>3, PlanFailsPlainly DEF Fails
<1>4. CASE ~Fails(runner)
  <2>1. runner' = [Advanced(runner) EXCEPT
                     !.paid = IF Label = "ai-on" THEN Advanced(runner).paid + 1
                              ELSE Advanced(runner).paid]
    BY <1>4 DEF BrowserGate, Go
  <2>2. PICK k : runner' = [Advanced(runner) EXCEPT !.paid = k]
    BY <2>1
  <2>3. /\ DOMAIN runner' = RunnerFields /\ runner'.pc = "plan"
        /\ runner'.step = runner.step + 1 /\ runner'.step \in 1..23
        /\ runner'.attempted = runner.attempted /\ runner'.result = runner.result
    BY <1>1, <1>2, <2>2, AtPlan DEF EnablementTypes, Advanced, RunnerFields
  <2>4. runner.step >= 20 => Serving("ai-on")'
    BY <1>1, <1>2, AtPlan DEF Serving
  <2>5. QED
    BY <1>1, <1>2, <2>3, <2>4, PlanGoesOn
<1>5. QED
  BY <1>3, <1>4

LEMMA WriteSecretStep == EnablementInv /\ WriteSecret => EnablementInv'
<1> SUFFICES ASSUME EnablementInv, WriteSecret PROVE EnablementInv'
  OBVIOUS
<1> DEFINE r == [runner EXCEPT !.attempted = (Label = "real")]
<1>1. /\ RunnerAt("plan") /\ Plan[runner.step][1] = "write"
      /\ UNCHANGED <<revision, observed, recovery>>
      /\ secret' \in {secret, Label}
  BY DEF WriteSecret, Doing
<1>2. /\ runner.step \in {11, 18}
      /\ runner.step = 11 => Label = "placeholder"
      /\ runner.step = 18 => Label = "real"
      /\ ~runner.attempted /\ secret # "real"
      /\ revision \in [latest : Labels, ready : Labels]
      /\ DOMAIN runner = RunnerFields /\ runner.pc = "plan"
  BY <1>1, AtPlan, PlanFacts DEF EnablementTypes, Label, KeyFits
<1>3. /\ DOMAIN r = RunnerFields /\ r.step = runner.step /\ r.pc = "plan"
      /\ r.result = runner.result
      /\ r.attempted \in BOOLEAN /\ (r.attempted <=> Label = "real")
  BY <1>2 DEF RunnerFields
<1>4. \/ Go(Advanced(r)) /\ secret' = Label
      \/ Fails(r)
  BY DEF WriteSecret
<1> HIDE DEF r
<1>5. /\ r.step < 18 => ~r.attempted
      /\ ~r.attempted => secret' # "real"
  BY <1>1, <1>2, <1>3
<1>6. CASE Fails(r)
  BY <1>1, <1>2, <1>3, <1>5, <1>6, PlanFails DEF Fails
<1>7. CASE Go(Advanced(r)) /\ secret' = Label
  <2>1. /\ DOMAIN runner' = RunnerFields /\ runner'.pc = "plan"
        /\ runner'.step = runner.step + 1
        /\ runner'.attempted = r.attempted /\ runner'.result = runner.result
    BY <1>2, <1>3, <1>7 DEF Go, Advanced, RunnerFields
  <2>2. EnablementTypes'
    BY <1>1, <1>2, <1>3, <2>1, AtPlan DEF EnablementTypes
  <2>3. KeyFits'
    BY <1>5, <2>1 DEF KeyFits
  <2>4. PlanFits'
    <3>1. CASE runner.step = 11
      BY <1>2, <1>3, <2>1, <3>1 DEF PlanFits, RunnerAt
    <3>2. CASE runner.step = 18
      BY <1>2, <1>3, <1>7, <2>1, <3>2 DEF PlanFits, RunnerAt
    <3>3. QED
      BY <1>2, <3>1, <3>2
  <2>5. QED
    BY <1>1, <2>1, <2>2, <2>3, <2>4, PlanMoves
<1>8. QED
  BY <1>4, <1>6, <1>7

LEMMA WriteObservationStep == EnablementInv /\ WriteObservation => EnablementInv'
<1> SUFFICES ASSUME EnablementInv, WriteObservation PROVE EnablementInv'
  OBVIOUS
<1>1. /\ RunnerAt("plan") /\ Plan[runner.step][1] = "observe"
      /\ UNCHANGED <<revision, secret, recovery>>
  BY DEF WriteObservation, Doing, Hosted
<1>2. runner.step = 22 /\ revision \in [latest : Labels, ready : Labels]
  BY <1>1, AtPlan, PlanFacts DEF EnablementTypes
<1>3. CASE Fails(runner)
  BY <1>1, <1>2, <1>3, PlanFailsPlainly DEF Fails
<1>4. CASE ~Fails(runner)
  <2>1. runner.paid = 13 /\ observed' = TRUE /\ runner' = Advanced(runner)
    BY <1>4 DEF WriteObservation, Go
  <2>2. /\ DOMAIN runner' = RunnerFields /\ runner'.pc = "plan"
        /\ runner'.step = runner.step + 1 /\ runner'.step \in 1..23
        /\ runner'.attempted = runner.attempted /\ runner'.result = runner.result
        /\ runner'.paid = 13
    BY <1>1, <1>2, <2>1, AtPlan DEF EnablementTypes, Advanced, RunnerFields
  <2>3. Serving("ai-on")'
    BY <1>1, <1>2, AtPlan DEF Serving
  <2>4. QED
    BY <1>1, <1>2, <2>1, <2>2, <2>3, PlanGoesOn
<1>5. QED
  BY <1>3, <1>4

LEMMA FinalizeReceiptStep == EnablementInv /\ FinalizeReceipt => EnablementInv'
<1> SUFFICES ASSUME EnablementInv, FinalizeReceipt PROVE EnablementInv'
  OBVIOUS
<1> DEFINE r == [runner EXCEPT !.finalized = TRUE]
<1>1. /\ RunnerAt("plan") /\ Plan[runner.step][1] = "finalize"
      /\ UNCHANGED <<revision, secret, observed, recovery>>
  BY DEF FinalizeReceipt, Doing, Hosted
<1>2. /\ runner.step = 23 /\ runner.attempted /\ secret = "real" /\ Serving("ai-on")
      /\ runner.paid = 13 /\ observed
      /\ revision \in [latest : Labels, ready : Labels]
      /\ DOMAIN runner = RunnerFields /\ runner.pc = "plan"
      /\ runner.attempted \in BOOLEAN
  BY <1>1, AtPlan, PlanFacts DEF EnablementTypes
<1>3. /\ DOMAIN r = RunnerFields /\ r.step = runner.step /\ r.pc = "plan"
      /\ r.result = runner.result /\ r.paid = runner.paid
      /\ r.attempted = runner.attempted /\ r.attempted /\ r.attempted \in BOOLEAN
  BY <1>2 DEF RunnerFields
<1>4. \/ Go([r EXCEPT !.pc = "ended", !.result = "completed"]) /\ receipt' = "completed"
      \/ Fails(r)
  BY DEF FinalizeReceipt
<1> HIDE DEF r
<1>5. CASE Fails(r)
  <2>1. /\ r.step < 18 => ~r.attempted
        /\ ~r.attempted => secret' # "real"
    BY <1>2, <1>3
  <2>2. QED
    BY <1>1, <1>2, <1>3, <1>5, <2>1, PlanFails DEF Fails
<1>6. CASE Go([r EXCEPT !.pc = "ended", !.result = "completed"]) /\ receipt' = "completed"
  <2>1. /\ DOMAIN runner' = RunnerFields /\ runner'.step = runner.step
        /\ runner'.pc = "ended" /\ runner'.result = "completed"
        /\ runner'.attempted = runner.attempted /\ runner'.paid = runner.paid
    BY <1>3, <1>6 DEF Go, RunnerFields
  <2>2. EnablementTypes' /\ PlanFits' /\ KeyFits'
    BY <1>1, <1>2, <2>1, AtPlan DEF EnablementTypes, PlanFits, KeyFits, RunnerAt
  <2>3. AbortFits' /\ FailureFits'
    BY <2>1 DEF AbortFits, FailureFits, RunnerAt
  <2>4. SuccessFits'
    BY <1>1, <1>2, <1>6, <2>1 DEF SuccessFits, RunnerAt, Serving
  <2>5. RecoveryFits'
    BY <1>1, <2>1 DEF EnablementInv, RecoveryFits, RunnerAt, RecoveryAt, Serving
  <2>6. QED
    BY <2>2, <2>3, <2>4, <2>5 DEF EnablementInv
<1>7. QED
  BY <1>4, <1>5, <1>6

LEMMA ReserveStep == EnablementInv /\ Reserve => EnablementInv'
<1> SUFFICES ASSUME EnablementInv, Reserve PROVE EnablementInv'
  OBVIOUS
<1>1. /\ runner.pc = "idle" /\ runner' = [runner EXCEPT !.pc = "plan"]
      /\ DOMAIN runner = RunnerFields
      /\ UNCHANGED <<revision, secret, observed, recovery>>
  BY DEF Reserve, Go, RunnerAt, Hosted, EnablementInv, EnablementTypes
<1>2. /\ DOMAIN runner' = RunnerFields /\ runner'.pc = "plan"
      /\ runner'.step = runner.step /\ runner'.attempted = runner.attempted
      /\ runner'.result = runner.result
  BY <1>1 DEF RunnerFields
<1>3. EnablementTypes' /\ PlanFits' /\ KeyFits'
  BY <1>1, <1>2 DEF EnablementInv, EnablementTypes, PlanFits, KeyFits, RunnerAt, Serving
<1>4. AbortFits' /\ FailureFits'
  BY <1>2 DEF AbortFits, FailureFits, RunnerAt
<1>5. SuccessFits' /\ RecoveryFits'
  BY <1>1, <1>2
     DEF EnablementInv, SuccessFits, RecoveryFits, RunnerAt, RecoveryAt, Serving
<1>6. QED
  BY <1>3, <1>4, <1>5 DEF EnablementInv

\* From the failure on the runner only closes the run.
LEMMA Closing ==
  ASSUME EnablementInv, runner.pc \notin {"idle", "plan", "ended"},
         runner'.pc \notin {"idle", "plan"},
         DOMAIN runner' = RunnerFields, runner'.step = runner.step,
         runner'.attempted = runner.attempted, runner'.result # "completed",
         revision' \in [latest : Labels, ready : Labels],
         secret' \in {secret, "placeholder"}, recovery' = recovery,
         ~RecoveryAt("idle") => revision' = revision /\ runner'.pc \in {"ended", "dead"},
         AbortFits', FailureFits'
  PROVE  EnablementInv'
<1>1. EnablementTypes' /\ PlanFits' /\ KeyFits'
  BY DEF EnablementInv, EnablementTypes, PlanFits, KeyFits, RunnerAt
<1>2. SuccessFits'
  BY DEF SuccessFits
<1>3. RecoveryFits'
  BY DEF EnablementInv, RecoveryFits, RecoveryAt, Serving
<1>4. QED
  BY <1>1, <1>2, <1>3 DEF EnablementInv

LEMMA ClosingStep ==
  EnablementInv /\ (Handle \/ AbortPatch \/ AbortReconcile \/ AbortWrite
                      \/ WriteFailedReceipt) => EnablementInv'
<1> SUFFICES ASSUME EnablementInv,
                    Handle \/ AbortPatch \/ AbortReconcile \/ AbortWrite
                      \/ WriteFailedReceipt
             PROVE  EnablementInv'
  OBVIOUS
<1> USE DEF RunnerAt, Go
<1>1. /\ runner.pc \in {"handler", "abort_patch", "abort_reconcile", "abort_write",
                        "receipt"}
      /\ recovery' = recovery /\ DOMAIN runner = RunnerFields
      /\ revision \in [latest : Labels, ready : Labels]
  BY DEF Handle, AbortPatch, AbortReconcile, AbortWrite, WriteFailedReceipt,
     EnablementInv, EnablementTypes
<1>2. RecoveryAt("idle") /\ runner.result # "completed"
  BY <1>1 DEF EnablementInv, RecoveryFits, SuccessFits
<1>3. CASE Handle
  <2>1. /\ DOMAIN runner' = RunnerFields /\ runner'.step = runner.step
        /\ runner'.attempted = runner.attempted /\ ~runner'.broken
        /\ runner'.pc = IF runner.attempted THEN "abort_patch" ELSE "receipt"
        /\ runner'.result = "failed" /\ UNCHANGED <<revision, secret>>
    BY <1>1, <1>3 DEF Handle, RunnerFields, Hosted
  <2>2. AbortFits' /\ FailureFits'
    BY <2>1 DEF EnablementInv, AbortFits, FailureFits, KeyFits
  <2>3. QED
    BY <1>1, <1>2, <2>1, <2>2, Closing
<1>4. CASE AbortPatch
  <2>1. revision' \in [latest : Labels, ready : Labels] /\ secret' = secret
    BY <1>1, <1>4, LabelFacts DEF AbortPatch, Patched
  <2>2. /\ DOMAIN runner' = RunnerFields /\ runner'.step = runner.step
        /\ runner'.attempted = runner.attempted /\ runner'.result = runner.result
        /\ \/ runner'.pc = "abort_reconcile" /\ runner'.broken = runner.broken
           \/ runner'.pc = "abort_write" /\ runner'.broken
    BY <1>1, <1>4 DEF AbortPatch, RunnerFields
  <2>3. AbortFits' /\ FailureFits'
    BY <1>4, <2>2 DEF AbortPatch, EnablementInv, AbortFits, FailureFits
  <2>4. QED
    BY <1>1, <1>2, <2>1, <2>2, <2>3, Closing
<1>5. CASE AbortReconcile
  <2>1. UNCHANGED <<revision, secret>>
    BY <1>5 DEF AbortReconcile, Hosted
  <2>2. /\ DOMAIN runner' = RunnerFields /\ runner'.step = runner.step
        /\ runner'.attempted = runner.attempted /\ runner'.result = runner.result
        /\ runner'.pc = "abort_write"
        /\ runner'.broken \/ Converged("abort")
    BY <1>1, <1>5 DEF AbortReconcile, RunnerFields
  <2>3. AbortFits' /\ FailureFits'
    BY <2>1, <2>2 DEF AbortFits, FailureFits, Converged, Serving
  <2>4. QED
    BY <1>1, <1>2, <2>1, <2>2, <2>3, Closing
<1>6. CASE AbortWrite
  <2>1. /\ DOMAIN runner' = RunnerFields /\ runner'.step = runner.step
        /\ runner'.attempted = runner.attempted /\ runner'.pc = "receipt"
        /\ runner'.result \in {"failed", "emergency_disable_failed"}
        /\ runner'.result = "failed" => secret' = "placeholder" /\ ~runner.broken
    BY <1>1, <1>6 DEF AbortWrite, RunnerFields
  <2>2. revision' = revision /\ secret' \in {secret, "placeholder"}
    BY <1>6 DEF AbortWrite
  <2>3. AbortFits' /\ FailureFits'
    BY <1>6, <2>1, <2>2
       DEF AbortWrite, EnablementInv, AbortFits, FailureFits, Serving
  <2>4. QED
    BY <1>1, <1>2, <2>1, <2>2, <2>3, Closing
<1>7. CASE WriteFailedReceipt
  <2>1. /\ DOMAIN runner' = RunnerFields /\ runner'.step = runner.step
        /\ runner'.attempted = runner.attempted /\ runner'.pc = "ended"
        /\ runner'.result = runner.result
        /\ UNCHANGED <<revision, secret>>
    BY <1>1, <1>7 DEF WriteFailedReceipt, RunnerFields, Hosted
  <2>2. AbortFits' /\ FailureFits'
    BY <1>7, <2>1
       DEF WriteFailedReceipt, EnablementInv, AbortFits, FailureFits, Serving
  <2>3. QED
    BY <1>1, <1>2, <2>1, <2>2, Closing
<1>8. QED
  BY <1>3, <1>4, <1>5, <1>6, <1>7

LEMMA RunnerDiesStep == EnablementInv /\ RunnerDies => EnablementInv'
<1> SUFFICES ASSUME EnablementInv, RunnerDies PROVE EnablementInv'
  OBVIOUS
<1>1. /\ runner.pc \notin {"idle", "ended", "dead"}
      /\ runner' = [runner EXCEPT !.pc = "dead"] /\ DOMAIN runner = RunnerFields
      /\ UNCHANGED <<revision, secret, receipt, observed, recovery>>
  BY DEF RunnerDies, Go, Hosted, EnablementInv, EnablementTypes
<1>2. /\ DOMAIN runner' = RunnerFields /\ runner'.pc = "dead"
      /\ runner'.step = runner.step /\ runner'.attempted = runner.attempted
      /\ runner'.result = runner.result
  BY <1>1 DEF RunnerFields
<1>3. EnablementTypes' /\ PlanFits' /\ KeyFits' /\ AbortFits' /\ FailureFits'
  BY <1>1, <1>2 DEF EnablementInv, EnablementTypes, PlanFits, KeyFits, AbortFits,
     FailureFits, RunnerAt
<1>4. SuccessFits' /\ RecoveryFits'
  BY <1>1, <1>2
     DEF EnablementInv, SuccessFits, RecoveryFits, RunnerAt, RecoveryAt, Serving
<1>5. QED
  BY <1>3, <1>4 DEF EnablementInv

\* A run that succeeded, or was aborted, is not what the recovery begins from.
LEMMA RecoveryStep ==
  EnablementInv /\ (StartRecovery \/ PatchRecovery \/ CompleteRecovery \/ BecomeReady)
    => EnablementInv'
<1> SUFFICES ASSUME EnablementInv,
                    StartRecovery \/ PatchRecovery \/ CompleteRecovery \/ BecomeReady
             PROVE  EnablementInv'
  OBVIOUS
<1>1. /\ UNCHANGED <<runner, secret, receipt, observed>>
      /\ revision \in [latest : Labels, ready : Labels]
  BY DEF StartRecovery, PatchRecovery, CompleteRecovery, BecomeReady, Hosted,
     EnablementInv, EnablementTypes
<1>2. CASE BecomeReady
  <2>1. /\ revision.ready # revision.latest
        /\ revision'.latest = revision.latest /\ recovery' = recovery
        /\ revision' \in [latest : Labels, ready : Labels]
    BY <1>1, <1>2 DEF BecomeReady
  <2>2. \A label : ~Serving(label)
    BY <2>1 DEF Serving
  <2>3. EnablementTypes' /\ PlanFits' /\ KeyFits'
    BY <1>1, <2>1, <2>2 DEF EnablementInv, EnablementTypes, PlanFits, KeyFits, RunnerAt
  <2>4. AbortFits' /\ FailureFits' /\ SuccessFits'
    BY <1>1, <2>2 DEF EnablementInv, AbortFits, FailureFits, SuccessFits, RunnerAt
  <2>5. RecoveryFits'
    BY <1>1, <2>1, <2>2 DEF EnablementInv, RecoveryFits, RecoveryAt
  <2>6. QED
    BY <2>3, <2>4, <2>5 DEF EnablementInv
<1>3. CASE StartRecovery \/ PatchRecovery \/ CompleteRecovery
  <2>1. /\ runner.pc \in {"ended", "dead"}
        /\ revision.latest \in {"budget", "r9-disable"}
        /\ revision' = revision \/ revision' = [revision EXCEPT !.latest = "r9-disable"]
    BY <1>3 DEF StartRecovery, PatchRecovery, CompleteRecovery, Patched, Hosted,
       EnablementInv, RecoveryFits, RecoveryAt
  <2>2. /\ revision'.latest \in {"budget", "r9-disable"}
        /\ revision' \in [latest : Labels, ready : Labels]
    BY <1>1, <2>1, LabelFacts
  <2>3. runner.result # "completed"
        /\ (runner.pc = "ended" /\ runner.result = "failed" => ~runner.attempted)
    BY <2>1 DEF EnablementInv, SuccessFits, FailureFits, Serving
  <2>4. EnablementTypes' /\ PlanFits' /\ KeyFits'
    <3>1. DOMAIN recovery = {"pc", "receipt"}
      BY DEF EnablementInv, EnablementTypes
    <3>2. DOMAIN recovery' = {"pc", "receipt"}
      BY <1>3, <3>1 DEF StartRecovery, PatchRecovery, CompleteRecovery, RecoveryFails
    <3>3. QED
      BY <1>1, <2>1, <2>2, <3>2
         DEF EnablementInv, EnablementTypes, PlanFits, KeyFits, RunnerAt
  <2>5. AbortFits' /\ FailureFits' /\ SuccessFits'
    BY <1>1, <2>1, <2>3
       DEF EnablementInv, AbortFits, FailureFits, SuccessFits, RunnerAt
  <2>6. RecoveryFits'
    <3>1. CASE recovery'.receipt # "completed"
      BY <1>1, <2>1, <2>2, <3>1 DEF RecoveryFits
    <3>2. CASE recovery'.receipt = "completed"
      <4>1. CASE StartRecovery
        BY <3>2, <4>1 DEF StartRecovery
      <4>2. CASE PatchRecovery
        <5>1. recovery.receipt # "completed"
          BY <4>2 DEF PatchRecovery, EnablementInv, RecoveryFits, RecoveryAt
        <5>2. \/ recovery' = [recovery EXCEPT !.pc = "reconcile"]
              \/ recovery' \in [pc : {"ended"}, receipt : {"failed", "started"}]
          BY <4>2 DEF PatchRecovery, RecoveryFails
        <5>3. DOMAIN recovery = {"pc", "receipt"}
          BY DEF EnablementInv, EnablementTypes
        <5>4. QED
          BY <3>2, <5>1, <5>2, <5>3
      <4>3. CASE CompleteRecovery
        <5>1. Converged("r9-disable") /\ recovery'.pc = "ended" /\ revision' = revision
          BY <3>2, <4>3 DEF CompleteRecovery, RecoveryFails, Hosted
        <5>2. QED
          BY <1>1, <2>1, <2>2, <5>1 DEF RecoveryFits, RecoveryAt, Converged, Serving
      <4>4. QED
        BY <1>3, <4>1, <4>2, <4>3
    <3>3. QED
      BY <3>1, <3>2
  <2>7. QED
    BY <2>4, <2>5, <2>6 DEF EnablementInv
<1>4. QED
  BY <1>2, <1>3

LEMMA EnablementStarts == EnablementInit => EnablementInv
<1> SUFFICES ASSUME EnablementInit PROVE EnablementInv
  OBVIOUS
<1>1. EnablementTypes
  BY LabelFacts DEF EnablementInit, EnablementTypes, RunnerFields
<1>2. PlanFits /\ KeyFits /\ AbortFits /\ FailureFits
  BY DEF EnablementInit, PlanFits, KeyFits, AbortFits, FailureFits, RunnerAt
<1>3. SuccessFits /\ RecoveryFits
  BY DEF EnablementInit, SuccessFits, RecoveryFits, RecoveryAt
<1>4. QED
  BY <1>1, <1>2, <1>3 DEF EnablementInv

LEMMA EnablementStutters ==
  EnablementInv /\ UNCHANGED enablementVars => EnablementInv'
BY DEF EnablementInv, EnablementTypes, PlanFits, KeyFits, AbortFits, FailureFits,
   SuccessFits, RecoveryFits, RunnerAt, RecoveryAt, Serving, enablementVars

THEOREM EnablementInvariant == EnablementSpec => []EnablementInv
<1>1. EnablementInv /\ [EnablementNext]_enablementVars => EnablementInv'
  BY RunCallStep, ApplyRevisionStep, ReconcileRevisionStep, BrowserGateStep,
     WriteSecretStep, WriteObservationStep, FinalizeReceiptStep, ReserveStep,
     ClosingStep, RunnerDiesStep, RecoveryStep, EnablementStutters
     DEF EnablementNext
<1>2. QED
  BY <1>1, EnablementStarts, PTL DEF EnablementSpec

\* What the two procedures report of the AI is what is served, whichever call failed
\* unacknowledged: success means the enabled revision with the real key, a failure
\* after the key's write a disabled one without it.
THEOREM EnablementReportsTruly == EnablementSpec => []ReportsAreTrue
<1>1. EnablementInv => ReportsAreTrue
  <2> SUFFICES ASSUME EnablementInv PROVE ReportsAreTrue
    OBVIOUS
  <2>1. \A label : Serving(label) <=> revision = [latest |-> label, ready |-> label]
    BY DEF Serving, EnablementInv, EnablementTypes
  <2>2. SuccessIsServed
    BY <2>1 DEF EnablementInv, SuccessFits, RecoveryFits, SuccessIsServed
  <2>3. FailureIsInert
    BY <2>1 DEF EnablementInv, FailureFits, FailureIsInert, RunnerAt
  <2>4. QED
    BY <2>2, <2>3 DEF ReportsAreTrue
<1>2. QED
  BY <1>1, EnablementInvariant, PTL

-----------------------------------------------------------------------------
(***************************************************************************)
(* The release: what a controller has done when it stands at a step        *)
(***************************************************************************)

Revisions == ReleasePackages \cup {Base}

ReleaseKeys == ReleasePackages \cup {"none", "other"}

Row ==
  [by : ReleasePackages \cup {"migration", "administrator"}, key : ReleaseKeys,
   operator : BOOLEAN, demo : BOOLEAN]

StepNames == {Steps[n] : n \in 1..20}

Process ==
  [at : StepNames \cup {"idle", "ended"}, package : ReleasePackages \cup {NoPackage},
   known : Nat, marker : Revisions, failed : StepNames \cup {"none"}]

ReleaseTypes ==
  /\ hosting \in [latest : Revisions, ready : Revisions]
  /\ controls \in Seq(Row) /\ Len(controls) > 0
  /\ controller \in [Controllers -> Process]
  /\ turns \subseteq [package : ReleasePackages, actor : {"operator", "demo"},
                      key : ReleaseKeys]
  /\ DOMAIN terminal = ReleasePackages

HostingFits ==
  /\ OldRevisionIsRetired
  /\ hosting.ready # Base => hosting.latest # Base
  /\ \A c \in Controllers : StandsAt(c, "migrate") => hosting.ready # Base

PackageFitsProcess(c) ==
  /\ StandsAt(c, "idle") <=> Mine(c) = NoPackage
  /\ Mine(c) # NoPackage => terminal[Mine(c)].status # "none"
  /\ controller[c].at \notin {"report", "ended"} => controller[c].failed = "none"

\* The changes of the control that were made when the controller stands at a step.
Made ==
  [rotate |-> 0, operator_on |-> 1, operator_asks |-> 2, both_on |-> 2, demo_asks |-> 3,
   operator_off |-> 3, operator_back |-> 4, demo_off |-> 5, demo_back |-> 6,
   reject |-> 7, read_back |-> 7, scan |-> 7, report |-> 7]

Succeeding(c) == controller[c].at \in DOMAIN Made /\ controller[c].failed = "none"

\* They are consecutive rows and end with the one remembered.
ControlFits(c) ==
  Succeeding(c) =>
    LET k == controller[c].known
        m == Made[controller[c].at]
    IN  /\ m <= k /\ 1 <= k /\ k <= Len(controls)
        /\ \A j \in 1..m : controls[k - m + j] = Released(Mine(c))[j]
        /\ m = 0 => ~controls[k].operator /\ ~controls[k].demo

TurnsOf(p) == {t \in turns : t.package = p}

TurnBy(p, actor, key) == [package |-> p, actor |-> actor, key |-> key]

BothTurns(p) == {TurnBy(p, "operator", p), TurnBy(p, "demo", p)}

AfterAsking ==
  {"operator_off", "operator_back", "demo_off", "demo_back", "reject", "read_back",
   "scan", "report"}

\* The operator's turn may be bound to another administrator's key: then the control
\* is not the one remembered any more, and the next change of it is refused.
TurnsFit(c) ==
  LET p == Mine(c)
      at == controller[c].at
  IN  /\ at \in StepNames \ (AfterAsking \cup {"both_on", "demo_asks"}) =>
           TurnsOf(p) = {}
      /\ at = "both_on" =>
           \E key \in ReleaseKeys :
             /\ TurnsOf(p) = {TurnBy(p, "operator", key)}
             /\ key = p \/ controller[c].known < Len(controls)
      /\ at = "demo_asks" => TurnsOf(p) = {TurnBy(p, "operator", p)}
      /\ Succeeding(c) /\ at \in AfterAsking => TurnsOf(p) = BothTurns(p)

MarkerFits(c) ==
  StandsAt(c, "report") /\ Succeeding(c) => controller[c].marker = Mine(c)

ProcessFits(c) ==
  PackageFitsProcess(c) /\ ControlFits(c) /\ TurnsFit(c) /\ MarkerFits(c)

CompletedFits(p) ==
  terminal[p].status = "completed" =>
    /\ \E n \in DOMAIN controls :
         /\ n + 6 <= Len(controls)
         /\ \A j \in 1..7 : controls[n - 1 + j] = Released(p)[j]
    /\ TurnsOf(p) = BothTurns(p)
    /\ \E c \in Controllers :
         Mine(c) = p /\ StandsAt(c, "ended") /\ controller[c].marker = p

NoTurnsYet(p) == terminal[p].status = "none" => TurnsOf(p) = {}

ReleaseInv ==
  /\ ReleaseTypes
  /\ HostingFits
  /\ RunOnce
  /\ \A c \in Controllers : ProcessFits(c)
  /\ \A p \in ReleasePackages : CompletedFits(p) /\ NoTurnsYet(p)

LEMMA StepFacts ==
  /\ \A n \in 1..20 : \A m \in 1..20 : Steps[n] = Steps[m] => n = m
  /\ DOMAIN Steps = 1..20
BY DEF Steps

LEMMA FollowingIsNext ==
  ASSUME NEW k \in 1..19
  PROVE  Following(Steps[k]) = Steps[k + 1]
<1>1. (CHOOSE n \in DOMAIN Steps : Steps[n] = Steps[k]) = k
  BY StepFacts
<1>2. Following(Steps[k]) = Steps[1 + k]
  BY <1>1 DEF Following
<1>3. QED
  BY <1>2

LEMMA Followings ==
  /\ Following("revalidate") = "publish" /\ Following("publish") = "access"
  /\ Following("access") = "patch" /\ Following("patch") = "reconcile"
  /\ Following("reconcile") = "migrate" /\ Following("migrate") = "disabled"
  /\ Following("disabled") = "rotate" /\ Following("rotate") = "operator_on"
  /\ Following("operator_on") = "operator_asks"
  /\ Following("operator_asks") = "both_on" /\ Following("both_on") = "demo_asks"
  /\ Following("demo_asks") = "operator_off"
  /\ Following("operator_off") = "operator_back"
  /\ Following("operator_back") = "demo_off" /\ Following("demo_off") = "demo_back"
  /\ Following("demo_back") = "reject" /\ Following("reject") = "read_back"
  /\ Following("read_back") = "scan" /\ Following("scan") = "report"
<1>1. /\ Steps[1] = "revalidate" /\ Steps[2] = "publish" /\ Steps[3] = "access"
      /\ Steps[4] = "patch" /\ Steps[5] = "reconcile" /\ Steps[6] = "migrate"
      /\ Steps[7] = "disabled" /\ Steps[8] = "rotate" /\ Steps[9] = "operator_on"
      /\ Steps[10] = "operator_asks" /\ Steps[11] = "both_on"
      /\ Steps[12] = "demo_asks" /\ Steps[13] = "operator_off"
      /\ Steps[14] = "operator_back" /\ Steps[15] = "demo_off"
      /\ Steps[16] = "demo_back" /\ Steps[17] = "reject" /\ Steps[18] = "read_back"
      /\ Steps[19] = "scan" /\ Steps[20] = "report"
  BY DEF Steps
<1>2. /\ Following(Steps[1]) = Steps[2] /\ Following(Steps[2]) = Steps[3]
      /\ Following(Steps[3]) = Steps[4] /\ Following(Steps[4]) = Steps[5]
      /\ Following(Steps[5]) = Steps[6] /\ Following(Steps[6]) = Steps[7]
      /\ Following(Steps[7]) = Steps[8] /\ Following(Steps[8]) = Steps[9]
      /\ Following(Steps[9]) = Steps[10] /\ Following(Steps[10]) = Steps[11]
      /\ Following(Steps[11]) = Steps[12] /\ Following(Steps[12]) = Steps[13]
      /\ Following(Steps[13]) = Steps[14] /\ Following(Steps[14]) = Steps[15]
      /\ Following(Steps[15]) = Steps[16] /\ Following(Steps[16]) = Steps[17]
      /\ Following(Steps[17]) = Steps[18] /\ Following(Steps[18]) = Steps[19]
      /\ Following(Steps[19]) = Steps[20]
  BY FollowingIsNext
<1>3. QED
  BY <1>1, <1>2

LEMMA NamedSteps ==
  StepNames =
    {"revalidate", "publish", "access", "patch", "reconcile", "migrate", "disabled",
     "rotate", "operator_on", "operator_asks", "both_on", "demo_asks", "operator_off",
     "operator_back", "demo_off", "demo_back", "reject", "read_back", "scan", "report"}
BY DEF StepNames, Steps

LEMMA MadeFacts ==
  /\ DOMAIN Made =
       {"rotate", "operator_on", "operator_asks", "both_on", "demo_asks",
        "operator_off", "operator_back", "demo_off", "demo_back", "reject",
        "read_back", "scan", "report"}
  /\ Made["rotate"] = 0 /\ Made["operator_on"] = 1 /\ Made["operator_asks"] = 2
  /\ Made["both_on"] = 2 /\ Made["demo_asks"] = 3 /\ Made["operator_off"] = 3
  /\ Made["operator_back"] = 4 /\ Made["demo_off"] = 5 /\ Made["demo_back"] = 6
  /\ Made["reject"] = 7 /\ Made["read_back"] = 7 /\ Made["scan"] = 7
  /\ Made["report"] = 7
BY DEF Made

LEMMA ReleasedRows ==
  ASSUME NEW p
  PROVE  /\ Released(p)[1] = ControlRow(p, p, <<FALSE, FALSE>>)
         /\ Released(p)[2] = ControlRow(p, p, Channels["operator_on"])
         /\ Released(p)[3] = ControlRow(p, p, Channels["both_on"])
         /\ Released(p)[4] = ControlRow(p, p, Channels["operator_off"])
         /\ Released(p)[5] = ControlRow(p, p, Channels["operator_back"])
         /\ Released(p)[6] = ControlRow(p, p, Channels["demo_off"])
         /\ Released(p)[7] = ControlRow(p, p, Channels["demo_back"])
         /\ \A j \in 1..7 : Released(p)[j].key = p
<1> DEFINE rows == <<<<FALSE, FALSE>>, <<TRUE, FALSE>>, <<TRUE, TRUE>>, <<FALSE, TRUE>>,
                     <<TRUE, TRUE>>, <<TRUE, FALSE>>, <<TRUE, TRUE>>>>
<1>1. \A j \in 1..7 : Released(p)[j] = ControlRow(p, p, rows[j])
  BY DEF Released
<1>2. /\ rows[1] = <<FALSE, FALSE>> /\ rows[2] = Channels["operator_on"]
      /\ rows[3] = Channels["both_on"] /\ rows[4] = Channels["operator_off"]
      /\ rows[5] = Channels["operator_back"] /\ rows[6] = Channels["demo_off"]
      /\ rows[7] = Channels["demo_back"]
  BY DEF Channels
<1>3. \A j \in 1..7 : Released(p)[j].key = p
  BY <1>1 DEF ControlRow
<1> HIDE DEF rows
<1>4. /\ Released(p)[1] = ControlRow(p, p, rows[1])
      /\ Released(p)[2] = ControlRow(p, p, rows[2])
      /\ Released(p)[3] = ControlRow(p, p, rows[3])
      /\ Released(p)[4] = ControlRow(p, p, rows[4])
      /\ Released(p)[5] = ControlRow(p, p, rows[5])
      /\ Released(p)[6] = ControlRow(p, p, rows[6])
      /\ Released(p)[7] = ControlRow(p, p, rows[7])
  BY <1>1
<1>5. QED
  BY <1>2, <1>3, <1>4

LEMMA ChannelRows ==
  ASSUME NEW p \in ReleasePackages, NEW key \in ReleaseKeys, NEW s \in DOMAIN Channels
  PROVE  ControlRow(p, key, Channels[s]) \in Row
<1>1. DOMAIN Channels = {"operator_on", "both_on", "operator_off", "operator_back",
                         "demo_off", "demo_back"}
  BY DEF Channels
<1>2. /\ Channels["operator_on"] = <<TRUE, FALSE>> /\ Channels["both_on"] = <<TRUE, TRUE>>
      /\ Channels["operator_off"] = <<FALSE, TRUE>>
      /\ Channels["operator_back"] = <<TRUE, TRUE>>
      /\ Channels["demo_off"] = <<TRUE, FALSE>> /\ Channels["demo_back"] = <<TRUE, TRUE>>
  BY DEF Channels
<1>3. \A a, b \in BOOLEAN : ControlRow(p, key, <<a, b>>) \in Row
  BY DEF ControlRow, Row
<1>4. QED
  <2>1. \E a, b \in BOOLEAN : Channels[s] = <<a, b>>
    BY <1>1, <1>2
  <2>2. QED
    BY <1>3, <2>1

-----------------------------------------------------------------------------
(***************************************************************************)
(* The release: a step of one controller                                   *)
(***************************************************************************)

\* What a step does to the process that takes it.
Becomes(c, x) ==
  /\ controller' \in [Controllers -> Process]
  /\ controller'[c] = x
  /\ \A d \in Controllers \ {c} : controller'[d] = controller[d]

LEMMA Becoming ==
  ASSUME ReleaseTypes, NEW c \in Controllers, NEW x \in Process,
         controller' = [controller EXCEPT ![c] = x]
  PROVE  Becomes(c, x)
BY DEF ReleaseTypes, Becomes

LEMMA MovedFields ==
  ASSUME NEW r \in Process, r.at \in StepNames \ {"report"}
  PROVE  LET u == [r EXCEPT !.at = Following(r.at)]
         IN  /\ u \in Process /\ u.at = Following(r.at) /\ u.at \in StepNames
             /\ u.package = r.package /\ u.known = r.known
             /\ u.marker = r.marker /\ u.failed = r.failed
<1>1. Following(r.at) \in StepNames
  BY NamedSteps, Followings
<1>2. QED
  BY <1>1 DEF Process

LEMMA Passing ==
  ASSUME ReleaseTypes, NEW c \in Controllers,
         controller[c].at \in StepNames \ {"report"}, Pass(c)
  PROVE  /\ Becomes(c, Moved(c))
         /\ Moved(c).at = Following(controller[c].at) /\ Moved(c).at \in StepNames
         /\ Moved(c).package = Mine(c) /\ Moved(c).known = controller[c].known
         /\ Moved(c).marker = controller[c].marker
         /\ Moved(c).failed = controller[c].failed
<1>1. controller[c] \in Process
  BY DEF ReleaseTypes
<1>2. /\ Moved(c) \in Process
      /\ Moved(c).at = Following(controller[c].at) /\ Moved(c).at \in StepNames
      /\ Moved(c).package = Mine(c) /\ Moved(c).known = controller[c].known
      /\ Moved(c).marker = controller[c].marker
      /\ Moved(c).failed = controller[c].failed
  BY <1>1, MovedFields DEF Moved, Mine
<1>3. QED
  BY <1>2, Becoming DEF Pass

LEMMA Failing ==
  ASSUME ReleaseTypes, NEW c \in Controllers, controller[c].at \in StepNames, Fail(c)
  PROVE  \E x \in Process :
           /\ Becomes(c, x)
           /\ x.at = "report" /\ x.failed # "none" /\ x.package = Mine(c)
<1> DEFINE x == [controller[c] EXCEPT !.at = "report", !.failed = controller[c].at]
<1>1. controller[c] \in Process
  BY DEF ReleaseTypes
<1>2. x \in Process
  BY <1>1, NamedSteps DEF Process
<1>3. controller' = [controller EXCEPT ![c] = x]
  BY <1>1 DEF Fail, ReleaseTypes, Process
<1>4. x.at = "report" /\ x.failed # "none" /\ x.package = Mine(c)
  BY <1>1, NamedSteps DEF Process, Mine
<1> HIDE DEF x
<1>5. QED
  BY <1>2, <1>3, <1>4, Becoming

\* The control only grows, and only a process's own turns are added.
Grows ==
  /\ Len(controls) <= Len(controls')
  /\ \A i \in 1..Len(controls) : controls'[i] = controls[i]

OthersTurnsStay(p) == \A q \in ReleasePackages \ {p} : TurnsOf(q)' = TurnsOf(q)

\* Nothing that is known of a process, or of a receipt, is disturbed by what others do.
LEMMA OthersFit ==
  ASSUME ReleaseInv, ReleaseTypes', Grows,
         NEW d \in Controllers, controller'[d] = controller[d],
         Mine(d) # NoPackage => TurnsOf(Mine(d))' = TurnsOf(Mine(d)),
         Mine(d) # NoPackage => terminal'[Mine(d)].status # "none"
  PROVE  ProcessFits(d)'
<1>1. PackageFitsProcess(d) /\ ControlFits(d) /\ TurnsFit(d) /\ MarkerFits(d)
  BY DEF ReleaseInv, ProcessFits
<1>2. PackageFitsProcess(d)'
  BY <1>1 DEF PackageFitsProcess, StandsAt, Mine
<1>3. ControlFits(d)'
  <2> SUFFICES ASSUME Succeeding(d)'
               PROVE  LET k == controller[d].known
                          m == Made[controller[d].at]
                      IN  /\ m <= k /\ 1 <= k /\ k <= Len(controls')
                          /\ \A j \in 1..m : controls'[k - m + j] = Released(Mine(d))[j]
                          /\ m = 0 => ~controls'[k].operator /\ ~controls'[k].demo
    BY DEF ControlFits, Mine
  <2> DEFINE k == controller[d].known
             m == Made[controller[d].at]
  <2>1. Succeeding(d)
    BY DEF Succeeding
  <2>2. m \in 0..7
    BY <2>1, MadeFacts DEF Succeeding
  <2>3. k \in Nat /\ Len(controls) \in Nat /\ Len(controls') \in Nat
    BY DEF ReleaseInv, ReleaseTypes, Process
  <2>4. /\ m <= k /\ 1 <= k /\ k <= Len(controls)
        /\ \A j \in 1..m : controls[k - m + j] = Released(Mine(d))[j]
        /\ m = 0 => ~controls[k].operator /\ ~controls[k].demo
    BY <1>1, <2>1 DEF ControlFits
  <2> HIDE DEF k, m
  <2>5. k \in 1..Len(controls) /\ \A j \in 1..m : k - m + j \in 1..Len(controls)
    BY <2>2, <2>3, <2>4
  <2>6. /\ k <= Len(controls') /\ controls'[k] = controls[k]
        /\ \A j \in 1..m : controls'[k - m + j] = controls[k - m + j]
    BY <2>3, <2>5 DEF Grows
  <2>7. QED
    BY <2>4, <2>6 DEF k, m
<1>4. TurnsFit(d)'
  <2>1. CASE Mine(d) = NoPackage
    <3>1. controller'[d].at = "idle"
      BY <1>1, <2>1 DEF PackageFitsProcess, StandsAt
    <3>2. QED
      BY <3>1, NamedSteps DEF TurnsFit, AfterAsking
  <2>2. CASE Mine(d) # NoPackage
    <3>1. TurnsOf(Mine(d))' = TurnsOf(Mine(d)) /\ Mine(d)' = Mine(d)
          /\ Len(controls) <= Len(controls')
          /\ (Succeeding(d)' <=> Succeeding(d))
      BY <2>2 DEF Mine, Grows, Succeeding
    <3>2. controller[d].known \in Nat /\ Len(controls) \in Nat /\ Len(controls') \in Nat
      BY DEF ReleaseInv, ReleaseTypes, Process
    <3>3. QED
      BY <1>1, <3>1, <3>2 DEF TurnsFit
  <2>3. QED
    BY <2>1, <2>2
<1>5. MarkerFits(d)'
  BY <1>1 DEF MarkerFits, StandsAt, Succeeding, Mine
<1>6. QED
  BY <1>2, <1>3, <1>4, <1>5 DEF ProcessFits

LEMMA ReceiptFitsOn ==
  ASSUME ReleaseInv, ReleaseTypes', Grows,
         NEW p \in ReleasePackages, terminal'[p] = terminal[p],
         terminal[p].status \in {"completed", "none"} => TurnsOf(p)' = TurnsOf(p),
         \A c \in Controllers :
           StandsAt(c, "ended") => controller'[c] = controller[c]
  PROVE  CompletedFits(p)' /\ NoTurnsYet(p)'
<1>1. CompletedFits(p) /\ NoTurnsYet(p)
  BY DEF ReleaseInv
<1>2. NoTurnsYet(p)'
  BY <1>1 DEF NoTurnsYet
<1>3. ASSUME terminal[p].status = "completed"
      PROVE  /\ \E n \in DOMAIN controls' :
                  /\ n + 6 <= Len(controls')
                  /\ \A j \in 1..7 : controls'[n - 1 + j] = Released(p)[j]
             /\ TurnsOf(p)' = BothTurns(p)
             /\ \E c \in Controllers :
                  Mine(c)' = p /\ StandsAt(c, "ended")' /\ controller'[c].marker = p
  <2>1. PICK n \in DOMAIN controls :
               /\ n + 6 <= Len(controls)
               /\ \A j \in 1..7 : controls[n - 1 + j] = Released(p)[j]
    BY <1>1, <1>3 DEF CompletedFits
  <2>2. controls \in Seq(Row) /\ controls' \in Seq(Row)
    BY DEF ReleaseInv, ReleaseTypes
  <2>3. n \in DOMAIN controls' /\ n + 6 <= Len(controls')
    BY <2>1, <2>2 DEF Grows
  <2>4. \A j \in 1..7 : n - 1 + j \in 1..Len(controls)
    <3>1. n \in Nat /\ n >= 1 /\ Len(controls) \in Nat /\ n + 6 <= Len(controls)
      BY <2>1, <2>2
    <3>2. QED
      BY <3>1
  <2>5. \A j \in 1..7 : controls'[n - 1 + j] = Released(p)[j]
    BY <2>1, <2>4 DEF Grows
  <2>6. TurnsOf(p)' = BothTurns(p)
    BY <1>1, <1>3 DEF CompletedFits
  <2>7. PICK c \in Controllers :
               Mine(c) = p /\ StandsAt(c, "ended") /\ controller[c].marker = p
    BY <1>1, <1>3 DEF CompletedFits
  <2>8. Mine(c)' = p /\ StandsAt(c, "ended")' /\ controller'[c].marker = p
    BY <2>7 DEF Mine, StandsAt
  <2>9. QED
    BY <2>3, <2>5, <2>6, <2>8
<1>4. CompletedFits(p)'
  BY <1>3 DEF CompletedFits, BothTurns
<1>5. QED
  BY <1>2, <1>4

\* A process that runs takes a step: it keeps its package and writes no receipt.
LEMMA OneProcessSteps ==
  ASSUME ReleaseInv, NEW c \in Controllers, NEW x \in Process, Becomes(c, x),
         controller[c].at \in StepNames,
         x.package = Mine(c), x.at # "idle",
         terminal' = terminal, Grows,
         controls' \in Seq(Row),
         turns' \subseteq [package : ReleasePackages, actor : {"operator", "demo"},
                           key : ReleaseKeys],
         hosting' \in [latest : Revisions, ready : Revisions],
         HostingFits', OthersTurnsStay(Mine(c)),
         x.at \notin {"report", "ended"} => x.failed = "none",
         ControlFits(c)', TurnsFit(c)', MarkerFits(c)'
  PROVE  ReleaseInv'
<1>1. ReleaseTypes'
  <2>1. Len(controls') > 0
    BY DEF ReleaseInv, ReleaseTypes, Grows
  <2>2. QED
    BY <2>1 DEF ReleaseInv, ReleaseTypes, Becomes
<1>2. \A d \in Controllers : Mine(d)' = Mine(d)
  BY DEF Becomes, Mine
<1>3. RunOnce'
  BY <1>2 DEF ReleaseInv, RunOnce
<1>4. controller[c].at \notin {"idle", "ended"}
  BY NamedSteps
<1>5. Mine(c) \in ReleasePackages /\ terminal[Mine(c)].status # "none"
  <2>1. PackageFitsProcess(c) /\ controller[c] \in Process
    BY DEF ReleaseInv, ReleaseTypes, ProcessFits
  <2>2. Mine(c) # NoPackage
    BY <1>4, <2>1 DEF PackageFitsProcess, StandsAt
  <2>3. QED
    BY <2>1, <2>2 DEF PackageFitsProcess, Mine, Process
<1>6. ASSUME NEW d \in Controllers PROVE ProcessFits(d)'
  <2>1. CASE d = c
    <3>1. PackageFitsProcess(c)'
      BY <1>2, <1>5, ReleaseNames DEF PackageFitsProcess, StandsAt, Becomes
    <3>2. QED
      BY <2>1, <3>1 DEF ProcessFits
  <2>2. CASE d # c
    <3>1. PackageFitsProcess(d) /\ controller[d] \in Process
      BY DEF ReleaseInv, ReleaseTypes, ProcessFits
    <3>2. Mine(d) # NoPackage => Mine(d) \in ReleasePackages \ {Mine(c)}
      BY <2>2, <3>1 DEF ReleaseInv, RunOnce, Mine, Process
    <3>3. Mine(d) # NoPackage => TurnsOf(Mine(d))' = TurnsOf(Mine(d))
      <4> DEFINE q == Mine(d)
      <4>1. \A z \in ReleasePackages \ {Mine(c)} : TurnsOf(z)' = TurnsOf(z)
        BY DEF OthersTurnsStay
      <4>2. QED
        BY <1>2, <3>2, <4>1 DEF TurnsOf
    <3>4. Mine(d) # NoPackage => terminal'[Mine(d)].status # "none"
      BY <3>1 DEF PackageFitsProcess
    <3>5. controller'[d] = controller[d]
      BY <2>2 DEF Becomes
    <3>6. QED
      BY <1>1, <3>3, <3>4, <3>5, OthersFit
  <2>3. QED
    BY <2>1, <2>2
<1>7. ASSUME NEW p \in ReleasePackages PROVE CompletedFits(p)' /\ NoTurnsYet(p)'
  <2>1. terminal[p].status \in {"completed", "none"} => p # Mine(c)
    <3>1. ASSUME p = Mine(c) PROVE terminal[p].status # "completed"
      <4>1. ASSUME terminal[p].status = "completed" PROVE FALSE
        <5>1. PICK d \in Controllers : Mine(d) = p /\ StandsAt(d, "ended")
          BY <4>1 DEF ReleaseInv, CompletedFits
        <5>2. p # NoPackage
          BY ReleaseNames
        <5>3. d = c
          BY <3>1, <5>1, <5>2 DEF ReleaseInv, RunOnce
        <5>4. QED
          BY <1>4, <5>1, <5>3 DEF StandsAt
      <4>2. QED
        BY <4>1
    <3>2. QED
      BY <1>5, <3>1
  <2>2. terminal[p].status \in {"completed", "none"} => TurnsOf(p)' = TurnsOf(p)
    BY <2>1 DEF OthersTurnsStay
  <2>3. \A d \in Controllers : StandsAt(d, "ended") => controller'[d] = controller[d]
    BY <1>4 DEF StandsAt, Becomes
  <2>4. terminal'[p] = terminal[p]
    OBVIOUS
  <2>5. QED
    BY <1>1, <2>2, <2>3, <2>4, ReceiptFitsOn
<1>8. QED
  BY <1>1, <1>3, <1>6, <1>7 DEF ReleaseInv

LEMMA HostingStays ==
  ASSUME ReleaseInv, NEW c \in Controllers, NEW x, Becomes(c, x),
         UNCHANGED <<hosting, schema>>,
         x.at = "migrate" => hosting.ready # Base
  PROVE  HostingFits' /\ hosting' \in [latest : Revisions, ready : Revisions]
BY DEF ReleaseInv, ReleaseTypes, HostingFits, OldRevisionIsRetired, StandsAt, Becomes

\* Only the candidates are ever patched in, and never the old revision.
LEMMA HostingMoves ==
  ASSUME ReleaseInv, NEW c \in Controllers, NEW x, Becomes(c, x), x.at # "migrate",
         hosting' \in {hosting, [hosting EXCEPT !.latest = Mine(c)]},
         Mine(c) \in ReleasePackages, schema' = schema
  PROVE  HostingFits' /\ hosting' \in [latest : Revisions, ready : Revisions]
<1>1. hosting \in [latest : Revisions, ready : Revisions] /\ HostingFits
  BY DEF ReleaseInv, ReleaseTypes
<1>2. hosting' \in [latest : Revisions, ready : Revisions]
      /\ hosting'.ready = hosting.ready
      /\ hosting'.latest \in {hosting.latest, Mine(c)}
  BY <1>1 DEF Revisions
<1>3. Mine(c) # Base
  BY ReleaseNames
<1>4. QED
  BY <1>1, <1>2, <1>3
     DEF HostingFits, OldRevisionIsRetired, StandsAt, Becomes

LEMMA MineIsPackage ==
  ASSUME ReleaseInv, NEW c \in Controllers, controller[c].at \in StepNames
  PROVE  /\ Mine(c) \in ReleasePackages /\ terminal[Mine(c)].status # "none"
         /\ ProcessFits(c) /\ controller[c] \in Process
         /\ controller[c].at \notin {"report", "ended"} => controller[c].failed = "none"
<1>1. ProcessFits(c) /\ controller[c] \in Process
  BY DEF ReleaseInv, ReleaseTypes
<1>2. Mine(c) # NoPackage
  BY <1>1, NamedSteps DEF ProcessFits, PackageFitsProcess, StandsAt
<1>3. QED
  BY <1>1, <1>2 DEF ProcessFits, PackageFitsProcess, Mine, Process

LEMMA FailingStep ==
  ASSUME ReleaseInv, NEW c \in Controllers, controller[c].at \in StepNames, Fail(c),
         terminal' = terminal, Grows, controls' \in Seq(Row),
         turns' \subseteq [package : ReleasePackages, actor : {"operator", "demo"},
                           key : ReleaseKeys],
         OthersTurnsStay(Mine(c)),
         hosting' \in {hosting, [hosting EXCEPT !.latest = Mine(c)]},
         schema' = schema \/ (hosting' = hosting /\ hosting.ready # Base)
  PROVE  ReleaseInv'
<1>1. ReleaseTypes
  BY DEF ReleaseInv
<1>2. PICK x \in Process :
        /\ Becomes(c, x)
        /\ x.at = "report" /\ x.failed # "none" /\ x.package = Mine(c)
  BY <1>1, Failing
<1>3. HostingFits' /\ hosting' \in [latest : Revisions, ready : Revisions]
  <2>1. CASE schema' = schema
    BY <1>2, <2>1, MineIsPackage, HostingMoves
  <2>2. CASE hosting' = hosting /\ hosting.ready # Base
    BY <1>2, <2>2
       DEF ReleaseInv, ReleaseTypes, HostingFits, OldRevisionIsRetired, StandsAt,
           Becomes
  <2>3. QED
    BY <2>1, <2>2
<1>4. ControlFits(c)' /\ MarkerFits(c)'
  BY <1>2 DEF ControlFits, MarkerFits, Succeeding, Becomes
<1>5. TurnsFit(c)'
  BY <1>2 DEF TurnsFit, Succeeding, Becomes, AfterAsking
<1>6. QED
  BY <1>2, <1>3, <1>4, <1>5, OneProcessSteps

\* Nothing but the process has changed.
LEMMA Unmoved ==
  ASSUME ReleaseInv, UNCHANGED <<controls, turns>>
  PROVE  /\ Grows /\ controls' \in Seq(Row) /\ \A p : OthersTurnsStay(p)
         /\ turns' \subseteq [package : ReleasePackages, actor : {"operator", "demo"},
                              key : ReleaseKeys]
BY DEF ReleaseInv, ReleaseTypes, Grows, OthersTurnsStay, TurnsOf

\* The steps that prepare the candidate change nothing of the control.
LEMMA PreparingStep ==
  ASSUME ReleaseInv, NEW c \in Controllers,
         controller[c].at \in {"revalidate", "publish", "access", "patch", "reconcile",
                               "migrate"},
         Pass(c), UNCHANGED <<controls, turns, terminal>>,
         hosting' \in {hosting, [hosting EXCEPT !.latest = Mine(c)]},
         schema' = schema \/ (hosting' = hosting /\ hosting.ready # Base),
         controller[c].at = "reconcile" =>
           hosting' = hosting /\ schema' = schema /\ hosting.ready # Base
  PROVE  ReleaseInv'
<1> USE NamedSteps
<1>1. ReleaseTypes
  BY DEF ReleaseInv
<1>2. /\ Becomes(c, Moved(c)) /\ Moved(c).at = Following(controller[c].at)
      /\ Moved(c).package = Mine(c) /\ Moved(c).failed = controller[c].failed
  BY <1>1, Passing
<1>3. /\ Moved(c).at \in {"publish", "access", "patch", "reconcile", "migrate",
                          "disabled"}
      /\ Moved(c).at = "migrate" <=> controller[c].at = "reconcile"
  BY <1>2, Followings
<1>4. Moved(c) \in Process
  BY <1>2 DEF Becomes
<1>5. HostingFits' /\ hosting' \in [latest : Revisions, ready : Revisions]
  <2>1. CASE controller[c].at = "reconcile"
    BY <1>2, <2>1, HostingStays
  <2>2. CASE controller[c].at # "reconcile" /\ schema' = schema
    BY <1>2, <1>3, <2>2, MineIsPackage, HostingMoves
  <2>3. CASE controller[c].at # "reconcile" /\ schema' # schema
    BY <1>2, <1>3, <2>3
       DEF ReleaseInv, ReleaseTypes, HostingFits, OldRevisionIsRetired, StandsAt,
           Becomes
  <2>4. QED
    BY <2>1, <2>2, <2>3
<1>6. controller'[c].at = Moved(c).at /\ Mine(c)' = Mine(c)
  BY <1>2 DEF Becomes, Mine
<1>7. ControlFits(c)' /\ MarkerFits(c)'
  BY <1>3, <1>6, MadeFacts DEF ControlFits, MarkerFits, Succeeding, StandsAt
<1>8. TurnsFit(c)'
  <2>1. TurnsOf(Mine(c)) = {}
    BY MineIsPackage DEF ProcessFits, TurnsFit, AfterAsking
  <2>2. TurnsOf(Mine(c))' = {}
    BY <1>6, <2>1 DEF TurnsOf
  <2>3. QED
    BY <1>3, <1>6, <2>2 DEF TurnsFit, AfterAsking
<1>9. Moved(c).at \notin {"report", "ended"} => Moved(c).failed = "none"
  BY <1>2, MineIsPackage
<1>10. QED
  BY <1>2, <1>3, <1>4, <1>5, <1>7, <1>8, <1>9, Unmoved, OneProcessSteps

LEMMA PreparingSteps ==
  ASSUME ReleaseInv, NEW c \in Controllers,
         \/ RevalidateBaseline(c) \/ Publish(c) \/ ReconcileAccess(c)
         \/ PatchCandidate(c) \/ ReconcileCandidate(c) \/ Migrate(c)
  PROVE  ReleaseInv'
<1> USE NamedSteps
<1> DEFINE early == {"revalidate", "publish", "access", "patch", "reconcile", "migrate"}
           patched == {hosting, [hosting EXCEPT !.latest = Mine(c)]}
<1>1. /\ UNCHANGED <<controls, turns, terminal>> /\ controller[c].at \in early
      /\ Pass(c) \/ Fail(c)
      /\ hosting' \in patched
  BY DEF RevalidateBaseline, Publish, ReconcileAccess, PatchCandidate,
         ReconcileCandidate, Migrate, StandsAt, azure, hosted
<1>2. schema' = schema \/ (hosting' = hosting /\ hosting.ready # Base)
  <2>1. CASE Migrate(c)
    BY <2>1 DEF Migrate, ReleaseInv, HostingFits
  <2>2. CASE ~Migrate(c)
    BY <2>2
       DEF RevalidateBaseline, Publish, ReconcileAccess, PatchCandidate,
           ReconcileCandidate, azure
  <2>3. QED
    BY <2>1, <2>2
<1>3. CASE Fail(c)
  BY <1>1, <1>2, <1>3, Unmoved, FailingStep
<1>4. CASE Pass(c)
  <2>1. controller[c].at = "reconcile" =>
          hosting' = hosting /\ schema' = schema /\ hosting.ready # Base
    <3>1. SUFFICES ASSUME controller[c].at = "reconcile"
                   PROVE  hosting' = hosting /\ schema' = schema /\ hosting.ready # Base
      OBVIOUS
    <3>2. ReconcileCandidate(c)
      BY <3>1
         DEF RevalidateBaseline, Publish, ReconcileAccess, PatchCandidate, Migrate, StandsAt
    <3>3. ~Fail(c)
      <4>1. Moved(c).at # "report"
        BY <1>1, <1>4, <3>1, Passing, Followings DEF ReleaseInv
      <4>2. QED
        BY <1>1, <1>4, <4>1, Passing, Failing DEF ReleaseInv, Becomes
    <3>4. CandidateServes(Mine(c)) /\ UNCHANGED azure
      BY <3>2, <3>3 DEF ReconcileCandidate
    <3>5. Mine(c) # Base
      BY <1>1, MineIsPackage, ReleaseNames
    <3>6. QED
      BY <3>4, <3>5 DEF CandidateServes, azure
  <2> HIDE DEF early, patched
  <2>2. QED
    BY <1>1, <1>2, <1>4, <2>1, PreparingStep DEF early, patched
<1>5. QED
  BY <1>1, <1>3, <1>4

\* A step that leaves the control and the turns alone: what is left to show.
LEMMA LookingStep ==
  ASSUME ReleaseInv, NEW c \in Controllers, NEW x \in Process, Becomes(c, x),
         controller[c].at \in StepNames, x.at \in StepNames \ {"migrate"},
         x.package = Mine(c), x.failed = "none",
         UNCHANGED <<azure, hosted, terminal>>,
         ControlFits(c)', TurnsFit(c)', MarkerFits(c)'
  PROVE  ReleaseInv'
<1>1. UNCHANGED <<hosting, schema, controls, turns>> /\ terminal' = terminal
  BY DEF azure, hosted
<1>2. HostingFits' /\ hosting' \in [latest : Revisions, ready : Revisions]
  BY <1>1, HostingStays
<1>3. x.at # "idle"
  BY NamedSteps
<1>4. QED
  BY <1>1, <1>2, <1>3, Unmoved, OneProcessSteps

LEMMA FailingLook ==
  ASSUME ReleaseInv, NEW c \in Controllers, controller[c].at \in StepNames, Fail(c),
         UNCHANGED <<azure, hosted, terminal>>
  PROVE  ReleaseInv'
BY Unmoved, FailingStep DEF azure, hosted

\* The control is off when it is read, and the count of the changes starts.
LEMMA VerifyDisabledStep ==
  ASSUME ReleaseInv, NEW c \in Controllers, VerifyDisabled(c)
  PROVE  ReleaseInv'
<1> USE NamedSteps
<1>1. controller[c].at = "disabled" /\ UNCHANGED <<azure, hosted, terminal>>
  BY DEF VerifyDisabled, StandsAt
<1>2. CASE Fail(c)
  BY <1>1, <1>2, FailingLook
<1>3. CASE ~Fail(c)
  <2> DEFINE x == [Moved(c) EXCEPT !.known = Revision]
  <2>1. /\ ~InForce.operator /\ ~InForce.demo
        /\ controller' = [controller EXCEPT ![c] = x]
    BY <1>3 DEF VerifyDisabled
  <2>2. controller[c] \in Process /\ controller[c].failed = "none"
        /\ TurnsOf(Mine(c)) = {}
    BY <1>1, MineIsPackage DEF ProcessFits, TurnsFit, AfterAsking
  <2>3. Moved(c) \in Process /\ Moved(c).at = "rotate" /\ Moved(c).package = Mine(c)
        /\ Moved(c).failed = "none"
    BY <1>1, <2>2, MovedFields, Followings DEF Moved, Mine
  <2>4. Len(controls) \in Nat /\ Len(controls) > 0
    BY DEF ReleaseInv, ReleaseTypes
  <2>5. x \in Process /\ x.at = "rotate" /\ x.package = Mine(c) /\ x.failed = "none"
        /\ x.known = Len(controls)
    BY <2>3, <2>4 DEF Process, Revision
  <2> HIDE DEF x
  <2>6. Becomes(c, x)
    BY <2>1, <2>5, Becoming DEF ReleaseInv
  <2>7. controller'[c] = x /\ Mine(c)' = Mine(c) /\ controls' = controls /\ turns' = turns
    BY <1>1, <2>5, <2>6 DEF Becomes, Mine, hosted
  <2>8. ~controls[Len(controls)].operator /\ ~controls[Len(controls)].demo
    BY <2>1 DEF InForce, Last
  <2>9. ControlFits(c)'
    <3>1. SUFFICES /\ 0 <= Len(controls) /\ 1 <= Len(controls)
                   /\ \A j \in 1..0 :
                        controls[Len(controls) - 0 + j] = Released(Mine(c))[j]
                   /\ ~controls[Len(controls)].operator /\ ~controls[Len(controls)].demo
      BY <2>4, <2>5, <2>7, MadeFacts DEF ControlFits
    <3>2. QED
      BY <2>4, <2>8
  <2>10. TurnsFit(c)'
    <3>1. TurnsOf(Mine(c))' = {}
      BY <2>2, <2>7 DEF TurnsOf
    <3>2. QED
      BY <2>5, <2>7, <3>1 DEF TurnsFit, AfterAsking
  <2>11. MarkerFits(c)'
    BY <2>5, <2>7 DEF MarkerFits, StandsAt
  <2>12. QED
    BY <1>1, <2>5, <2>6, <2>9, <2>10, <2>11, LookingStep
<1>4. QED
  BY <1>2, <1>3

\* The last three steps only look: the seven changes stay the latest.
LEMMA CheckingStep ==
  ASSUME ReleaseInv, NEW c \in Controllers, NEW x \in Process, Becomes(c, x),
         controller[c].at \in {"reject", "read_back", "scan"},
         x.at \in {"read_back", "scan", "report"},
         x.package = Mine(c), x.known = controller[c].known, x.failed = "none",
         UNCHANGED <<azure, hosted, terminal>>,
         x.at = "report" => x.marker = Mine(c)
  PROVE  ReleaseInv'
<1> USE NamedSteps
<1>1. /\ controls' = controls /\ turns' = turns /\ controller'[c] = x
      /\ Mine(c)' = Mine(c)
  BY DEF hosted, Becomes, Mine
<1>2. ControlFits(c) /\ TurnsFit(c) /\ controller[c].failed = "none"
  BY MineIsPackage DEF ProcessFits
<1>3. Succeeding(c) /\ controller[c].at \in AfterAsking
  BY <1>2, MadeFacts DEF Succeeding, AfterAsking
<1>4. Made[controller[c].at] = 7 /\ Made[x.at] = 7
  BY MadeFacts
<1>5. ControlFits(c)'
  BY <1>1, <1>2, <1>3, <1>4 DEF ControlFits
<1>6. TurnsFit(c)'
  <2>1. TurnsOf(Mine(c))' = BothTurns(Mine(c))
    BY <1>1, <1>2, <1>3 DEF TurnsFit, TurnsOf
  <2>2. x.at \in AfterAsking
    BY DEF AfterAsking
  <2>3. BothTurns(Mine(c))' = BothTurns(Mine(c))
    BY <1>1 DEF BothTurns, TurnBy
  <2>4. QED
    BY <1>1, <2>1, <2>2, <2>3 DEF TurnsFit
<1>7. MarkerFits(c)'
  BY <1>1 DEF MarkerFits, StandsAt
<1>8. QED
  BY <1>5, <1>6, <1>7, LookingStep

LEMMA CheckingSteps ==
  ASSUME ReleaseInv, NEW c \in Controllers,
         RejectCandidate(c) \/ ReadControlBack(c) \/ ScanLogs(c)
  PROVE  ReleaseInv'
<1> USE NamedSteps
<1>1. /\ controller[c].at \in {"reject", "read_back", "scan"}
      /\ UNCHANGED <<azure, hosted, terminal>>
  BY DEF RejectCandidate, ReadControlBack, ScanLogs, StandsAt
<1>2. controller[c] \in Process /\ controller[c].failed = "none" /\ ReleaseTypes
  BY <1>1, MineIsPackage DEF ReleaseInv
<1>3. CASE Fail(c)
  BY <1>1, <1>3, FailingLook
<1>4. CASE RejectCandidate(c) /\ ~Fail(c)
  <2> DEFINE x == [Moved(c) EXCEPT !.marker = hosting.ready]
  <2>1. controller' = [controller EXCEPT ![c] = x] /\ controller[c].at = "reject"
    BY <1>4 DEF RejectCandidate, StandsAt
  <2>2. /\ Moved(c) \in Process /\ Moved(c).at = "read_back" /\ Moved(c).package = Mine(c)
        /\ Moved(c).failed = "none" /\ Moved(c).known = controller[c].known
    BY <1>2, <2>1, MovedFields, Followings DEF Moved, Mine
  <2>3. hosting.ready \in Revisions
    BY <1>2 DEF ReleaseTypes
  <2>4. /\ x \in Process /\ x.at = "read_back" /\ x.package = Mine(c)
        /\ x.failed = "none" /\ x.known = controller[c].known
    BY <2>2, <2>3 DEF Process
  <2> HIDE DEF x
  <2>5. Becomes(c, x)
    BY <1>2, <2>1, <2>4, Becoming
  <2>6. QED
    BY <1>1, <2>4, <2>5, CheckingStep
<1>5. CASE (ReadControlBack(c) \/ ScanLogs(c)) /\ Pass(c)
  <2>1. /\ Becomes(c, Moved(c)) /\ Moved(c).at = Following(controller[c].at)
        /\ Moved(c).package = Mine(c) /\ Moved(c).known = controller[c].known
        /\ Moved(c).marker = controller[c].marker /\ Moved(c).failed = "none"
    BY <1>1, <1>2, <1>5, Passing
  <2>2. Moved(c) \in Process
    BY <1>2, <1>1, MovedFields DEF Moved
  <2>3. controller[c].at \in {"read_back", "scan"}
    BY <1>5 DEF ReadControlBack, ScanLogs, StandsAt
  <2>4. Moved(c).at \in {"scan", "report"}
        /\ (Moved(c).at = "report" => controller[c].at = "scan")
    BY <2>1, <2>3, Followings
  <2>5. ASSUME controller[c].at = "scan" PROVE controller[c].marker = Mine(c)
    <3>1. ScanLogs(c) /\ ~Fail(c)
      <4>1. ScanLogs(c)
        BY <1>5, <2>5 DEF ReadControlBack, StandsAt
      <4>2. Moved(c).failed = "none" /\ Becomes(c, Moved(c))
        BY <2>1
      <4>3. ~Fail(c)
        BY <1>1, <1>2, <4>2, Failing DEF Becomes
      <4>4. QED
        BY <4>1, <4>3
    <3>2. QED
      BY <3>1 DEF ScanLogs, MarkerObserved
  <2>6. Moved(c).at = "report" => Moved(c).marker = Mine(c)
    BY <2>1, <2>4, <2>5
  <2> HIDE DEF Process
  <2>7. QED
    BY <1>1, <2>1, <2>2, <2>4, <2>6, CheckingStep
<1>6. (ReadControlBack(c) \/ ScanLogs(c)) => (Pass(c) \/ Fail(c))
  BY DEF ReadControlBack, ScanLogs
<1>7. QED
  BY <1>3, <1>4, <1>5, <1>6

-----------------------------------------------------------------------------
(***************************************************************************)
(* The release: the changes of the control, and the questions              *)
(***************************************************************************)

Changing ==
  {"rotate", "operator_on", "both_on", "operator_off", "operator_back", "demo_off",
   "demo_back"}

LEMMA ChangingCounts ==
  ASSUME NEW s \in Changing
  PROVE  /\ s \in StepNames \ {"report", "reconcile", "migrate"} /\ s \in DOMAIN Made
         /\ Following(s) \in DOMAIN Made /\ Following(s) \in StepNames \ {"migrate"}
         /\ Made[s] \in 0..6 /\ Made[Following(s)] = Made[s] + 1
BY NamedSteps, Followings, MadeFacts DEF Changing

LEMMA MineWhileChanging ==
  ASSUME ReleaseInv, NEW c \in Controllers, controller[c].at \in Changing
  PROVE  /\ Mine(c) \in ReleasePackages /\ controller[c].failed = "none"
         /\ ControlFits(c) /\ TurnsFit(c) /\ controller[c] \in Process
         /\ Len(controls) \in Nat /\ Len(controls) > 0 /\ controls \in Seq(Row)
<1>1. controller[c].at \in StepNames /\ controller[c].at \notin {"report", "ended"}
  BY ChangingCounts, NamedSteps DEF Changing
<1>2. Mine(c) \in ReleasePackages /\ controller[c].failed = "none" /\ ProcessFits(c)
      /\ controller[c] \in Process
  BY <1>1, MineIsPackage
<1>3. QED
  BY <1>2 DEF ProcessFits, ReleaseInv, ReleaseTypes

LEMMA Growing ==
  ASSUME ReleaseTypes, NEW row \in Row, controls' \in {controls, Append(controls, row)}
  PROVE  Grows /\ controls' \in Seq(Row)
BY DEF ReleaseTypes, Grows

\* When nobody else has changed the control, the change is the next of the release.
LEMMA ChangeFollows ==
  ASSUME ReleaseInv, NEW c \in Controllers, controller[c].at \in Changing,
         AsRemembered(c), NEW row \in Row, row = Released(Mine(c))[Made[controller[c].at] + 1],
         controls' = Append(controls, row), NEW x, Becomes(c, x),
         x.at = Following(controller[c].at), x.package = Mine(c),
         x.known = Len(controls) + 1
  PROVE  ControlFits(c)'
<1> DEFINE k == Len(controls)
           m == Made[controller[c].at]
<1>1. /\ k \in Nat /\ k > 0 /\ controls \in Seq(Row)
      /\ ControlFits(c) /\ controller[c].failed = "none" /\ controller[c].known = k
  BY MineWhileChanging DEF AsRemembered, Revision
<1>2. /\ m \in 0..6 /\ Made[x.at] = m + 1 /\ x.at \in DOMAIN Made
      /\ controller[c].at \in DOMAIN Made
  BY ChangingCounts
<1>3. m <= k /\ \A j \in 1..m : controls[k - m + j] = Released(Mine(c))[j]
  BY <1>1, <1>2 DEF ControlFits, Succeeding
<1>4. /\ Len(controls') = k + 1 /\ controls'[k + 1] = row
      /\ \A i \in 1..k : controls'[i] = controls[i]
  BY <1>1
<1>5. controller'[c] = x /\ Mine(c)' = Mine(c)
  BY DEF Becomes, Mine
<1>6. row = Released(Mine(c))[m + 1]
  OBVIOUS
<1> HIDE DEF k, m
<1>7. ASSUME NEW j \in 1..(m + 1)
      PROVE  controls'[(k + 1) - (m + 1) + j] = Released(Mine(c))[j]
  <2>1. CASE j = m + 1
    <3>1. (k + 1) - (m + 1) + j = k + 1
      BY <1>1, <1>2, <2>1
    <3>2. QED
      BY <1>4, <1>6, <2>1, <3>1
  <2>2. CASE j # m + 1
    <3>1. j \in 1..m /\ (k + 1) - (m + 1) + j = k - m + j /\ k - m + j \in 1..k
      BY <1>1, <1>2, <1>3, <2>2
    <3>2. QED
      BY <1>3, <1>4, <3>1
  <2>3. QED
    BY <2>1, <2>2
<1>8. /\ m + 1 <= k + 1 /\ 1 <= k + 1 /\ k + 1 <= k + 1 /\ m + 1 # 0
  BY <1>1, <1>2, <1>3
<1>9. x.known = k + 1
  BY DEF k
<1>10. QED
  BY <1>2, <1>4, <1>5, <1>7, <1>8, <1>9 DEF ControlFits

LEMMA ChangeKeepsTurns ==
  ASSUME ReleaseInv, NEW c \in Controllers, controller[c].at \in Changing,
         AsRemembered(c), turns' = turns, NEW x, Becomes(c, x),
         x.at = Following(controller[c].at), x.package = Mine(c)
  PROVE  TurnsFit(c)'
<1> DEFINE p == Mine(c)
<1>1. /\ TurnsFit(c) /\ controller[c].failed = "none"
      /\ Len(controls) \in Nat /\ controller[c].known = Len(controls)
  BY MineWhileChanging DEF AsRemembered, Revision
<1>2. controller'[c] = x /\ Mine(c)' = p /\ TurnsOf(p)' = TurnsOf(p)
      /\ BothTurns(p)' = BothTurns(p) /\ TurnBy(p, "operator", p)' = TurnBy(p, "operator", p)
  BY DEF Becomes, Mine, TurnsOf, BothTurns, TurnBy
<1>3. Succeeding(c)
  BY <1>1, ChangingCounts DEF Succeeding
<1>4. CASE controller[c].at \in {"rotate", "operator_on"}
  <2>1. TurnsOf(p) = {}
    BY <1>1, <1>4, NamedSteps DEF TurnsFit, AfterAsking
  <2>2. x.at \in {"operator_on", "operator_asks"}
    BY <1>4, Followings
  <2>3. QED
    BY <1>2, <2>1, <2>2 DEF TurnsFit, AfterAsking
<1>5. CASE controller[c].at = "both_on"
  <2>1. TurnsOf(p) = {TurnBy(p, "operator", p)}
    <3>1. PICK key \in ReleaseKeys :
                  /\ TurnsOf(p) = {TurnBy(p, "operator", key)}
                  /\ key = p \/ controller[c].known < Len(controls)
      BY <1>1, <1>5 DEF TurnsFit
    <3>2. QED
      BY <1>1, <3>1
  <2>2. x.at = "demo_asks"
    BY <1>5, Followings
  <2>3. QED
    BY <1>2, <2>1, <2>2 DEF TurnsFit, AfterAsking
<1>6. CASE controller[c].at \in {"operator_off", "operator_back", "demo_off", "demo_back"}
  <2>1. TurnsOf(p) = BothTurns(p)
    BY <1>1, <1>3, <1>6 DEF TurnsFit, AfterAsking
  <2>2. x.at \in {"operator_back", "demo_off", "demo_back", "reject"}
    BY <1>6, Followings
  <2>3. x.at \in AfterAsking /\ x.at \notin {"both_on", "demo_asks"}
    BY <2>2 DEF AfterAsking
  <2>4. QED
    BY <1>2, <2>1, <2>3 DEF TurnsFit
<1>7. QED
  BY <1>4, <1>5, <1>6 DEF Changing

LEMMA ChangingStep ==
  ASSUME ReleaseInv, NEW c \in Controllers, controller[c].at \in Changing,
         NEW row \in Row, Mutate(c, row),
         AsRemembered(c) => row = Released(Mine(c))[Made[controller[c].at] + 1]
  PROVE  ReleaseInv'
<1>1. /\ UNCHANGED <<hosting, schema, turns>> /\ terminal' = terminal
      /\ controls' \in {controls, Append(controls, row)}
  BY DEF Mutate, azure
<1>2. ReleaseTypes /\ Grows /\ controls' \in Seq(Row)
  BY <1>1, Growing DEF ReleaseInv
<1>3. /\ OthersTurnsStay(Mine(c))
      /\ turns' \subseteq [package : ReleasePackages, actor : {"operator", "demo"},
                           key : ReleaseKeys]
  BY <1>1, <1>2 DEF ReleaseTypes, OthersTurnsStay, TurnsOf
<1>4. CASE Fail(c)
  BY <1>1, <1>2, <1>3, <1>4, ChangingCounts, FailingStep
<1>5. CASE ~Fail(c)
  <2> DEFINE x == [Moved(c) EXCEPT !.known = Revision + 1]
  <2>1. /\ AsRemembered(c) /\ controls' = Append(controls, row)
        /\ controller' = [controller EXCEPT ![c] = x]
    BY <1>5 DEF Mutate
  <2>2. controller[c] \in Process /\ controller[c].failed = "none"
        /\ Len(controls) \in Nat
    BY MineWhileChanging
  <2>3. /\ Moved(c) \in Process /\ Moved(c).at = Following(controller[c].at)
        /\ Moved(c).package = Mine(c) /\ Moved(c).failed = "none"
    BY <2>2, ChangingCounts, MovedFields DEF Moved, Mine
  <2>4. /\ x \in Process /\ x.at = Following(controller[c].at)
        /\ x.package = Mine(c) /\ x.failed = "none" /\ x.known = Len(controls) + 1
    BY <2>2, <2>3 DEF Process, Revision
  <2> HIDE DEF x
  <2>5. Becomes(c, x)
    BY <1>2, <2>1, <2>4, Becoming
  <2>6. ControlFits(c)'
    BY <2>1, <2>4, <2>5, ChangeFollows
  <2>7. TurnsFit(c)'
    BY <1>1, <2>1, <2>4, <2>5, ChangeKeepsTurns
  <2>8. controller[c].at \in StepNames /\ x.at \in StepNames \ {"migrate"} /\ x.at # "idle"
        /\ x.at # "report"
    BY <2>4, ChangingCounts, NamedSteps, Followings DEF Changing
  <2>9. MarkerFits(c)'
    BY <2>5, <2>8 DEF MarkerFits, StandsAt, Becomes
  <2>10. HostingFits' /\ hosting' \in [latest : Revisions, ready : Revisions]
    BY <1>1, <2>5, <2>8, HostingStays
  <2>11. QED
    BY <1>1, <1>2, <1>3, <2>4, <2>5, <2>6, <2>7, <2>8, <2>9, <2>10, OneProcessSteps
<1>6. QED
  BY <1>4, <1>5

\* The row in force is the last that the release made.
LEMMA InForceIsMine ==
  ASSUME ReleaseInv, NEW c \in Controllers, Succeeding(c),
         controller[c].known = Len(controls), Made[controller[c].at] \in 1..7
  PROVE  InForce = Released(Mine(c))[Made[controller[c].at]]
<1> DEFINE k == Len(controls)
           m == Made[controller[c].at]
<1>1. k \in Nat
  BY DEF ReleaseInv, ReleaseTypes
<1>2. \A j \in 1..m : controls[k - m + j] = Released(Mine(c))[j]
  BY DEF ReleaseInv, ProcessFits, ControlFits
<1>3. m \in 1..7
  OBVIOUS
<1> HIDE DEF k, m
<1>4. m \in 1..m /\ k - m + m = k
  BY <1>1, <1>3
<1>5. controls[k] = Released(Mine(c))[m]
  BY <1>2, <1>4
<1>6. QED
  BY <1>5 DEF InForce, Last, k, m

LEMMA RowShape ==
  ASSUME NEW r \in Row
  PROVE  r = [by |-> r.by, key |-> r.key, operator |-> r.operator, demo |-> r.demo]
BY DEF Row

LEMMA RotateKeyStep ==
  ASSUME ReleaseInv, NEW c \in Controllers, RotateKey(c)
  PROVE  ReleaseInv'
<1> DEFINE p == Mine(c)
           row == [InForce EXCEPT !.by = p, !.key = p]
<1>1. controller[c].at = "rotate" /\ Mutate(c, row)
  BY DEF RotateKey, StandsAt
<1>2. controller[c].at \in Changing /\ Made[controller[c].at] = 0
      /\ controller[c].at \in DOMAIN Made
  BY <1>1, MadeFacts DEF Changing
<1>3. p \in ReleasePackages /\ ControlFits(c) /\ controller[c].failed = "none"
  BY <1>2, MineWhileChanging
<1>4. InForce \in Row
  BY DEF ReleaseInv, ReleaseTypes, InForce, Last
<1>5. row \in Row
  BY <1>3, <1>4 DEF Row, ReleaseKeys
<1>6. ASSUME AsRemembered(c) PROVE row = Released(p)[1]
  <2>1. controller[c].known = Len(controls)
    BY <1>6 DEF AsRemembered, Revision
  <2>2. ~InForce.operator /\ ~InForce.demo
    BY <1>2, <1>3, <2>1 DEF ControlFits, Succeeding, InForce, Last
  <2>3. row = [by |-> p, key |-> p, operator |-> FALSE, demo |-> FALSE]
    <3>1. row.by = p /\ row.key = p
      BY <1>4 DEF Row
    <3>2. (row.operator <=> InForce.operator) /\ (row.demo <=> InForce.demo)
      BY <1>4 DEF Row
    <3> HIDE DEF row
    <3>3. row.operator = FALSE /\ row.demo = FALSE
      BY <1>5, <2>2, <3>2 DEF Row
    <3>4. row = [by |-> row.by, key |-> row.key, operator |-> row.operator,
                 demo |-> row.demo]
      BY <1>5, RowShape
    <3>5. QED
      BY <3>1, <3>3, <3>4, Zenon
  <2>4. ControlRow(p, p, <<FALSE, FALSE>>)
          = [by |-> p, key |-> p, operator |-> FALSE, demo |-> FALSE]
    BY DEF ControlRow
  <2> HIDE DEF row
  <2>5. QED
    BY <2>3, <2>4, ReleasedRows
<1> HIDE DEF row
<1>7. AsRemembered(c) => row = Released(Mine(c))[Made[controller[c].at] + 1]
  BY <1>2, <1>6
<1>8. QED
  BY <1>1, <1>2, <1>5, <1>7, ChangingStep

LEMMA SwitchChannelsStep ==
  ASSUME ReleaseInv, NEW c \in Controllers, SwitchChannels(c)
  PROVE  ReleaseInv'
<1> DEFINE p == Mine(c)
           at == controller[c].at
           row == ControlRow(p, InForce.key, Channels[at])
<1>1. at \in DOMAIN Channels /\ Mutate(c, row)
  BY DEF SwitchChannels
<1>2. at \in {"operator_on", "both_on", "operator_off", "operator_back", "demo_off",
              "demo_back"}
  BY <1>1 DEF Channels
<1>3. at \in Changing /\ Made[at] \in 1..6 /\ at \in DOMAIN Made
  BY <1>2, MadeFacts DEF Changing
<1>4. p \in ReleasePackages /\ ControlFits(c) /\ controller[c].failed = "none"
  BY <1>3, MineWhileChanging
<1>5. InForce \in Row
  BY DEF ReleaseInv, ReleaseTypes, InForce, Last
<1>6. row \in Row
  <2>1. InForce.key \in ReleaseKeys
    BY <1>5 DEF Row
  <2>2. QED
    BY <1>1, <1>4, <2>1, ChannelRows
<1>7. ASSUME AsRemembered(c) PROVE row = Released(p)[Made[at] + 1]
  <2>1. controller[c].known = Len(controls)
    BY <1>7 DEF AsRemembered, Revision
  <2>2. InForce = Released(p)[Made[at]]
    BY <1>3, <1>4, <2>1, InForceIsMine DEF Succeeding
  <2>3. InForce.key = p
    BY <1>3, <2>2, ReleasedRows
  <2>4. Released(p)[Made[at] + 1] = ControlRow(p, p, Channels[at])
    <3>1. Made[at] + 1 \in 2..7
      BY <1>3
    <3>2. QED
      BY <1>2, MadeFacts, ReleasedRows
  <2>5. QED
    BY <2>3, <2>4
<1> HIDE DEF row
<1>8. QED
  BY <1>1, <1>3, <1>6, <1>7, ChangingStep

LEMMA AskedTurns ==
  ASSUME ReleaseInv, NEW p \in ReleasePackages, NEW actor \in {"operator", "demo"}
  PROVE  LET turn == TurnOf(p, actor)
         IN  /\ turn = TurnBy(p, actor, InForce.key) /\ InForce.key \in ReleaseKeys
             /\ turns' \in {turns, turns \cup {turn}} =>
                  /\ OthersTurnsStay(p)
                  /\ turns' \subseteq [package : ReleasePackages,
                                       actor : {"operator", "demo"}, key : ReleaseKeys]
             /\ turns' = turns \cup {turn} =>
                  {t \in turns' : t.package = p} = TurnsOf(p) \cup {turn}
<1> DEFINE turn == TurnOf(p, actor)
<1>1. InForce \in Row
  BY DEF ReleaseInv, ReleaseTypes, InForce, Last
<1>2. InForce.key \in ReleaseKeys
  BY <1>1 DEF Row
<1>3. turn = TurnBy(p, actor, InForce.key) /\ turn.package = p
      /\ turn \in [package : ReleasePackages, actor : {"operator", "demo"},
                   key : ReleaseKeys]
  BY <1>2 DEF TurnOf, TurnBy
<1>4. turns \subseteq [package : ReleasePackages, actor : {"operator", "demo"},
                       key : ReleaseKeys]
  BY DEF ReleaseInv, ReleaseTypes
<1> HIDE DEF turn
<1>5. turns' \in {turns, turns \cup {turn}} => OthersTurnsStay(p)
  BY <1>3 DEF OthersTurnsStay, TurnsOf
<1>6. turns' = turns \cup {turn} =>
        {t \in turns' : t.package = p} = TurnsOf(p) \cup {turn}
  BY <1>3 DEF TurnsOf
<1>7. QED
  BY <1>2, <1>3, <1>4, <1>5, <1>6 DEF turn

LEMMA AnsweredStep ==
  ASSUME ReleaseInv, NEW c \in Controllers, NEW actor \in {"operator", "demo"},
         controller[c].at = IF actor = "operator" THEN "operator_asks" ELSE "demo_asks",
         Pass(c), turns' = turns \cup {TurnOf(Mine(c), actor)},
         SharedBinding(c, TurnOf(Mine(c), actor)),
         UNCHANGED <<azure, controls, approved, terminal>>
  PROVE  ReleaseInv'
<1> DEFINE p == Mine(c)
           x == Moved(c)
           turn == TurnOf(p, actor)
<1> USE NamedSteps
<1>1. /\ controller[c].at \in {"operator_asks", "demo_asks"}
      /\ controller[c].at = "operator_asks" <=> actor = "operator"
  OBVIOUS
<1>2. /\ p \in ReleasePackages /\ controller[c].failed = "none"
      /\ ControlFits(c) /\ TurnsFit(c) /\ controller[c] \in Process
  BY <1>1, MineIsPackage DEF ProcessFits
<1>3. /\ Becomes(c, x) /\ x.at = Following(controller[c].at)
      /\ x.package = p /\ x.known = controller[c].known /\ x.failed = "none"
  BY <1>1, <1>2, Passing DEF ReleaseInv
<1>4. x \in Process
  BY <1>3 DEF Becomes
<1>5. /\ hosting' = hosting /\ schema' = schema /\ controls' = controls
      /\ terminal' = terminal
  BY DEF azure
<1>6. x.at = IF actor = "operator" THEN "both_on" ELSE "operator_off"
  BY <1>1, <1>3, Followings
<1>7. controller'[c] = x /\ Mine(c)' = p
  BY <1>3 DEF Becomes, Mine
<1> HIDE DEF x
<1>8. Succeeding(c) /\ Made[controller[c].at] = Made[x.at] /\ x.at \in DOMAIN Made
      /\ Made[controller[c].at] \in 2..3
  BY <1>1, <1>2, <1>6, MadeFacts DEF Succeeding
<1>9. ControlFits(c)'
  BY <1>2, <1>3, <1>5, <1>7, <1>8 DEF ControlFits
<1>10. /\ OthersTurnsStay(p)
       /\ turns' \subseteq [package : ReleasePackages, actor : {"operator", "demo"},
                            key : ReleaseKeys]
       /\ TurnsOf(p)' = TurnsOf(p) \cup {TurnBy(p, actor, InForce.key)}
       /\ InForce.key \in ReleaseKeys /\ turn = TurnBy(p, actor, InForce.key)
  <2>1. /\ OthersTurnsStay(p)
        /\ turns' \subseteq [package : ReleasePackages, actor : {"operator", "demo"},
                             key : ReleaseKeys]
        /\ {t \in turns' : t.package = p} = TurnsOf(p) \cup {turn}
        /\ turn = TurnBy(p, actor, InForce.key) /\ InForce.key \in ReleaseKeys
    BY <1>2, AskedTurns
  <2>2. TurnsOf(p)' = {t \in turns' : t.package = p}
    BY <1>7 DEF TurnsOf
  <2>3. QED
    BY <2>1, <2>2
<1>11. TurnsFit(c)'
  <2>1. CASE actor = "operator"
    <3>1. TurnsOf(p) = {}
      BY <1>1, <1>2, <2>1 DEF TurnsFit, AfterAsking
    <3>2. TurnsOf(p)' = {TurnBy(p, "operator", InForce.key)}
      BY <1>10, <2>1, <3>1
    <3>3. InForce.key = p \/ controller[c].known < Len(controls)
      <4>1. /\ controller[c].known \in Nat /\ Len(controls) \in Nat
            /\ controller[c].known <= Len(controls)
        BY <1>2, <1>8 DEF ControlFits, Process, ReleaseInv, ReleaseTypes
      <4>2. CASE controller[c].known = Len(controls)
        BY <1>8, <4>2, InForceIsMine, ReleasedRows
      <4>3. QED
        BY <4>1, <4>2
    <3>4. x.at = "both_on" /\ x.at \notin AfterAsking
      BY <1>6, <2>1 DEF AfterAsking
    <3>5. \E key \in ReleaseKeys :
            /\ TurnsOf(p)' = {TurnBy(p, "operator", key)}
            /\ key = p \/ x.known < Len(controls')
      BY <1>3, <1>5, <1>10, <3>2, <3>3
    <3>6. QED
      BY <1>7, <3>4, <3>5 DEF TurnsFit, TurnBy
  <2>2. CASE actor = "demo"
    <3>1. TurnsOf(p) = {TurnBy(p, "operator", p)}
      BY <1>1, <1>2, <2>2 DEF TurnsFit
    <3>2. TurnBy(p, "operator", p) \in turns
          /\ TurnBy(p, "operator", p).package = p /\ TurnBy(p, "operator", p).key = p
      BY <3>1 DEF TurnsOf, TurnBy
    <3>3. turn.key = p
      BY <3>2 DEF SharedBinding
    <3>4. InForce.key = p
      BY <1>10, <3>3 DEF TurnBy
    <3>5. TurnsOf(p)' = BothTurns(p)
      BY <1>10, <2>2, <3>1, <3>4 DEF BothTurns
    <3>6. BothTurns(p)' = BothTurns(p)
      BY <1>7 DEF BothTurns, TurnBy
    <3>7. x.at \in AfterAsking
      BY <1>6, <2>2 DEF AfterAsking
    <3>8. QED
      BY <1>6, <1>7, <2>2, <3>5, <3>6, <3>7 DEF TurnsFit
  <2>3. QED
    BY <2>1, <2>2
<1>12. MarkerFits(c)'
  BY <1>6, <1>7 DEF MarkerFits, StandsAt
<1>13. Grows /\ controls' \in Seq(Row)
  BY <1>5 DEF Grows, ReleaseInv, ReleaseTypes
<1>14. x.at \notin {"migrate", "idle"} /\ controller[c].at \in StepNames
  BY <1>1, <1>6
<1>15. HostingFits' /\ hosting' \in [latest : Revisions, ready : Revisions]
  BY <1>3, <1>5, <1>14, HostingStays
<1>16. QED
  BY <1>3, <1>4, <1>5, <1>9, <1>10, <1>11, <1>12, <1>13, <1>14, <1>15, OneProcessSteps

LEMMA AskStep ==
  ASSUME ReleaseInv, NEW c \in Controllers, NEW actor \in {"operator", "demo"},
         Ask(c, actor)
  PROVE  ReleaseInv'
<1> DEFINE turn == TurnOf(Mine(c), actor)
<1>1. /\ controller[c].at = IF actor = "operator" THEN "operator_asks" ELSE "demo_asks"
      /\ UNCHANGED <<azure, controls, approved, terminal>>
      /\ turns' \in {turns, turns \cup {turn}}
  BY DEF Ask, StandsAt
<1>2. controller[c].at \in StepNames
  BY <1>1, NamedSteps
<1>3. CASE Fail(c)
  <2>1. /\ OthersTurnsStay(Mine(c))
        /\ turns' \subseteq [package : ReleasePackages, actor : {"operator", "demo"},
                             key : ReleaseKeys]
    BY <1>1, <1>2, MineIsPackage, AskedTurns
  <2>2. hosting' = hosting /\ schema' = schema /\ terminal' = terminal /\ Grows
        /\ controls' \in Seq(Row)
    BY <1>1 DEF azure, Grows, ReleaseInv, ReleaseTypes
  <2>3. QED
    BY <1>2, <1>3, <2>1, <2>2, FailingStep
<1>4. CASE ~Fail(c)
  <2>1. Pass(c) /\ turns' = turns \cup {turn} /\ SharedBinding(c, turn)
    BY <1>4 DEF Ask
  <2>2. QED
    BY <1>1, <2>1, AnsweredStep
<1>5. QED
  BY <1>3, <1>4

-----------------------------------------------------------------------------
(***************************************************************************)
(* The release: its receipt, and what happens around it                    *)
(***************************************************************************)

LEMMA EndedFields ==
  ASSUME ReleaseTypes, NEW c \in Controllers,
         controller' = [controller EXCEPT ![c].at = "ended"]
  PROVE  LET x == [controller[c] EXCEPT !.at = "ended"]
         IN  /\ x \in Process /\ Becomes(c, x) /\ x.at = "ended" /\ x.package = Mine(c)
             /\ x.marker = controller[c].marker
<1> DEFINE x == [controller[c] EXCEPT !.at = "ended"]
<1>1. controller[c] \in Process
  BY DEF ReleaseTypes
<1>2. x \in Process /\ x.at = "ended" /\ x.package = Mine(c)
      /\ x.marker = controller[c].marker
  BY <1>1 DEF Process, Mine
<1>3. controller' = [controller EXCEPT ![c] = x]
  OBVIOUS
<1> HIDE DEF x
<1>4. Becomes(c, x)
  BY <1>2, <1>3, Becoming
<1>5. QED
  BY <1>2, <1>4 DEF x

LEMMA EndedFits ==
  ASSUME NEW c \in Controllers, controller'[c].at = "ended"
  PROVE  ControlFits(c)' /\ TurnsFit(c)' /\ MarkerFits(c)'
<1>1. ~Succeeding(c)'
  BY MadeFacts DEF Succeeding
<1>2. QED
  BY <1>1, NamedSteps DEF ControlFits, TurnsFit, MarkerFits

LEMMA ControllerDiesStep ==
  ASSUME ReleaseInv, NEW c \in Controllers, ControllerDies(c)
  PROVE  ReleaseInv'
<1> DEFINE x == [controller[c] EXCEPT !.at = "ended"]
<1>1. /\ controller[c].at \notin {"idle", "ended"}
      /\ controller' = [controller EXCEPT ![c].at = "ended"]
      /\ UNCHANGED <<hosting, schema, controls, turns>> /\ terminal' = terminal
  BY DEF ControllerDies, azure, hosted
<1>2. ReleaseTypes /\ controller[c].at \in StepNames
  BY <1>1 DEF ReleaseInv, ReleaseTypes, Process
<1>3. x \in Process /\ Becomes(c, x) /\ x.at = "ended" /\ x.package = Mine(c)
  BY <1>1, <1>2, EndedFields
<1> HIDE DEF x
<1>4. ControlFits(c)' /\ TurnsFit(c)' /\ MarkerFits(c)'
  BY <1>3, EndedFits DEF Becomes
<1>5. HostingFits' /\ hosting' \in [latest : Revisions, ready : Revisions]
  BY <1>1, <1>3, HostingStays
<1>6. QED
  BY <1>1, <1>2, <1>3, <1>4, <1>5, Unmoved, OneProcessSteps

\* Completed means that nothing failed, so all that a release does is done.
LEMMA ReceiptIsEarned ==
  ASSUME ReleaseInv, NEW c \in Controllers, StandsAt(c, "report"),
         controller[c].failed = "none", UNCHANGED <<controls, turns>>,
         NEW x, Becomes(c, x), x.at = "ended", x.package = Mine(c),
         x.marker = controller[c].marker
  PROVE  CompletedFits(Mine(c))'
<1> DEFINE p == Mine(c)
           k == controller[c].known
<1>1. /\ p \in ReleasePackages /\ ProcessFits(c) /\ controller[c] \in Process
      /\ controls \in Seq(Row)
  BY NamedSteps, MineIsPackage DEF StandsAt, ReleaseInv, ReleaseTypes
<1>2. Succeeding(c) /\ Made[controller[c].at] = 7 /\ controller[c].at \in AfterAsking
  BY MadeFacts DEF Succeeding, StandsAt, AfterAsking
<1>3. /\ 7 <= k /\ k <= Len(controls)
      /\ \A j \in 1..7 : controls[k - 7 + j] = Released(p)[j]
  BY <1>1, <1>2 DEF ProcessFits, ControlFits
<1>4. TurnsOf(p) = BothTurns(p) /\ controller[c].marker = p
  BY <1>1, <1>2 DEF ProcessFits, TurnsFit, MarkerFits
<1>5. k \in Nat /\ Len(controls) \in Nat
  BY <1>1 DEF Process
<1>6. Mine(c)' = p /\ StandsAt(c, "ended")' /\ controller'[c].marker = p
  BY <1>4 DEF Becomes, Mine, StandsAt
<1>7. TurnsOf(p)' = BothTurns(p) /\ BothTurns(p)' = BothTurns(p)
  BY <1>4, <1>6 DEF TurnsOf, BothTurns, TurnBy
<1> HIDE DEF k
<1>8. \E n \in DOMAIN controls' :
        /\ n + 6 <= Len(controls')
        /\ \A j \in 1..7 : controls'[n - 1 + j] = Released(p)[j]
  <2>1. k - 6 \in DOMAIN controls' /\ k - 6 + 6 <= Len(controls')
    BY <1>1, <1>3, <1>5
  <2>2. \A j \in 1..7 : (k - 6) - 1 + j = k - 7 + j
    BY <1>5
  <2>3. \A j \in 1..7 : controls'[(k - 6) - 1 + j] = Released(p)[j]
    BY <1>3, <2>2
  <2>4. QED
    BY <2>1, <2>3
<1>9. QED
  BY <1>6, <1>7, <1>8 DEF CompletedFits

LEMMA ReportStep ==
  ASSUME ReleaseInv, NEW c \in Controllers, Report(c)
  PROVE  ReleaseInv'
<1> DEFINE p == Mine(c)
           x == [controller[c] EXCEPT !.at = "ended"]
<1>1. /\ StandsAt(c, "report")
      /\ controller' = [controller EXCEPT ![c].at = "ended"]
      /\ UNCHANGED <<hosting, schema, controls, turns>>
  BY DEF Report, azure, hosted
<1>2. ReleaseTypes /\ p \in ReleasePackages
  BY <1>1, NamedSteps, MineIsPackage DEF ReleaseInv, StandsAt
<1>3. PICK r :
        /\ terminal' = [terminal EXCEPT ![p] = r]
        /\ r.status # "none"
        /\ r.status = "completed" => controller[c].failed = "none"
  <2> DEFINE first == [status |-> IF controller[c].failed = "none"
                                   THEN "completed" ELSE "failed",
                       failed |-> controller[c].failed]
             second == {[status |-> "failed", failed |-> "factory"], [status |-> "torn"]}
  <2>1. \E r \in {first} \cup second : terminal' = [terminal EXCEPT ![p] = r]
    BY DEF Report
  <2>2. first.status # "none"
        /\ (first.status = "completed" => controller[c].failed = "none")
    OBVIOUS
  <2>3. \A r \in second : r.status # "none" /\ r.status # "completed"
    OBVIOUS
  <2> HIDE DEF first, second
  <2>4. QED
    BY <2>1, <2>2, <2>3
<1>4. /\ DOMAIN terminal' = ReleasePackages /\ terminal'[p] = r
      /\ \A q \in ReleasePackages \ {p} : terminal'[q] = terminal[q]
  BY <1>2, <1>3 DEF ReleaseTypes
<1>5. /\ x \in Process /\ Becomes(c, x) /\ x.at = "ended" /\ x.package = p
      /\ x.marker = controller[c].marker
  BY <1>1, <1>2, EndedFields
<1> HIDE DEF x
<1>6. HostingFits' /\ hosting' \in [latest : Revisions, ready : Revisions]
  BY <1>1, <1>5, HostingStays
<1>7. Grows
  BY <1>1, <1>2 DEF Grows, ReleaseTypes
<1>8. ReleaseTypes'
  BY <1>1, <1>2, <1>4, <1>5 DEF ReleaseTypes, Becomes
<1>9. \A d \in Controllers : Mine(d)' = Mine(d)
  BY <1>5 DEF Becomes, Mine
<1>10. RunOnce'
  BY <1>9 DEF ReleaseInv, RunOnce
<1>11. ASSUME NEW d \in Controllers PROVE ProcessFits(d)'
  <2>1. CASE d = c
    <3>1. ControlFits(c)' /\ TurnsFit(c)' /\ MarkerFits(c)'
      BY <1>5, EndedFits DEF Becomes
    <3>2. PackageFitsProcess(c)'
      BY <1>2, <1>3, <1>4, <1>5, <1>9, ReleaseNames
         DEF PackageFitsProcess, StandsAt, Becomes
    <3>3. QED
      BY <2>1, <3>1, <3>2 DEF ProcessFits
  <2>2. CASE d # c
    <3>1. PackageFitsProcess(d) /\ controller[d] \in Process
      BY DEF ReleaseInv, ReleaseTypes, ProcessFits
    <3>2. Mine(d) # NoPackage => Mine(d) \in ReleasePackages \ {p}
      BY <2>2, <3>1 DEF ReleaseInv, RunOnce, Mine, Process
    <3>3. Mine(d) # NoPackage => terminal'[Mine(d)].status # "none"
      BY <1>4, <3>1, <3>2 DEF PackageFitsProcess
    <3>4. TurnsOf(Mine(d))' = TurnsOf(Mine(d))
      BY <1>1, <1>9 DEF TurnsOf
    <3>5. controller'[d] = controller[d]
      BY <1>5, <2>2 DEF Becomes
    <3>6. QED
      BY <1>7, <1>8, <3>3, <3>4, <3>5, OthersFit
  <2>3. QED
    BY <2>1, <2>2
<1>12. ASSUME NEW q \in ReleasePackages PROVE CompletedFits(q)' /\ NoTurnsYet(q)'
  <2>1. CASE q = p
    <3>1. NoTurnsYet(p)'
      BY <1>3, <1>4, <1>9 DEF NoTurnsYet
    <3>2. CASE r.status = "completed"
      <4>1. CompletedFits(p)'
        BY <1>1, <1>3, <1>5, <3>2, ReceiptIsEarned
      <4>2. QED
        BY <1>9, <2>1, <3>1, <4>1
    <3>3. CASE r.status # "completed"
      BY <1>4, <1>9, <2>1, <3>1, <3>3 DEF CompletedFits
    <3>4. QED
      BY <3>2, <3>3
  <2>2. CASE q # p
    <3>1. terminal'[q] = terminal[q] /\ TurnsOf(q)' = TurnsOf(q)
      BY <1>1, <1>4, <2>2 DEF TurnsOf
    <3>2. \A d \in Controllers : StandsAt(d, "ended") => controller'[d] = controller[d]
      BY <1>1, <1>5 DEF StandsAt, Becomes
    <3>3. QED
      BY <1>7, <1>8, <3>1, <3>2, ReceiptFitsOn
  <2>3. QED
    BY <2>1, <2>2
<1>13. QED
  BY <1>6, <1>8, <1>10, <1>11, <1>12 DEF ReleaseInv

LEMMA ReserveReceiptStep ==
  ASSUME ReleaseInv, NEW c \in Controllers, NEW p \in ReleasePackages,
         ReserveReceipt(c, p)
  PROVE  ReleaseInv'
<1> DEFINE x == [controller[c] EXCEPT !.at = "revalidate", !.package = p]
<1> USE NamedSteps
<1>1. /\ StandsAt(c, "idle") /\ terminal[p].status = "none"
      /\ controller' = [controller EXCEPT ![c] = x]
      /\ terminal' = [terminal EXCEPT ![p] = [status |-> "started"]]
      /\ UNCHANGED <<hosting, schema, controls, turns>>
  <2>1. Steps[1] = "revalidate"
    BY DEF Steps
  <2>2. QED
    BY <2>1 DEF ReserveReceipt, Reserved, azure, hosted
<1>2. ReleaseTypes /\ ProcessFits(c) /\ controller[c] \in Process /\ p # NoPackage
  BY ReleaseNames DEF ReleaseInv, ReleaseTypes
<1>3. Mine(c) = NoPackage /\ controller[c].failed = "none"
  BY <1>1, <1>2 DEF ProcessFits, PackageFitsProcess, StandsAt
<1>4. /\ x \in Process /\ x.at = "revalidate" /\ x.package = p /\ x.failed = "none"
  BY <1>2, <1>3 DEF Process
<1> HIDE DEF x
<1>5. Becomes(c, x)
  BY <1>1, <1>2, <1>4, Becoming
<1>6. /\ DOMAIN terminal' = ReleasePackages /\ terminal'[p].status = "started"
      /\ \A q \in ReleasePackages \ {p} : terminal'[q] = terminal[q]
  BY <1>1, <1>2 DEF ReleaseTypes
<1>7. /\ Mine(c)' = p /\ controller'[c] = x
      /\ \A d \in Controllers \ {c} : Mine(d)' = Mine(d) /\ controller'[d] = controller[d]
  BY <1>4, <1>5 DEF Becomes, Mine
<1>8. \A d \in Controllers : Mine(d) # p
  BY <1>1, <1>2 DEF ReleaseInv, ProcessFits, PackageFitsProcess
<1>9. RunOnce'
  BY <1>7, <1>8 DEF ReleaseInv, RunOnce
<1>10. HostingFits' /\ hosting' \in [latest : Revisions, ready : Revisions]
  BY <1>1, <1>4, <1>5, HostingStays
<1>11. Grows
  BY <1>1, <1>2 DEF Grows, ReleaseTypes
<1>12. ReleaseTypes'
  BY <1>1, <1>2, <1>5, <1>6 DEF ReleaseTypes, Becomes
<1>13. ASSUME NEW d \in Controllers PROVE ProcessFits(d)'
  <2>1. CASE d = c
    <3>1. PackageFitsProcess(c)'
      BY <1>2, <1>4, <1>6, <1>7 DEF PackageFitsProcess, StandsAt
    <3>2. ControlFits(c)' /\ MarkerFits(c)'
      BY <1>4, <1>7, MadeFacts DEF ControlFits, MarkerFits, Succeeding, StandsAt
    <3>3. TurnsOf(p) = {}
      BY <1>1 DEF ReleaseInv, NoTurnsYet
    <3>4. TurnsOf(Mine(c))' = {}
      BY <1>1, <1>7, <3>3 DEF TurnsOf
    <3>5. TurnsFit(c)'
      BY <1>4, <1>7, <3>4 DEF TurnsFit, AfterAsking
    <3>6. QED
      BY <2>1, <3>1, <3>2, <3>5 DEF ProcessFits
  <2>2. CASE d # c
    <3>1. PackageFitsProcess(d) /\ controller[d] \in Process
      BY DEF ReleaseInv, ReleaseTypes, ProcessFits
    <3>2. Mine(d) # NoPackage => Mine(d) \in ReleasePackages \ {p}
      BY <1>8, <3>1 DEF Mine, Process
    <3>3. Mine(d) # NoPackage => terminal'[Mine(d)].status # "none"
      BY <1>6, <3>1, <3>2 DEF PackageFitsProcess
    <3>4. TurnsOf(Mine(d))' = TurnsOf(Mine(d)) /\ controller'[d] = controller[d]
      BY <1>1, <1>7, <2>2 DEF TurnsOf
    <3>5. QED
      BY <1>11, <1>12, <3>3, <3>4, OthersFit
  <2>3. QED
    BY <2>1, <2>2
<1>14. ASSUME NEW q \in ReleasePackages PROVE CompletedFits(q)' /\ NoTurnsYet(q)'
  <2>1. CASE q = p
    BY <1>6, <2>1 DEF CompletedFits, NoTurnsYet
  <2>2. CASE q # p
    <3>1. terminal'[q] = terminal[q] /\ TurnsOf(q)' = TurnsOf(q)
      BY <1>1, <1>6, <2>2 DEF TurnsOf
    <3>2. \A d \in Controllers : StandsAt(d, "ended") => controller'[d] = controller[d]
      BY <1>1, <1>7 DEF StandsAt
    <3>3. QED
      BY <1>11, <1>12, <3>1, <3>2, ReceiptFitsOn
  <2>3. QED
    BY <2>1, <2>2
<1>15. QED
  BY <1>9, <1>10, <1>12, <1>13, <1>14 DEF ReleaseInv

\* What happens outside of the processes.
LEMMA OutsideStep ==
  ASSUME ReleaseInv, HostingFits', Grows, controls' \in Seq(Row),
         hosting' \in [latest : Revisions, ready : Revisions],
         UNCHANGED <<turns, controller, terminal>>
  PROVE  ReleaseInv'
<1>1. ReleaseTypes'
  <2>1. Len(controls') > 0
    BY DEF ReleaseInv, ReleaseTypes, Grows
  <2>2. QED
    BY <2>1 DEF ReleaseInv, ReleaseTypes
<1>2. RunOnce'
  BY DEF ReleaseInv, RunOnce, Mine
<1>3. \A d \in Controllers : Mine(d)' = Mine(d) /\ TurnsOf(Mine(d))' = TurnsOf(Mine(d))
  BY DEF Mine, TurnsOf
<1>4. ASSUME NEW d \in Controllers PROVE ProcessFits(d)'
  <2>1. PackageFitsProcess(d)
    BY DEF ReleaseInv, ProcessFits
  <2>2. Mine(d) # NoPackage => terminal'[Mine(d)].status # "none"
    BY <2>1 DEF PackageFitsProcess
  <2>3. QED
    BY <1>1, <1>3, <2>2, OthersFit
<1>5. \A p \in ReleasePackages : TurnsOf(p)' = TurnsOf(p)
  BY DEF TurnsOf
<1>6. \A p \in ReleasePackages : CompletedFits(p)' /\ NoTurnsYet(p)'
  BY <1>1, <1>5, ReceiptFitsOn
<1>7. QED
  BY <1>1, <1>2, <1>4, <1>6 DEF ReleaseInv

LEMMA CandidateReadyStep ==
  ASSUME ReleaseInv, CandidateReady
  PROVE  ReleaseInv'
<1>1. /\ hosting' = [hosting EXCEPT !.ready = hosting.latest]
      /\ UNCHANGED <<schema, controls, turns, controller, terminal>>
  BY DEF CandidateReady, hosted
<1>2. hosting \in [latest : Revisions, ready : Revisions] /\ HostingFits
  BY DEF ReleaseInv, ReleaseTypes
<1>3. hosting' \in [latest : Revisions, ready : Revisions]
      /\ hosting'.latest = hosting.latest /\ hosting'.ready = hosting.latest
  BY <1>1, <1>2
<1>4. HostingFits'
  BY <1>1, <1>2, <1>3 DEF HostingFits, OldRevisionIsRetired, StandsAt
<1>5. Grows /\ controls' \in Seq(Row)
  BY <1>1, Unmoved DEF ReleaseInv, ReleaseTypes, Grows
<1>6. QED
  BY <1>1, <1>3, <1>4, <1>5, OutsideStep

LEMMA InterveneStep ==
  ASSUME ReleaseInv, NEW row \in Interventions, Intervene(row)
  PROVE  ReleaseInv'
<1>1. /\ controls' = Append(controls, row)
      /\ UNCHANGED <<hosting, schema, turns, controller, terminal>>
  BY DEF Intervene, azure
<1>2. InForce \in Row
  BY DEF ReleaseInv, ReleaseTypes, InForce, Last
<1>3. row \in Row
  <2>1. InForce.key \in ReleaseKeys /\ InForce.operator \in BOOLEAN /\ InForce.demo \in BOOLEAN
    BY <1>2 DEF Row
  <2>2. \A key \in ReleaseKeys : \A a, b \in BOOLEAN :
          ControlRow("administrator", key, <<a, b>>) \in Row
    BY DEF ControlRow, Row
  <2>3. CASE row = ControlRow("administrator", "other", <<InForce.operator, InForce.demo>>)
    BY <2>1, <2>2, <2>3 DEF ReleaseKeys
  <2>4. CASE \E channels \in BOOLEAN \X BOOLEAN :
               row = ControlRow("administrator", InForce.key, channels)
    <3>1. PICK a \in BOOLEAN, b \in BOOLEAN :
                 row = ControlRow("administrator", InForce.key, <<a, b>>)
      BY <2>4
    <3>2. QED
      BY <2>1, <2>2, <3>1
  <2>5. QED
    BY <2>3, <2>4 DEF Interventions
<1>4. Grows /\ controls' \in Seq(Row)
  BY <1>1, <1>3, Growing DEF ReleaseInv
<1>5. HostingFits'
  BY <1>1 DEF ReleaseInv, HostingFits, OldRevisionIsRetired, StandsAt
<1>6. QED
  BY <1>1, <1>4, <1>5, OutsideStep DEF ReleaseInv, ReleaseTypes

LEMMA ReleaseStep == ReleaseInv /\ [AdminNext]_adminVars => ReleaseInv'
<1> SUFFICES ASSUME ReleaseInv, [AdminNext]_adminVars PROVE ReleaseInv'
  OBVIOUS
<1>1. ASSUME UNCHANGED <<hosting, schema, controls, turns, controller, terminal>>
      PROVE  ReleaseInv'
  <2>1. Grows /\ controls' \in Seq(Row) /\ HostingFits'
        /\ hosting' \in [latest : Revisions, ready : Revisions]
    BY <1>1
       DEF ReleaseInv, ReleaseTypes, Grows, HostingFits, OldRevisionIsRetired, StandsAt
  <2>2. QED
    BY <1>1, <2>1, OutsideStep
<1>2. ASSUME NEW p \in ReleasePackages, WritePackage(p) PROVE ReleaseInv'
  BY <1>1, <1>2 DEF WritePackage, azure, hosted
<1>3. ASSUME NEW c \in Controllers, NEW p \in ReleasePackages, ReserveReceipt(c, p)
      PROVE  ReleaseInv'
  BY <1>3, ReserveReceiptStep
<1>4. ASSUME NEW c \in Controllers,
             \/ RevalidateBaseline(c) \/ Publish(c) \/ ReconcileAccess(c)
             \/ PatchCandidate(c) \/ ReconcileCandidate(c) \/ Migrate(c)
      PROVE  ReleaseInv'
  BY <1>4, PreparingSteps
<1>5. ASSUME NEW c \in Controllers,
             \/ VerifyDisabled(c) \/ RotateKey(c) \/ SwitchChannels(c)
             \/ Ask(c, "operator") \/ Ask(c, "demo")
      PROVE  ReleaseInv'
  BY <1>5, VerifyDisabledStep, RotateKeyStep, SwitchChannelsStep, AskStep
<1>6. ASSUME NEW c \in Controllers,
             \/ RejectCandidate(c) \/ ReadControlBack(c) \/ ScanLogs(c)
             \/ Report(c) \/ ControllerDies(c)
      PROVE  ReleaseInv'
  BY <1>6, CheckingSteps, ReportStep, ControllerDiesStep
<1>7. ASSUME CandidateReady PROVE ReleaseInv'
  BY <1>7, CandidateReadyStep
<1>8. ASSUME NEW row \in Interventions, Intervene(row) PROVE ReleaseInv'
  BY <1>8, InterveneStep
<1>9. ASSUME UNCHANGED adminVars PROVE ReleaseInv'
  BY <1>1, <1>9 DEF adminVars, azure, hosted
<1>10. QED
  BY <1>2, <1>3, <1>4, <1>5, <1>6, <1>7, <1>8, <1>9 DEF AdminNext

LEMMA ReleaseStarts == AdminInit => ReleaseInv
<1> SUFFICES ASSUME AdminInit PROVE ReleaseInv
  OBVIOUS
<1>1. \A c \in Controllers : controller[c] = NotStarted
  BY DEF AdminInit
<1>2. /\ NotStarted \in Process /\ NotStarted.at = "idle"
      /\ NotStarted.package = NoPackage /\ NotStarted.failed = "none"
  BY DEF NotStarted, Process, Revisions
<1>3. ReleaseTypes
  <2>1. ControlRow("migration", "none", <<FALSE, FALSE>>) \in Row
    BY DEF ControlRow, Row, ReleaseKeys
  <2>2. controls \in Seq(Row) /\ Len(controls) > 0
    <3>1. \A row \in Row : <<row>> \in Seq(Row) /\ Len(<<row>>) = 1
      OBVIOUS
    <3>2. controls = <<ControlRow("migration", "none", <<FALSE, FALSE>>)>>
      BY DEF AdminInit
    <3>3. QED
      BY <2>1, <3>1, <3>2
  <2>3. controller \in [Controllers -> Process]
    BY <1>2 DEF AdminInit
  <2>4. QED
    BY <2>2, <2>3 DEF AdminInit, ReleaseTypes, Revisions
<1>4. HostingFits
  BY <1>1, <1>2 DEF AdminInit, HostingFits, OldRevisionIsRetired, StandsAt
<1>5. RunOnce
  BY <1>1, <1>2 DEF RunOnce, Mine
<1>6. ASSUME NEW c \in Controllers PROVE ProcessFits(c)
  <2>1. PackageFitsProcess(c)
    BY <1>1, <1>2 DEF PackageFitsProcess, StandsAt, Mine
  <2>2. ControlFits(c) /\ TurnsFit(c) /\ MarkerFits(c)
    BY <1>1, <1>2, NamedSteps, MadeFacts
       DEF ControlFits, TurnsFit, MarkerFits, Succeeding, StandsAt, AfterAsking
  <2>3. QED
    BY <2>1, <2>2 DEF ProcessFits
<1>7. \A p \in ReleasePackages : CompletedFits(p) /\ NoTurnsYet(p)
  BY DEF AdminInit, CompletedFits, NoTurnsYet, TurnsOf
<1>8. QED
  BY <1>3, <1>4, <1>5, <1>6, <1>7 DEF ReleaseInv

\* The invariant of the release holds in every state, for any number of processes and
\* of packages, of interventions and of faults.
THEOREM ReleaseInvariant == AdminSpec => []ReleaseInv
<1>1. AdminInit => ReleaseInv
  BY ReleaseStarts
<1>2. ReleaseInv /\ [AdminNext]_adminVars => ReleaseInv'
  BY ReleaseStep
<1>3. QED
  BY <1>1, <1>2, PTL DEF AdminSpec

\* What a receipt of run_admin_ai_release vouches for: completed says that the control
\* has the seven changes of the release one after the other, that both questions were
\* answered with its key and that its own revision was asked at the end; a package is
\* run by one process; and the migrated database is never served by the old revision.
THEOREM ReceiptsAreEarned == AdminSpec => []AdminReleasesHold
<1>1. ReleaseInv => AdminReleasesHold
  <2> SUFFICES ASSUME ReleaseInv PROVE AdminReleasesHold
    OBVIOUS
  <2>1. RunOnce /\ OldRevisionIsRetired
    BY DEF ReleaseInv, HostingFits
  <2>2. ASSUME NEW p \in ReleasePackages, terminal[p].status = "completed"
        PROVE  /\ \E n \in DOMAIN controls :
                    n + 6 <= Len(controls) /\ SubSeq(controls, n, n + 6) = Released(p)
               /\ {t \in turns : t.package = p} =
                    {[package |-> p, actor |-> a, key |-> p] : a \in {"operator", "demo"}}
               /\ \E c \in Controllers : Mine(c) = p /\ controller[c].marker = p
    <3>1. CompletedFits(p) /\ controls \in Seq(Row)
      BY DEF ReleaseInv, ReleaseTypes
    <3>2. PICK n \in DOMAIN controls :
                 /\ n + 6 <= Len(controls)
                 /\ \A j \in 1..7 : controls[n - 1 + j] = Released(p)[j]
      BY <2>2, <3>1 DEF CompletedFits
    <3>3. SubSeq(controls, n, n + 6) = Released(p)
      <4>1. n \in Nat /\ n >= 1 /\ Len(controls) \in Nat
        BY <3>1, <3>2
      <4>2. n + 6 \in Int /\ \A i \in n..(n + 6) : controls[i] \in Row
        <5>1. \A i \in n..(n + 6) : i \in 1..Len(controls)
          BY <3>2, <4>1
        <5>2. QED
          BY <3>1, <4>1, <5>1
      <4>3. /\ SubSeq(controls, n, n + 6) \in Seq(Row)
            /\ Len(SubSeq(controls, n, n + 6)) = 7
            /\ \A i \in 1..7 : SubSeq(controls, n, n + 6)[i] = controls[n - 1 + i]
        <5>1. /\ SubSeq(controls, n, n + 6) \in Seq(Row)
              /\ Len(SubSeq(controls, n, n + 6))
                   = IF n <= n + 6 THEN (n + 6) - n + 1 ELSE 0
              /\ \A i \in 1..((n + 6) - n + 1) :
                   SubSeq(controls, n, n + 6)[i] = controls[n + i - 1]
          BY <4>1, <4>2, SubSeqProperties
        <5>2. n <= n + 6 /\ (n + 6) - n + 1 = 7
              /\ \A i \in 1..7 : n + i - 1 = n - 1 + i
          BY <4>1
        <5>3. QED
          BY <5>1, <5>2
      <4>4. SubSeq(controls, n, n + 6) = [i \in 1..7 |-> Released(p)[i]]
        <5> DEFINE sub == SubSeq(controls, n, n + 6)
        <5>1. sub \in Seq(Row) /\ Len(sub) = 7
              /\ \A i \in 1..7 : sub[i] = Released(p)[i]
          BY <3>2, <4>3
        <5> HIDE DEF sub
        <5>2. sub = [i \in 1..7 |-> sub[i]]
          BY <5>1
        <5>3. QED
          BY <5>1, <5>2 DEF sub
      <4>5. Released(p) = [i \in 1..7 |-> Released(p)[i]]
        BY DEF Released
      <4>6. QED
        BY <4>4, <4>5
    <3>4. {t \in turns : t.package = p} =
            {[package |-> p, actor |-> a, key |-> p] : a \in {"operator", "demo"}}
      BY <2>2, <3>1 DEF CompletedFits, TurnsOf, BothTurns, TurnBy
    <3>5. \E c \in Controllers : Mine(c) = p /\ controller[c].marker = p
      BY <2>2, <3>1 DEF CompletedFits
    <3>6. QED
      BY <3>2, <3>3, <3>4, <3>5
  <2>3. CompletedIsProven
    BY <2>2 DEF CompletedIsProven
  <2>4. QED
    BY <2>1, <2>3 DEF AdminReleasesHold
<1>2. QED
  BY <1>1, ReleaseInvariant, PTL
=============================================================================
