--------------------------- MODULE AdminAIRelease ---------------------------
(***************************************************************************)
(* The one-shot release of the administrator's control of the AI:          *)
(* create_admin_ai_release_package writes down what is deployed, and       *)
(* run_admin_ai_release takes that package through nine states, once.  The *)
(* controller looks at what is deployed again, publishes the image, takes  *)
(* the old role away, brings the candidate revision up, migrates, and then *)
(* works like an administrator: it rotates the key, switches the channels, *)
(* asks a question in each, and tries a key that is not one.               *)
(*                                                                         *)
(* It never retries and never undoes: a failure is written in the receipt  *)
(* and the candidate revision stays.  Every call may take effect although  *)
(* it is reported as failed; a package may be run by two processes, two    *)
(* packages at once, and another administrator may use the page meanwhile. *)
(*                                                                         *)
(* A revision, and a candidate key, has the name of its package.  Files    *)
(* that are compared with each other (source, artifact, factory), approval *)
(* and expiry only keep a package from being started, and are left out.    *)
(***************************************************************************)
EXTENDS Naturals, Sequences, FiniteSets, SequencesExt

CONSTANTS
  Controllers,       \* processes of run_admin_ai_release
  ReleasePackages,   \* packages that may be written
  Base,              \* the revision that is deployed at first
  NoPackage,         \* not written, or not run
  MaxInterventions,  \* bound: changes of another administrator
  MaxAdminFaults     \* bound: failed calls and deaths of a process

ASSUME ReleaseNames == {Base, NoPackage} \cap ReleasePackages = {}
ASSUME AdminBounds == {MaxInterventions, MaxAdminFaults} \subseteq Nat

VARIABLES
  hosting,     \* the Container App: its latest and its latest ready revision
  access,      \* role_assignment_phase of its identity
  schema,      \* of the database, before or after the migration
  imaged,      \* the candidate image is in the registry
  controls,    \* ai_control_state, one row after the other; a revision is an index
  turns,       \* answered turns, with the key each was bound to
  approved,    \* packages: what was observed, and the digest of it
  controller,  \* local state of each process
  terminal,    \* receipts
  adminFaults  \* bound: faults so far

azure == <<hosting, access, schema, imaged>>
hosted == <<controls, turns>>
adminVars == <<azure, hosted, approved, controller, terminal, adminFaults>>

\* ADMIN_AI_RELEASE_STATES, each by the calls that change something.
Steps ==
  <<"revalidate", "publish", "access", "patch", "reconcile", "migrate", "disabled",
    "rotate", "operator_on", "operator_asks", "both_on", "demo_asks", "operator_off",
    "operator_back", "demo_off", "demo_back", "reject", "read_back", "scan", "report">>

\* The channels after each of the mutations, operator and demo.
Channels ==
  [operator_on |-> <<TRUE, FALSE>>, both_on |-> <<TRUE, TRUE>>,
   operator_off |-> <<FALSE, TRUE>>, operator_back |-> <<TRUE, TRUE>>,
   demo_off |-> <<TRUE, FALSE>>, demo_back |-> <<TRUE, TRUE>>]

NotStarted ==
  [at |-> "idle", package |-> NoPackage, known |-> 0, marker |-> Base,
   failed |-> "none"]

ControlRow(by, key, channels) ==
  [by |-> by, key |-> key, operator |-> channels[1], demo |-> channels[2]]

AdminInit ==
  /\ hosting = [latest |-> Base, ready |-> Base]
  /\ access \in {"legacy_only", "officer_only"}
  /\ schema = "prior"
  /\ imaged = FALSE
  /\ controls = <<ControlRow("migration", "none", <<FALSE, FALSE>>)>>
  /\ turns = {}
  /\ approved = [p \in ReleasePackages |-> NoPackage]
  /\ controller = [c \in Controllers |-> NotStarted]
  /\ terminal = [p \in ReleasePackages |-> [status |-> "none"]]
  /\ adminFaults = 0

AdminFault == adminFaults < MaxAdminFaults /\ adminFaults' = adminFaults + 1

-----------------------------------------------------------------------------
(***************************************************************************)
(* The package                                                             *)
(***************************************************************************)
\* What the twelve reads and the readiness say.
Observation == [reads |-> <<hosting, access>>, readiness |-> schema]

\* collect_current_azure_baseline digests all of it, and _readonly_revalidation only the
\* reads, so that what it writes stops at the first state; a package like those of the
\* tests, which digest the reads themselves, shows what comes after.
Digests(o) == {<<o.reads, o.readiness>>, <<o.reads>>}
DigestAgain(o) == <<o.reads>>

WritePackage(p) ==
  /\ approved[p] = NoPackage
  /\ hosting = [latest |-> Base, ready |-> Base] /\ schema = "prior"
  /\ \E digest \in Digests(Observation) :
       approved' = [approved EXCEPT ![p] = [seen |-> Observation, digest |-> digest]]
  /\ UNCHANGED <<azure, hosted, controller, terminal, adminFaults>>

-----------------------------------------------------------------------------
(***************************************************************************)
(* The controller                                                          *)
(***************************************************************************)
StandsAt(c, step) == controller[c].at = step
Mine(c) == controller[c].package
Following(step) == Steps[1 + CHOOSE n \in DOMAIN Steps : Steps[n] = step]

Moved(c) == [controller[c] EXCEPT !.at = Following(@)]
Pass(c) == controller' = [controller EXCEPT ![c] = Moved(c)]
\* The receipt names the state that failed.
Fail(c) == controller' = [controller EXCEPT ![c].at = "report", ![c].failed = controller[c].at]

\* The receipt is created exclusively: a package is run once, whatever comes of it.
Reserved(p) == terminal[p].status = "none"

ReserveReceipt(c, p) ==
  /\ StandsAt(c, "idle")
  /\ approved[p] # NoPackage /\ Reserved(p)
  /\ controller' = [controller EXCEPT ![c].at = Steps[1], ![c].package = p]
  /\ terminal' = [terminal EXCEPT ![p] = [status |-> "started"]]
  /\ UNCHANGED <<azure, hosted, approved, adminFaults>>

RevalidateBaseline(c) ==
  /\ StandsAt(c, "revalidate")
  /\ LET package == approved[Mine(c)] IN
     \/ /\ IF /\ DigestAgain(Observation) = package.digest
              /\ schema = package.seen.readiness
           THEN Pass(c) ELSE Fail(c)
        /\ UNCHANGED adminFaults
     \/ AdminFault /\ Fail(c)
  /\ UNCHANGED <<azure, hosted, approved, terminal>>

Publish(c) ==
  /\ StandsAt(c, "publish")
  /\ \/ imaged' = TRUE /\ Pass(c) /\ UNCHANGED adminFaults
     \/ imaged' \in {imaged, TRUE} /\ AdminFault /\ Fail(c)
  /\ UNCHANGED <<hosting, access, schema, hosted, approved, terminal>>

\* The assignments have to be those of the package's phase before the old one is deleted.
ReconcileAccess(c) ==
  LET asApproved == approved[Mine(c)].seen.reads[2] = access IN
  /\ StandsAt(c, "access")
  /\ \/ asApproved /\ access' = "officer_only" /\ Pass(c) /\ UNCHANGED adminFaults
     \/ ~asApproved /\ Fail(c) /\ UNCHANGED <<access, adminFaults>>
     \/ access' \in {access, IF asApproved THEN "officer_only" ELSE access}
          /\ AdminFault /\ Fail(c)
  /\ UNCHANGED <<hosting, schema, imaged, hosted, approved, terminal>>

PatchCandidate(c) ==
  LET patched == [hosting EXCEPT !.latest = Mine(c)] IN
  /\ StandsAt(c, "patch")
  /\ \/ hosting' = patched /\ Pass(c) /\ UNCHANGED adminFaults
     \/ hosting' \in {hosting, patched} /\ AdminFault /\ Fail(c)
  /\ UNCHANGED <<access, schema, imaged, hosted, approved, terminal>>

\* reconcile_ai_transition waits for the candidate and gives up when it meets a third
\* revision, or the time is over.
CandidateServes(p) == hosting = [latest |-> p, ready |-> p]

ReconcileCandidate(c) ==
  /\ StandsAt(c, "reconcile")
  /\ \/ CandidateServes(Mine(c)) /\ Pass(c) /\ UNCHANGED adminFaults
     \/ ~({hosting.latest, hosting.ready} \subseteq {Base, Mine(c)})
          /\ Fail(c) /\ UNCHANGED adminFaults
     \/ AdminFault /\ Fail(c)
  /\ UNCHANGED <<azure, hosted, approved, terminal>>

\* The job may run although its end is not learned.
Migrate(c) ==
  /\ StandsAt(c, "migrate")
  /\ \/ schema' = "current" /\ Pass(c) /\ UNCHANGED adminFaults
     \/ schema' \in {schema, "current"} /\ AdminFault /\ Fail(c)
  /\ UNCHANGED <<hosting, access, imaged, hosted, approved, terminal>>

-----------------------------------------------------------------------------
(***************************************************************************)
(* The controller as an administrator                                      *)
(***************************************************************************)
Revision == Len(controls)
InForce == Last(controls)

\* The control is read here, and not again before the end.
VerifyDisabled(c) ==
  /\ StandsAt(c, "disabled")
  /\ \/ /\ IF schema = "current" /\ ~InForce.operator /\ ~InForce.demo
           THEN controller' = [controller EXCEPT ![c] = [Moved(c) EXCEPT !.known = Revision]]
           ELSE Fail(c)
        /\ UNCHANGED adminFaults
     \/ AdminFault /\ Fail(c)
  /\ UNCHANGED <<azure, hosted, approved, terminal>>

\* Each mutation names the revision that the last answer gave.
AsRemembered_Unchecked(c) == TRUE   \* mutant: the revision is not compared
AsRemembered(c) == controller[c].known = Revision

Mutate(c, row) ==
  /\ \/ /\ AsRemembered(c)
        /\ controls' = Append(controls, row)
        /\ controller' = [controller EXCEPT ![c] = [Moved(c) EXCEPT !.known = Revision + 1]]
        /\ UNCHANGED adminFaults
     \/ ~AsRemembered(c) /\ Fail(c) /\ UNCHANGED <<controls, adminFaults>>
     \/ /\ controls' \in {controls} \cup (IF AsRemembered(c) THEN {Append(controls, row)} ELSE {})
        /\ AdminFault /\ Fail(c)
  /\ UNCHANGED <<azure, turns, approved, terminal>>

RotateKey(c) ==
  /\ StandsAt(c, "rotate")
  /\ Mutate(c, [InForce EXCEPT !.by = Mine(c), !.key = Mine(c)])

SwitchChannels(c) ==
  /\ controller[c].at \in DOMAIN Channels
  /\ Mutate(c, ControlRow(Mine(c), InForce.key, Channels[controller[c].at]))

TurnOf(p, actor) == [package |-> p, actor |-> actor, key |-> InForce.key]

\* _audit_binding, and the fingerprint of the last mutation's answer.
SharedBinding(c, turn) ==
  /\ controls[controller[c].known].key = Mine(c)
  /\ \A t \in turns : t.package = Mine(c) => t.key = turn.key

\* A turn that was answered may not be learned of.
Ask(c, actor) ==
  LET turn == TurnOf(Mine(c), actor) IN
  /\ StandsAt(c, IF actor = "operator" THEN "operator_asks" ELSE "demo_asks")
  /\ \/ /\ InForce[actor]
        /\ turns' = turns \cup {turn}
        /\ IF SharedBinding(c, turn) THEN Pass(c) ELSE Fail(c)
        /\ UNCHANGED adminFaults
     \/ ~InForce[actor] /\ Fail(c) /\ UNCHANGED <<turns, adminFaults>>
     \/ /\ turns' \in {turns} \cup (IF InForce[actor] THEN {turns \cup {turn}} ELSE {})
        /\ AdminFault /\ Fail(c)
  /\ UNCHANGED <<azure, controls, approved, terminal>>

\* 422 for a candidate that is no key; 409, and the end, for another revision.
RejectCandidate(c) ==
  /\ StandsAt(c, "reject")
  /\ \/ /\ IF AsRemembered(c)
           THEN controller' = [controller EXCEPT ![c] = [Moved(c) EXCEPT !.marker = hosting.ready]]
           ELSE Fail(c)
        /\ UNCHANGED adminFaults
     \/ AdminFault /\ Fail(c)
  /\ UNCHANGED <<azure, hosted, approved, terminal>>

\* current == prior, and the audit events of its own requests.
ReadControlBack(c) ==
  /\ StandsAt(c, "read_back")
  /\ \/ (IF AsRemembered(c) THEN Pass(c) ELSE Fail(c)) /\ UNCHANGED adminFaults
     \/ AdminFault /\ Fail(c)
  /\ UNCHANGED <<azure, hosted, approved, terminal>>

\* The logs of the deployed revision have to show the rejected request.
MarkerObserved(c) == controller[c].marker = Mine(c)

ScanLogs(c) ==
  /\ StandsAt(c, "scan")
  /\ \/ (IF MarkerObserved(c) THEN Pass(c) ELSE Fail(c)) /\ UNCHANGED adminFaults
     \/ AdminFault /\ Fail(c)
  /\ UNCHANGED <<azure, hosted, approved, terminal>>

-----------------------------------------------------------------------------
(***************************************************************************)
(* The receipt                                                             *)
(***************************************************************************)
\* When its write fails, main writes it once more, as that of a failed construction of
\* the factory, whatever was done.
Report(c) ==
  LET failed == controller[c].failed
      receipt == [status |-> IF failed = "none" THEN "completed" ELSE "failed",
                  failed |-> failed]
  IN
  /\ StandsAt(c, "report")
  /\ \/ terminal' = [terminal EXCEPT ![Mine(c)] = receipt] /\ UNCHANGED adminFaults
     \/ /\ AdminFault
        /\ \E second \in {[status |-> "failed", failed |-> "factory"], [status |-> "torn"]} :
             terminal' = [terminal EXCEPT ![Mine(c)] = second]
  /\ controller' = [controller EXCEPT ![c].at = "ended"]
  /\ UNCHANGED <<azure, hosted, approved>>

ControllerDies(c) ==
  /\ controller[c].at \notin {"idle", "ended"}
  /\ AdminFault
  /\ controller' = [controller EXCEPT ![c].at = "ended"]
  /\ UNCHANGED <<azure, hosted, approved, terminal>>

-----------------------------------------------------------------------------
(***************************************************************************)
(* Azure, and another administrator                                        *)
(***************************************************************************)
CandidateReady ==
  /\ hosting.ready # hosting.latest /\ imaged
  /\ hosting' = [hosting EXCEPT !.ready = hosting.latest]
  /\ UNCHANGED <<access, schema, imaged, hosted, approved, controller, terminal, adminFaults>>

\* The page is there once the candidate serves the migrated database.
Intervene(row) ==
  /\ schema = "current" /\ hosting.ready # Base
  /\ Cardinality({n \in DOMAIN controls : controls[n].by = "administrator"}) < MaxInterventions
  /\ controls' = Append(controls, row)
  /\ UNCHANGED <<azure, turns, approved, controller, terminal, adminFaults>>

Interventions ==
  {ControlRow("administrator", "other", <<InForce.operator, InForce.demo>>)}
    \cup {ControlRow("administrator", InForce.key, channels) :
            channels \in (BOOLEAN \X BOOLEAN) \ {<<InForce.operator, InForce.demo>>}}

AdminNext ==
  \/ \E p \in ReleasePackages : WritePackage(p)
  \/ \E c \in Controllers, p \in ReleasePackages : ReserveReceipt(c, p)
  \/ \E c \in Controllers :
       \/ RevalidateBaseline(c) \/ Publish(c) \/ ReconcileAccess(c) \/ PatchCandidate(c)
       \/ ReconcileCandidate(c) \/ Migrate(c) \/ VerifyDisabled(c) \/ RotateKey(c)
       \/ SwitchChannels(c) \/ Ask(c, "operator") \/ Ask(c, "demo")
       \/ RejectCandidate(c) \/ ReadControlBack(c) \/ ScanLogs(c) \/ Report(c) \/ ControllerDies(c)
  \/ CandidateReady
  \/ \E row \in Interventions : Intervene(row)

AdminSpec == AdminInit /\ [][AdminNext]_adminVars
-----------------------------------------------------------------------------
(***************************************************************************)
(* Properties                                                              *)
(***************************************************************************)
\* The seven changes of a release: key, then channels.
Released(p) ==
  [n \in 1..7 |-> ControlRow(p, p,
     <<<<FALSE, FALSE>>, <<TRUE, FALSE>>, <<TRUE, TRUE>>, <<FALSE, TRUE>>, <<TRUE, TRUE>>,
       <<TRUE, FALSE>>, <<TRUE, TRUE>>>>[n])]

\* A completed receipt says that nobody else changed the control while the release did,
\* that both turns were answered with the key that it brought, and that its own
\* revision served it to the end.
CompletedIsProven ==
  \A p \in ReleasePackages : terminal[p].status = "completed" =>
    /\ \E n \in DOMAIN controls :
         n + 6 <= Len(controls) /\ SubSeq(controls, n, n + 6) = Released(p)
    /\ {t \in turns : t.package = p} =
         {[package |-> p, actor |-> a, key |-> p] : a \in {"operator", "demo"}}
    /\ \E c \in Controllers : Mine(c) = p /\ controller[c].marker = p

\* A package is run by one process.
RunOnce ==
  \A c, d \in Controllers : Mine(c) = Mine(d) /\ Mine(c) # NoPackage => c = d

\* schema_recovery_boundary: once the database is migrated, the old revision, which does
\* not know it, serves nobody.
OldRevisionIsRetired == schema = "current" => hosting.ready # Base

\* What a receipt of run_admin_ai_release vouches for.
AdminReleasesHold == CompletedIsProven /\ RunOnce /\ OldRevisionIsRetired
=============================================================================
