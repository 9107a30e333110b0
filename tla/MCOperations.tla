---------------------------- MODULE MCOperations ----------------------------
(***************************************************************************)
(* What operators and administrators change while the system runs: the     *)
(* credential control of the administrator's page, and the three           *)
(* procedures run by hand.  A behaviour is one of the four: they share no  *)
(* state, for the release sees the control only through the page.          *)
(***************************************************************************)
EXTENDS AIKeyControl, OperatorRotation, AIEnablement, AdminAIRelease, TLC

CONSTANTS h1, w1, w2, s1, s2, k1, k2

VARIABLE procedure

OperationsVars == <<vars, rotationVars, enablementVars, adminVars, procedure>>

OperationsInit ==
  /\ Init /\ RotationInit /\ EnablementInit /\ AdminInit
  /\ procedure \in {"control", "rotation", "enablement", "release"}
  \* what varies at the start varies only for the procedure that sees it
  /\ procedure # "enablement" => secret = "absent"
  /\ procedure # "release" => access = "officer_only"

OperationsNext ==
  /\ UNCHANGED procedure
  /\ \/ /\ procedure = "control"
        /\ Next
        /\ UNCHANGED <<rotationVars, enablementVars, adminVars>>
     \/ /\ procedure = "rotation"
        /\ RotationNext
        /\ UNCHANGED <<vars, enablementVars, adminVars>>
     \/ /\ procedure = "enablement"
        /\ EnablementNext
        /\ UNCHANGED <<vars, rotationVars, adminVars>>
     \/ /\ procedure = "release"
        /\ AdminNext
        /\ UNCHANGED <<vars, rotationVars, enablementVars>>

OperationsSpec == OperationsInit /\ [][OperationsNext]_OperationsVars

\* Threads, candidate keys and idempotency keys are interchangeable, and so are what
\* has the same names in another behaviour: the passwords that are not in force at the
\* start, the processes of a release and its packages.
OperationsSymmetry ==
  Permutations(Workers) \cup Permutations(Secrets) \cup Permutations(Keys)
=============================================================================
