------------------------- MODULE MCOperatorRotation -------------------------
(***************************************************************************)
(* The smallest instance of OperatorRotation: one change of the password.  *)
(***************************************************************************)
EXTENDS OperatorRotation

CONSTANTS h1, h2
=============================================================================
