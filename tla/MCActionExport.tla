--------------------------- MODULE MCActionExport ---------------------------
(***************************************************************************)
(* The smallest instance of ActionExport: one request and the job.         *)
(***************************************************************************)
EXTENDS ActionExport
=============================================================================
