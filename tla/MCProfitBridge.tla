--------------------------- MODULE MCProfitBridge ---------------------------
(***************************************************************************)
(* Two SKUs that sell one unit, or are listed and sell none.               *)
(***************************************************************************)
EXTENDS ProfitBridge

MCLines ==
  {[units |-> 1, revenue |-> 1, cogs |-> 0, shipped |-> 1],
   [units |-> 0, revenue |-> 0, cogs |-> 0, shipped |-> 0]}
=============================================================================
