----------------------------- MODULE MCAIBudget -----------------------------
(***************************************************************************)
(* What is counted over a time that other requests stamp: the attempts of  *)
(* the budget ledger, or the new sessions and failed logins of a source.   *)
(* A behaviour is one of the two, which share no state.  The calendar of   *)
(* AIBudget has days of two ticks and months of two days.                  *)
(***************************************************************************)
EXTENDS AIBudget, Visits, TLC

CONSTANTS v1, w1, w2, a1

VARIABLE counted

MCDayStart == [c \in Times |-> c - (c % 2)]
MCMonthStart == [c \in Times |-> c - (c % 4)]

LimitsVars == <<vars, visitsVars, counted>>

LimitsInit == Init /\ VisitsInit /\ counted \in {"attempts", "visits"}

LimitsNext ==
  /\ UNCHANGED counted
  /\ \/ counted = "attempts" /\ Next /\ UNCHANGED visitsVars
     \/ counted = "visits" /\ VisitsNext /\ UNCHANGED vars

LimitsSpec == LimitsInit /\ [][LimitsNext]_LimitsVars

Symmetry == Permutations(Workers)
=============================================================================
