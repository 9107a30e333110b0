----------------------------- MODULE MCActions -----------------------------
(***************************************************************************)
(* Small instances of ActionCards and ActionExport for TLC, one or the     *)
(* other: an export begins when its card is approved, after which nothing  *)
(* of the card that an export reads changes (CardFollowsDecisions).        *)
(***************************************************************************)
EXTENDS ActionExport, ActionCards, TLC

CONSTANTS k1, k2, w1, w2, a1, a2, a3, s1, s2, v1

VARIABLE part

ActionsVars == <<vars, cardsVars, part>>

ActionsInit ==
  /\ Init /\ CardsInit
  /\ part \in {"cards", "exports"}
  /\ part = "cards" => ~maintained

ActionsNext ==
  /\ UNCHANGED part
  /\ \/ part = "exports" /\ Next /\ UNCHANGED cardsVars
     \/ part = "cards" /\ CardsNext /\ UNCHANGED vars

ActionsSpec == ActionsInit /\ [][ActionsNext]_ActionsVars

\* Viewers come to a card without faults, and no fault comes after them: a
\* viewer reads only what the operator's requests have committed.
ViewersOrFaults ==
  cardFaults = 0 \/ (now = 0 /\ \A v \in Viewers : viewer[v].status = "absent")

\* The keys of each part and the threads are interchangeable.
ActionsSymmetry ==
  UNION {Permutations(S) : S \in {Keys, Workers, CardKeys}}
=============================================================================
