----------------------------- MODULE ChatSlots ------------------------------
(***************************************************************************)
(* What Ask BizPulse promises about turns, whatever the requests, the      *)
(* leases and the sessions do: a turn is open, then closed for good; at    *)
(* most Slots turns are open at a time and at most one per session; a turn *)
(* disappears only together with others of its session.  Module AIChat     *)
(* implements this specification.                                          *)
(***************************************************************************)
EXTENDS Naturals, FiniteSets

CONSTANTS
  Turns,      \* ids of the turns that may be asked for
  SessionOf,  \* the session of each turn
  Slots       \* how many turns may be open at a time, a natural number

VARIABLE phase   \* "absent", "open" or "closed" for each turn

Phases == {"absent", "open", "closed"}

Open == {t \in Turns : phase[t] = "open"}

Init == phase = [t \in Turns |-> "absent"]

\* Some open turns are closed: their worker is done, or their lease ran out.
Close(done) ==
  /\ done \subseteq Open
  /\ phase' = [t \in Turns |-> IF t \in done THEN "closed" ELSE phase[t]]

\* A turn is opened, after the closing of some others.
Admit(done, new) ==
  /\ done \subseteq Open
  /\ phase[new] = "absent"
  /\ Cardinality(Open \ done) < Slots
  /\ \A t \in Open \ done : SessionOf[t] # SessionOf[new]
  /\ phase' = [t \in Turns |-> IF t = new THEN "open"
                               ELSE IF t \in done THEN "closed"
                               ELSE phase[t]]

\* Turns of one session are deleted.
Forget(gone) ==
  /\ \A t, u \in gone : SessionOf[t] = SessionOf[u]
  /\ phase' = [t \in Turns |-> IF t \in gone THEN "absent" ELSE phase[t]]

Next ==
  \E set \in SUBSET Turns :
    \/ Close(set)
    \/ Forget(set)
    \/ \E new \in Turns : Admit(set, new)

Spec == Init /\ [][Next]_phase

-----------------------------------------------------------------------------
\* Never more open turns than slots.
SlotsRespected == IsFiniteSet(Open) /\ Cardinality(Open) <= Slots

\* Two open turns are of different sessions.
OneOpenPerSession ==
  \A t, u \in Open : SessionOf[t] = SessionOf[u] => t = u
=============================================================================
