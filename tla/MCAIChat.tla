------------------------------ MODULE MCAIChat ------------------------------
(***************************************************************************)
(* Small instances of AIChat.                                              *)
(***************************************************************************)
EXTENDS AIChat, TLC

CONSTANTS demo1, demo2, oper, k1, k2, typed, preset, w1, w2

\* Interchangeable request threads.
WorkerSymmetry == Permutations(Workers)

\* Someone asked, or asks, in one of these sessions.
AskedIn(some) ==
  \/ \E t \in TurnIds : t.s \in some /\ Exists(t)
  \/ \E w \in Workers : worker[w].s \in some

\* A viewer alone types a question: failures, a cleared chat, a new credential.
ViewerAlone ==
  /\ ~AskedIn(OperatorSessions)
  /\ \A s \in OperatorSessions : session[s].state = "live"

\* Viewer and operator contend for the slots, without failures.
SlotsShared ==
  /\ \A s \in Sessions : session[s].epoch = 0
  /\ faults = 0 /\ revision = 1 /\ Len(ledger) <= 2

AloneOrShared == ViewerAlone \/ SlotsShared
=============================================================================
