--------------------------- MODULE DatasetHistory ---------------------------
(***************************************************************************)
(* What an import promises about the dataset, whatever the requests, the   *)
(* failures and the maintenance job do: the versions form one chain that   *)
(* only grows; a workflow adds at most one version; a version holds what   *)
(* the one before it held and what its workflow added, and no two versions *)
(* hold the same.  Module ImportWorkflow implements this specification.    *)
(***************************************************************************)
EXTENDS Naturals, Sequences

CONSTANTS
  Sources,  \* workflows that may add a version
  Records   \* what a version may hold

VARIABLE history   \* the versions, oldest first: source and content

Content(n) == IF n = 0 THEN {} ELSE history[n].content
Latest == Content(Len(history))

Init == history = <<>>

Extend(source, added) ==
  /\ \A n \in DOMAIN history : /\ history[n].source # source
                               /\ history[n].content # Latest \cup added
  /\ added # {}
  /\ history' = Append(history, [source |-> source,
                                 content |-> Latest \cup added])

Next == \E source \in Sources, added \in SUBSET Records : Extend(source, added)

Spec == Init /\ [][Next]_history

-----------------------------------------------------------------------------
\* Nothing is lost from one version to the next, and something is gained.
Grows ==
  \A m, n \in DOMAIN history :
    m < n => /\ history[m].content \subseteq history[n].content
             /\ history[m].content # history[n].content

\* A workflow has at most one version.
OncePerSource ==
  \A m, n \in DOMAIN history : history[m].source = history[n].source => m = n
=============================================================================
