-------------------------- MODULE MCImportWorkflow --------------------------
(***************************************************************************)
(* Small instances of ImportWorkflow for TLC.  Workflows, files and keys   *)
(* are interchangeable, and so are request threads.                        *)
(***************************************************************************)
EXTENDS ImportWorkflow, TLC

Symmetric ==
  Permutations(Workflows) \cup Permutations(Files) \cup Permutations(Keys)
    \cup Permutations(Workers)

\* bound: one upload at most is mapped twice, and then nothing fails; two workflows
\* share the store only while one key is in use and no upload is mapped twice.
Several(S) == Cardinality(S) > 1
KeysInUse ==
  {worker[w].k : w \in Workers} \cup {versions[n].k : n \in DOMAIN versions}
    \cup {u[2] : u \in {v \in UploadIds : upload[v].status # Absent}}
MappedTwice == {u \in UploadIds : upload[u].map > 1}

OneWorkflowOrOneKey ==
  IF Several({f \in Workflows : workflow[f].status # Absent})
  THEN ~Several(KeysInUse \ {NoId}) /\ MappedTwice = {}
  ELSE ~Several(MappedTwice) /\ (faults = 0 \/ MappedTwice = {})

\* bound: the job, and what it quarantines, meets one thread and one workflow of one
\* upload, while it is committed or after, and no failure but its own.
Scheduled(x) == x[1] = "final" /\ x \in expired
JobWasHere ==
  \/ job.pc # "idle"
  \/ \E x \in Objects :
       (x \in expired \/ row[x] = "quarantined") /\ ~Scheduled(x)
JobOrOthers ==
  JobWasHere =>
    /\ faults = 0
    /\ lock # NoWorker \/ versions # <<>>
    /\ ~Several({w \in Workers : worker[w].pc # "idle"})
    /\ ~Several({f \in Workflows : workflow[f].status # Absent})
    /\ ~Several({u \in UploadIds : upload[u].status # Absent})
    /\ MappedTwice = {}
=============================================================================
