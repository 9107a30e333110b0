\* One workflow with two files, two keys and two request threads, a file mapped at
\* most twice; or two workflows and one key: commits on the same base, on successive
\* bases and repeated after a failure.  One transaction or storage call fails, or a
\* process crashes.
SPECIFICATION Spec
CONSTANTS
  Workflows = {f1, f2}
  Files = {a, b}
  Keys = {k1, k2}
  Workers = {w1, w2}
  f1 = f1
  f2 = f2
  a = a
  b = b
  k1 = k1
  k2 = k2
  w1 = w1
  w2 = w2
  MaxMappings = 2
  MaxFaults = 1
  Maintained = TRUE
SYMMETRY Symmetric
INVARIANT CandidateFollowsMapping
INVARIANT ArtifactHasBlob
PROPERTY CommitTakesAllUploads
PROPERTY ImplementsHistory
CONSTRAINTS
  OneWorkflowOrOneKey
  JobOrOthers
CHECK_DEADLOCK FALSE
