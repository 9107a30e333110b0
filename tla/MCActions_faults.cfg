SPECIFICATION ActionsSpec
CONSTANTS
  Keys = {k1, k2}
  Workers = {w1, w2}
  k1 = k1
  k2 = k2
  w1 = w1
  w2 = w2
  MaxRequests = 2
  MaxFaults = 2
  CardKeys = {a1, a2, a3}
  SandboxKeys = {s1, s2}
  Viewers = {v1}
  Clerks = {w1, w2}
  NoClerk = NoClerk
  a1 = a1
  a2 = a2
  a3 = a3
  s1 = s1
  s2 = s2
  v1 = v1
  MaxRevisions = 2
  MaxTime = 1
  MaxEpochs = 1
  MaxCardFaults = 1
CONSTRAINT ViewersOrFaults
SYMMETRY ActionsSymmetry
CHECK_DEADLOCK FALSE
INVARIANTS
  TypeOK
  ExportOpens
  FinalBlobHasRow
  CardFollowsDecisions
  RepeatsGetOneAnswer
  SandboxIsCurrent
PROPERTY ExportsAreKept
