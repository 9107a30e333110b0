\* Without faults: an upload that was checked before the commit.
SPECIFICATION Spec
CONSTANTS
  Workflows = {f1}
  Files = {a, b}
  Keys = {k1, k2}
  Workers = {w1, w2}
  f1 = f1
  a = a
  b = b
  k1 = k1
  k2 = k2
  w1 = w1
  w2 = w2
  MaxMappings = 1
  MaxFaults = 0
  Maintained = FALSE
SYMMETRY Symmetric
INVARIANT AllFilesOrNone
CHECK_DEADLOCK FALSE
