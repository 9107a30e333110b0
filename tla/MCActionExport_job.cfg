SPECIFICATION Spec
CONSTANTS
  Keys = {k1}
  Workers = {w1}
  k1 = k1
  w1 = w1
  MaxRequests = 1
  MaxFaults = 0
PROPERTY JobSparesExports
CHECK_DEADLOCK FALSE
