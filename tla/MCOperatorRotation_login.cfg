\* One package, one execution of the job, no failure: the operator logs in while the
\* password is changed.
SPECIFICATION RotationSpec
CONSTANTS
  h1 = h1
  h2 = h2
  Hashes = {h1, h2}
  FirstHash = h1
  Missing = Missing
  MaxExecutions = 1
  MaxPackages = 1
  MaxRotationFaults = 0
INVARIANT OldSessionsEnd
CHECK_DEADLOCK FALSE
