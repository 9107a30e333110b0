\* Three passwords, packages and executions and three faults; or the enablement with
\* three faults; or three mutations by two threads under two idempotency keys with
\* two faults; or two packages run by two controllers, with two faults and another
\* administrator who changes the control once.
SPECIFICATION OperationsSpec
CONSTANTS
  Hashes = {h1, s1, s2}
  h1 = h1
  FirstHash = h1
  Missing = Missing
  MaxExecutions = 3
  MaxPackages = 3
  MaxRotationFaults = 3
  MaxEnablementFaults = 3
  Workers = {w1, w2}
  Secrets = {s1, s2}
  Keys = {k1, k2}
  w1 = w1
  w2 = w2
  s1 = s1
  s2 = s2
  k1 = k1
  k2 = k2
  NoSecret = NoSecret
  NoWorker = NoWorker
  Server = Server
  MaxRequests = 3
  MaxFaults = 2
  Controllers = {w1, w2}
  ReleasePackages = {k1, k2}
  Base = Base
  NoPackage = NoPackage
  MaxInterventions = 1
  MaxAdminFaults = 2
SYMMETRY OperationsSymmetry
CHECK_DEADLOCK FALSE
INVARIANTS
  PasswordInForceIsHeld
  ReportsAreTrue
  BoundKeyIsQualified
  RevisionsAreAccountedFor
  SuccessIsTrue
  KeyIsSpentOnce
  ServedKeyIsChecked
  AdminReleasesHold
PROPERTIES
  ReceiptIsTrue
