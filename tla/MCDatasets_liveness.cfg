\* One file, one thread and the hourly job, with two faults; and an analysis in
\* two threads, with two faults; and two versions, with two publishing threads and
\* one that prepares, and a fault.  No symmetry: two properties are liveness
\* properties.
SPECIFICATION DatasetsSpec
CONSTANTS
  Workflows = {f1}
  Files = {a}
  Keys = {k1}
  Workers = {w1}
  f1 = f1
  a = a
  k1 = k1
  w1 = w1
  w2 = w2
  MaxMappings = 1
  MaxFaults = 2
  Maintained = TRUE
  Runners = {w1, w2}
  MaxAttempts = 5
  MaxRunFaults = 2
  v1 = v1
  v2 = v2
  Releasable = {v1, v2}
  Eligible = {v1, v2}
  Reorders = {v1}
  Stores = {"s1"}
  Publishers = {w1, w2}
  PublishRequests <- MCRequests
  Preparers = {w1}
  SeedVersion = v1
  SeedKey = "seed"
  NoVersion = "none"
  MaxAdjustments = 1
  MaxReleaseFaults = 1
  Skus = {1, 2}
  Lots = {1, 2}
  Outbounds = {1, 2}
  LastDay = 3
  Quantities = {1, 2}
  UnitCost <- MCUnitCost
  Ages = {1, 2}
  Untold = Untold
  Asked = Asked
  SkuIds = {1, 2}
  Lines <- MCLines
  Drivers = {"advertising"}
  Effects = {0, Unknown}
  Parts = 12
  Tolerance = 1
  Unknown = Unknown
  NoRows = NoRows
INVARIANTS
  CompletedOpens
  CostsFollowLots
  ResidualIsRounding
  ReleasesHold
PROPERTIES
  RawUploadsGo
  AnalysesComplete
CHECK_DEADLOCK FALSE
