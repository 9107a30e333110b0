\* One viewer with two idempotency keys, two slots and two threads, one fault: a
\* second question while the first is in flight, lapsed or stranded.  No
\* symmetry: one of the properties is a liveness property.
SPECIFICATION FairSpec
CONSTANTS
  demo1 = demo1
  demo2 = demo2
  oper = oper
  k1 = k1
  k2 = k2
  typed = typed
  preset = preset
  w1 = w1
  w2 = w2
  DemoSessions = {demo1}
  OperatorSessions = {}
  Keys = {k1, k2}
  Payloads = {preset}
  Presets = {preset}
  Workers = {w1, w2}
  MaxConcurrent = 2
  MaxEpoch = 0
  MaxRevision = 1
  MaxAttempts = 1
  MaxFaults = 1
CHECK_DEADLOCK FALSE
INVARIANT OneInFlightPerSession
PROPERTY InFlightTurnsClose
