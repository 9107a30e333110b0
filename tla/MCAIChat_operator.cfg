\* The operator logs out while a question is being admitted.
SPECIFICATION Spec
CONSTANTS
  demo1 = demo1
  demo2 = demo2
  oper = oper
  k1 = k1
  k2 = k2
  typed = typed
  preset = preset
  w1 = w1
  w2 = w2
  DemoSessions = {}
  OperatorSessions = {oper}
  Keys = {k1}
  Payloads = {preset}
  Presets = {preset}
  Workers = {w1}
  MaxConcurrent = 1
  MaxEpoch = 0
  MaxRevision = 1
  MaxAttempts = 1
  MaxFaults = 0
CHECK_DEADLOCK FALSE
INVARIANT UnsavedOperatorChatIsCleaned
