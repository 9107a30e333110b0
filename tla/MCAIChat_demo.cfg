\* One viewer session that can be cleared once, two threads, one typed question:
\* the stale worker against the cleared chat, with one fault.  Or a viewer and the
\* operator with one slot: admission races, recoveries and
\* session ends against the abstract slots.
SPECIFICATION Spec
CONSTANTS
  demo1 = demo1
  demo2 = demo2
  oper = oper
  k1 = k1
  k2 = k2
  typed = typed
  preset = preset
  w1 = w1
  w2 = w2
  DemoSessions = {demo1}
  OperatorSessions = {oper}
  Keys = {k1}
  Payloads = {typed}
  Presets = {}
  Workers = {w1, w2}
  MaxConcurrent = 1
  MaxEpoch = 1
  MaxRevision = 2
  MaxAttempts = 3
  MaxFaults = 1
SYMMETRY WorkerSymmetry
CONSTRAINT AloneOrShared
CHECK_DEADLOCK FALSE
INVARIANTS
  DemoRowsAreCurrent
  AnsweredIsBacked
  PaidCallHappensOnce
  CallUsesRecordedBinding
  UnknownOutcomeIsReported
PROPERTIES
  TerminalIsFinal
  ImplementsSlots
