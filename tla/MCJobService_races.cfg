SPECIFICATION MCSpec
CONSTANTS
  j1 = j1
  j2 = j2
  Job = {j1}
  MaxRetries <- MCOneJob
  Handler = {h1, h2, h3}
  Caller = {c1}
  KafkaMayFail = FALSE
  MaxAborts = 1
  MaxCalls = 6
SYMMETRY Sessions
INVARIANTS
  ServiceTypeOK
  RetryWithinBudget
  DeadAfterAllRetries
  QueuedHasEvents
  CancelledHasEvent
PROPERTIES
  ImplementsLedger
CHECK_DEADLOCK FALSE
