SPECIFICATION MCFairSpec
CONSTANTS
  Job = {j1, j2}
  ScheduledJob = {}
  Persistent = {j2}
  MaxRetries <- MCRetries
  StartedBy <- MCOwnTag
  Caller <- MCCallers
  User = User
  Nobody = Nobody
  Handler = {h1, h2}
  Replica = {r1}
  NoReplica = NoReplica
  KafkaMayFail = FALSE
  MaxAborts = 0
  TaskMayVanish = FALSE
  CurlRetries = 1
  MayCrash = FALSE
  StopMayFail = TRUE
  EcsMayRefuse = TRUE
  AnswerMayBeLost = FALSE
  MaxTimeouts = 1
  MaxTakeovers = 0
  MaxCancellations = 1
  MaxTasks = 6
  MaxFaults = 0
ACTION_CONSTRAINT MCQuietStep
INVARIANTS
  TypeOK
  RetryJustified
  DeadJustified
  SuccessJustified
PROPERTIES
  EventuallyQuiet
CHECK_DEADLOCK FALSE
