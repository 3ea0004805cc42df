SPECIFICATION Spec
CONSTANTS
  Job = {j1, j2}
  ScheduledJob = {j2}
  Persistent = {}
  MaxRetries <- MCRetries
  StartedBy <- MCOwnTag
  Caller <- MCCallers
  User = User
  Nobody = Nobody
  Handler = {h1}
  Replica = {r1}
  NoReplica = NoReplica
  KafkaMayFail = TRUE
  MaxAborts = 0
  TaskMayVanish = TRUE
  CurlRetries = 1
  MayCrash = TRUE
  StopMayFail = FALSE
  EcsMayRefuse = FALSE
  AnswerMayBeLost = FALSE
  MaxTimeouts = 1
  MaxTakeovers = 1
  MaxCancellations = 0
  MaxTasks = 6
  MaxFaults = 2
CONSTRAINT MCModerate
INVARIANTS
  SubmissionsJustified
CHECK_DEADLOCK FALSE
