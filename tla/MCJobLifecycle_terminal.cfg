SPECIFICATION Spec
CONSTANTS
  Job = {j1}
  ScheduledJob = {}
  Persistent = {}
  MaxRetries <- MCRetries
  StartedBy <- MCOwnTag
  Caller <- MCCallers
  User = User
  Nobody = Nobody
  Handler = {h1, h2}
  Replica = {r1}
  NoReplica = NoReplica
  KafkaMayFail = FALSE
  MaxAborts = 0
  TaskMayVanish = FALSE
  CurlRetries = 0
  MayCrash = FALSE
  StopMayFail = FALSE
  EcsMayRefuse = FALSE
  AnswerMayBeLost = FALSE
  MaxTimeouts = 0
  MaxTakeovers = 0
  MaxCancellations = 1
  MaxTasks = 6
  MaxFaults = 0
SYMMETRY Sessions
PROPERTIES
  TerminalStatesAreFinal
CHECK_DEADLOCK FALSE
