SPECIFICATION MCFairSpec
CONSTANTS
  j1 = j1
  j2 = j2
  j3 = j3
  Job = {j1, j2, j3}
  MaxRetries <- MCRetries
  StartedBy <- MCSharedTag
  KafkaMayFail = FALSE
  TaskMayVanish = TRUE
  CurlRetries = 0
  Replica = {r1, r2}
  NoReplica = NoReplica
  MayCrash = TRUE
  StopMayFail = TRUE
  EcsMayRefuse = TRUE
  AnswerMayBeLost = FALSE
  MaxTakeovers = 2
  MaxSubmissions = 2
  MaxCancellations = 1
INVARIANTS
  OrchestratorTypeOK
  LossBoundedByCrashes
  LaunchesBoundedByTakeovers
  NeverLaunchedAndBuried
  StopsAccounted
PROPERTIES
  EverySubmissionSettled
  EveryStopRequestObeyed
  ImplementsQueue
CHECK_DEADLOCK FALSE
