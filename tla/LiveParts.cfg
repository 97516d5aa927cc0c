SPECIFICATION PartsSpec
CONSTANTS
  Run = {1, 2}
  required_cores <- MCRequired
  cores_online = 2
  Workloads <- MCWorkloads
  Plans <- MCPlans
  MAX_STRATEGIES = 2
  REFRESH_SECONDS = 3
  MaxLook = 1
  MaxGeneration = 2
  MaxDummies = 2
  Worker = {1, 2}
  Master = 0
  Number <- MCNumber
  MAX_ATTEMPTS = 2
  MaxHeartbeats = 1
  MaxSignals = 3
INVARIANTS CoresAccounted OneCleanEnd VerdictRight ProgramsSafe
PROPERTIES CancelFreesCores StartedWorkEnds 
CHECK_DEADLOCK FALSE
