SPECIFICATION FairSpec
CONSTANTS
  MAX_ACTIVE_WORKLOADS = 1
  Checksum = {"a"}
  Deadlines = {1}
  SECOND = 2
  WORD = 16
  MaxTime = 2
INVARIANTS OpenJobHasWork FrontierReleased OrderlyJobs
PROPERTIES CompletionEarned DeadlineEnforced ChunksDrain
CHECK_DEADLOCK FALSE
