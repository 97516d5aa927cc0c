SPECIFICATION Spec
CONSTANTS
  Members <- MCMembers
  ChunkId = {1}
  Reader = {r1, r2}
  CLUSTER_MAX_WORKERS = 2
  CLUSTER_MAX_ACTIVE_LEASES = 1
  SNAPSHOT_RING_SIZE = 2
  NoFile = NoFile
  Torn = Torn
  Blank = Blank
  MaxGeneration = 4
  MaxEpoch = 2
INVARIANTS CopiesConsistent GenerationIdentifies
 
CHECK_DEADLOCK FALSE
