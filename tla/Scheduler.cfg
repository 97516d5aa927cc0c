SPECIFICATION RecallSpec
CONSTANTS
  WorkerId = {"w1", "w2", "w3"}
  ChunkId = {1, 2, 3}
  Platform = {"linux"}
  Runtime = {"native"}
  NodeNum <- MCNodeNum
  WorkerViews <- ApiViews
  ChunkPlans <- ApiPlans
  MaxLeasesArgs = {2}
  MAX_SWORKERS = 2
  MAX_SCHUNKS = 2
  LEASE_MS = 1
  MaxTime = 2
INVARIANTS OneActiveLeasePerChunk ActiveLeaseHasChunk LeaseSlotForEveryChunk
  ReservationsExact
PROPERTY LeaseHonoured
