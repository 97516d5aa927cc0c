SPECIFICATION ProtocolSpec
CONSTANTS
  WorkerId = {w1, w2}
  LeaseId = {l1, l2}
  Chunk = {c1}
  Nobody = Nobody
  Checksum = {"a"}
  WORKER_MAX_ACTIVE_LEASES = 2
  REC_MAX_WORKERS = 1
  MaxRestarts = 1
  REC_MAX_LEASES = 2
  TIMEOUT = 0
  WORD = 1000
  Terms = {1}
  MaxTime = 2
SYMMETRY Symmetry
CHECK_DEADLOCK FALSE
PROPERTIES LeasesKeepPromise FinishedWorkKept
