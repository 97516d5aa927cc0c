SPECIFICATION FairSpec
CONSTANTS
  WorkerId = {w1, w2}
  LeaseId = {l1}
  REC_MAX_WORKERS = 2
  REC_MAX_LEASES = 2
  TIMEOUT = 1
  WORD = 16
  Terms = {1}
  MaxTime = 3
 
PROPERTIES GivenUpForGood EveryLeaseSettled
