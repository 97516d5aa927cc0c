SPECIFICATION FairSpec
CONSTANTS
  WorkerId = {w1, w2}
  ChunkId = {c1}
  Reader = {r1}
  REG_MAX_WORKERS = 2
  REG_MAX_CHUNKS = 2
  REG_RING_SIZE = 1
  TIMEOUT = 1
  MAX_OUT = 2
  WORD = 16
  Blank = Blank
  MaxVersion = 5
  MaxTime = 3
INVARIANTS VersionIdentifies NoSilentDeath
PROPERTY SilenceNoticed
CHECK_DEADLOCK FALSE
