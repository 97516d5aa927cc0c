SPECIFICATION PartsSpec
CONSTANTS
  Reader = {r1, r2, r3}
  Value = {v1, v2, v3}
  Blank = Blank
  RING = 3
  AssignedId = {l1, l2}
  Checksum = {"a"}
  WORKER_MAX_ACTIVE_LEASES = 3
  MaxTasks = 5
  Endpoint = {"e1", "e2"}
  Discovered = "d"
  Nothing = ""
  Caller = {c1, c2}
  MAX_SAMPLES = 2
  PROBE_COOLDOWN = 2
  STALE_THRESHOLD = 1
  Cores = 4
  FreeRam = 2
  Reservations <- MCReservations
  WORD = 1000
  Start = 2
  MaxTime = 5
  Thread = {t1, t2, t3}
  MainThread = t1
  NULL = NULL
  MaxContexts = 4
  MaxLeaks = 1
  MetaLen = {1, 2}
  MsgLen = {0, 1, 3, 4}
  MsgBuf = 4
  MaxSize = {0, 3, 5, 6}
  Section = {"worker", "logging", "other"}
  Key = {"heartbeat_interval", "level"}
  Val = {"7", "x"}
  MaxLines = 4
  Words <- MCWords
  MaxWords = 3
  UI_MAX_NODES = 2
  UI_MAX_ACTIVE_LEASES = 2
  UI_MAX_ACTIVE_TASKS = 2
  Snapshots <- MCSnapshots
  Times = {0, 1, 3}
SYMMETRY Symmetry
INVARIANTS RevokedNeverClaimed WorkerStateSound AnswersSound CommonLibrarySafe
   OperatorToolsSound
PROPERTY Refinement
CHECK_DEADLOCK FALSE
