SPECIFICATION Spec
CONSTANTS
  Worker = {1, 2, 3}
  Master = 0
  Number <- MCNumber
  MAX_ATTEMPTS = 2
  MaxHeartbeats = 0
  MaxSignals = 0
PROPERTY SilentMarkedOffline
CHECK_DEADLOCK FALSE
