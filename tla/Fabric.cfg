SPECIFICATION FabricSpec
CONSTANTS
  Worker = {w1, w2}
  Thread = {t1, t2}
  MaxReports = 1
  MaxSent = 2
SYMMETRY Symmetry
INVARIANTS  JoinedOnThisConnection
CHECK_DEADLOCK FALSE
