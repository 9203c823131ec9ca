SPECIFICATION MCSpec
CONSTANTS
  Conns = {c1, c2}
  LineSizes = {1, 2}
  MaxBytes = 2
  MaxLines = 6
  MaxFaults = 1
INVARIANTS LeavesCleanly LogIsASuffix
PROPERTIES StopEndsTheDaemon DeafGoesStale
CHECK_DEADLOCK FALSE
