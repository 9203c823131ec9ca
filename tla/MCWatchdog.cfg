SPECIFICATION Spec
CONSTANTS
  MaxProcs = 8
  MaxMisses = 3
  MaxStarts = 2
  MaxFaults = 2
CONSTRAINT Covered
INVARIANTS OneGuardedSupervisor StopIsFinal
PROPERTIES WedgedIsReplaced WatchdogsLeave
CHECK_DEADLOCK FALSE
