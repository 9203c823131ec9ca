SPECIFICATION Spec
CONSTANTS
  MaxProcs = 8
  MaxMisses = 3
  MaxStarts = 2
  MaxFaults = 0
CHECK_DEADLOCK FALSE
INVARIANT StopIsFinalWhenSlow
