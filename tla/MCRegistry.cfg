SPECIFICATION TableSpec
CONSTANTS
  Roots = {1, 2}
  Goroutines = {t1, t2}
  MaxStamps = 5
  MaxFailures = 2
INVARIANT TableIsSound
PROPERTY NothingIsForgotten
SYMMETRY Symmetry
CHECK_DEADLOCK FALSE
