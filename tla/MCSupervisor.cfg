SPECIFICATION Spec
CONSTANTS
  Clients = {c1}
  Backoffs = {b1}
  MaxStarts = 2
  MaxRuns = 2
  Policy = "on-crash"
  Serial = TRUE
  Unreaped = {TRUE, FALSE}
INVARIANTS TypeOK OneWatcherPerRoot WatcherIsAdoptable
PROPERTIES StopLeavesNoWatcher CommandsReturn CrashIsNoticed
CHECK_DEADLOCK FALSE
