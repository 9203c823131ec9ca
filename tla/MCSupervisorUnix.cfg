SPECIFICATION Spec
CONSTANTS
  Clients = {c1}
  Backoffs = {b1}
  MaxStarts = 3
  MaxRuns = 1
  Policy = "on-crash"
  Serial = TRUE
  Unreaped = {TRUE}
INVARIANT StaleIsCleaned
CHECK_DEADLOCK FALSE
