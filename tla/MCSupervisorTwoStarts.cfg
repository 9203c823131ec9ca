SPECIFICATION Spec
CONSTANTS
  Clients = {c1, c2}
  Backoffs = {b1}
  MaxStarts = 2
  MaxRuns = 1
  Policy = "on-crash"
  Serial = FALSE
  Unreaped = {FALSE}
INVARIANT NeverTwo
CHECK_DEADLOCK FALSE
