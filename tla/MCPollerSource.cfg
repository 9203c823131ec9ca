SPECIFICATION Spec
CONSTANTS
  a = a
  b = b
  s1 = s1
  s2 = s2
  Files = {a, b}
  Stats = {s1, s2}
  Gone = Gone
  Unknown = Unknown
  MaxVersion <- MCMaxVersion
  StatOf <- MCStatOf
  ChanCap = 1
  MaxErrors = 1
INVARIANTS TypeOK NoSilentLoss
PROPERTIES RefinesIndexSync EventuallySettled
CHECK_DEADLOCK FALSE
