SPECIFICATION Spec
CONSTANTS
  Own = {f}
  Foreign = {old}
  Contents = {c1, c2}
  Structural = mod
  Hands = {hand}
  Watcher = watcher
  MaxEdits = 2
INVARIANTS TypeOK NoSilentStaleness
PROPERTIES HandsAreSerial CatchesUp
CHECK_DEADLOCK FALSE
