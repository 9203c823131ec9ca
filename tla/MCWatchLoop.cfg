SPECIFICATION Spec
CONSTANTS
  src = src
  mod = mod
  Files = {src, mod}
  Structural = {mod}
  Noise = {noise}
  LateFiles = {}
  MaxVersion <- MCMaxVersion
  KernelCap = 1
  ChanCap = 1
  Buffered = 1
INVARIANTS TypeOK NoLostWakeup NoSilentLoss FlushFindsNothing
PROPERTIES RefinesIndexSync EventuallySettled ShutdownTerminates
CHECK_DEADLOCK FALSE
