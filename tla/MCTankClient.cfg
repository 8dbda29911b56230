CONSTANTS
  KeepModes = {TRUE, FALSE}
  SockBuf = 2
  MaxCmds = 2
  MaxTick = 1
SPECIFICATION Spec
INVARIANTS
  InOrder
  InStep
  SyncMeansAnswered
  NoLostWakeup
