CONSTANTS
  SrcLen = 4
  StdinCap = 2
  PipeCap = 3
  NameRoom = 3
  OldModule <- MCOld
  NewModule <- MCNew
SPECIFICATION ToolchainSpec
INVARIANTS
  DriverTypeOK
  FailureKeepsOutput
  LoadsWholePrograms
CHECK_DEADLOCK FALSE
