CONSTANTS
  KeepModes = {TRUE, FALSE}
  SockBuf = 2
  MaxCmds = 2
  MaxTick = 1
SPECIFICATION FairBotSpec
INVARIANTS
  PlayInStep
  LeavesCleanly
PROPERTY
  BotEnds
CHECK_DEADLOCK FALSE
