CONSTANTS
  Names <- MCNames
  Hash <- MCHash
  InitCap = 4
  Null = Null
  Tomb = Tomb
  MaxDepth = 3
  MaxLocals = 5
SPECIFICATION Spec
INVARIANT InnermostWins
