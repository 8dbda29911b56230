CONSTANTS
  Names <- MCNames
  Hash <- MCHash
  InitCap = 4
  Null = Null
  Tomb = Tomb
  MaxDepth = 3
  MaxLocals = 5
SPECIFICATION Spec
INVARIANTS
  ProbingEnds
  ChainsUnbroken
  LookupIsDeepest
  StaleOneLevel
PROPERTY
  ImplementsScopeSet
