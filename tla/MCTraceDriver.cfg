CONSTANTS
  Names = {a, b}
  MaxNames = 2
  NumFrame = 3
  NumPage = 3
  MaxLines = 5
  None = None
  HALF = 32
  MAX_NAME_LENGTH = 2
  MAX_TOKENS = 3
  TypedTokens <- MCTypedTokens
SPECIFICATION Spec
INVARIANTS
  NameIsLatestRegion
  NoFrameLost
  OutputIsCurrent
  LinesAreReadAsTyped
PROPERTY
  FreeEndsItsOwn
SYMMETRY Interchangeable
CHECK_DEADLOCK FALSE
