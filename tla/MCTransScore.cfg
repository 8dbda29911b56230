CONSTANTS
  NFuncs = 3
  Shells = {"fork", "exec"}
  Caches <- MCCaches
  IntLimit = 8
  Cells = {0, 1}
  MaxCells = 6
SPECIFICATION Spec
INVARIANTS
  CorrectMeansValidated
  CsimReadsWholeTrace
  ScoreIsItsOwn
  TracegenIsRight
PROPERTY
  Ends
CHECK_DEADLOCK FALSE
