CONSTANTS
  InitCap = 2
  MaxToks = 9
SPECIFICATION Spec
INVARIANT
  OnlyCurDangles
PROPERTY
  DanglesForOneToken
CHECK_DEADLOCK FALSE
