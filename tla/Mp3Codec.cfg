CONSTANTS
  CHUNK = 2
  SPARE = 1
  MaxSamples = 6
  MaxKept = 1
  NULL = NULL
SPECIFICATION Spec
INVARIANT
  NothingLost
PROPERTY
  StreamIsWhole
