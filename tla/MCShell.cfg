SPECIFICATION Spec
CONSTANTS
  MAXJOBS = 4
  Pids = {1, 2, 3, 4, 5}
  JidBound = 6
  Reads = 6
  Words <- MCWords
  MaxArgs = 2
INVARIANTS
  IdNamesItsJob
  OneForeground
  EveryLineOnce
  ArgumentsComeBack
PROPERTIES
  ImplementsJobMap
