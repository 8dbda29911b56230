CONSTANTS
  PT_LEVELS = 3
  PT_ENTRIES = 2
  NUM_FRAME = 5
  USER_VA_BASE = 1
  TLB_ENTRIES = 2
  Allocated = {0, 1, 2, 3}
  Roots = {0, 4, 6}
  Words <- MCWords
  MappingCapacity = 2
  TableCapacity = 3
  Unread = Unread
SPECIFICATION Spec
INVARIANTS
  InspectionIsTrue
  MappingsAscend
  TlbCountIsTrue
CHECK_DEADLOCK FALSE
