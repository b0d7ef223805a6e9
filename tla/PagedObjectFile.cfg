SPECIFICATION Spec
CONSTANTS
  Documents <- MCDocuments
  Length <- MCLength
  Absent = Absent
  SIZE_MAX = 3
  UINT32_MAX = 1
  PAGE_SIZE = 6
  PAGE_HEADER_SIZE = 1
  SLOT_SIZE = 1
  MAX_FAULTS = 1
INVARIANTS
  TypeOK
  ReopenRestores
  RecoveredIsPromised
  FailuresAreContained
  PayloadsDisjoint
PROPERTY ImplementsObjectFile
CHECK_DEADLOCK FALSE
