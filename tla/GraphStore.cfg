SPECIFICATION FairSpec
CONSTANTS
  Documents = {d1, d2}
  Absent = Absent
  SIZE_MAX = 2
  InitialCapacity = 0
  DefaultCapacity = 1
  CapacityLimit = 4
  MAX_FAULTS = 2
INVARIANTS
  TypeOK
  RecordsInsideFile
  ReferentialIntegrity
  ReopenAccepted
PROPERTIES
  ImplementsPropertyGraph
  DetachCompletes
CHECK_DEADLOCK FALSE
