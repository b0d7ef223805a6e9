SPECIFICATION Spec
CONSTANTS
  Inputs <- MCEndless
  CAPACITY = 8
  THRESHOLD = 4
PROPERTY EveryParseEnds
CHECK_DEADLOCK FALSE
