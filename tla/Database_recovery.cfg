SPECIFICATION FairSpec
CONSTANTS
  Absent = Absent
  NoFrame = NoFrame
  Documents <- Documents_
  SIZE_MAX = 2
  InitialCapacity = 1
  DefaultCapacity = 1
  CapacityLimit = 2
  Calls <- MCCalls
  MAX_CALLS = 2
INVARIANTS TypeOK PredictedIds
PROPERTIES ClearedMeansApplied CallsReturn
CHECK_DEADLOCK FALSE
