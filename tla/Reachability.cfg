SPECIFICATION FairSpec
CONSTANTS
  MAX_VERTICES = 3
  MAX_EDGES = 3
  MAX_HOPS = 3
INVARIANTS SearchTypeOK AnswersReachability FrontierIsWalkEnds
PROPERTY SearchEnds
CHECK_DEADLOCK FALSE
