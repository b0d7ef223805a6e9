SPECIFICATION Spec
CONSTANTS
  NoName = NoName
  Unbound = Unbound
  Rejected = Rejected
  Absent = Absent
  INT32_MAX = 10
  INT64_MAX = 20
  Nodes <- MCNodes
  Edges <- MCEdges
  Coo <- MCCoo
  Statements <- MCStatements
INVARIANTS TypeOK MatchMeansPattern InsertMeansPattern
CHECK_DEADLOCK FALSE
