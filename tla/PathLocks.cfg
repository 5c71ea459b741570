SPECIFICATION Spec
CONSTANTS
  c1 = c1
  c2 = c2
  c3 = c3
  Calls <- MCCalls
  Paths <- MCPaths
  Rank <- MCRank
  Wants <- MCWants
INVARIANTS TypeOK MutualExclusion WaitsAscend MapTracksCalls
PROPERTY EveryCallReturns
CHECK_DEADLOCK FALSE
