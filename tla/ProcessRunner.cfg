SPECIFICATION Spec
CONSTANTS
  Leaders = {"dies", "exits", "ignores"}
  Helpers = {"none", "obeys"}
INVARIANTS TypeOK LeaderIsDoomed
PROPERTIES AlwaysSettles GroupTerminated
CHECK_DEADLOCK FALSE
