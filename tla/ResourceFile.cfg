SPECIFICATION Spec
CONSTANTS
  c1 = c1
  c2 = c2
  c3 = c3
  None = None
  Calls <- MCCalls
  Home <- MCHome
  Asks <- MCAsks
  Initial = {"old", None}
  Foreign = {"other", None}
INVARIANTS TypeOK OneWinner NeverMissing
PROPERTY NothingLost
CHECK_DEADLOCK FALSE
