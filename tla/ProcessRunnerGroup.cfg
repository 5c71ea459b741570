SPECIFICATION Spec
CONSTANTS
  Leaders = {"exits"}
  Helpers = {"ignores"}
PROPERTY GroupTerminated
CHECK_DEADLOCK FALSE
