SPECIFICATION Spec
CONSTANTS
  NoValue = NoValue
  Requests <- MCUntouched
  InOrder <- MCInOrder
  MaxEvents = 0
INVARIANT EveryPlanIsVerified
CHECK_DEADLOCK FALSE
