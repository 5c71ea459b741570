SPECIFICATION Spec
CONSTANTS
  NoValue = NoValue
  Requests <- MCRequests
  InOrder <- MCInOrder
  MaxEvents = 1
INVARIANTS PlansAreAccepted EvidenceShowsThePlan UndisturbedEvidenceVerifies
PROPERTIES EveryCaptureEnds
CHECK_DEADLOCK FALSE
