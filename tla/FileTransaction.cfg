SPECIFICATION Spec
CONSTANTS
  N = 4
  Replaces = {1, 3}
  Touched = {1, 2}
INVARIANTS TypeOK ChangesAreJournalled ErrorMeansUndone SuccessMeansInstalled
PROPERTIES OriginalsOutliveInstall ForeignWorkKept AllOrNothing
CHECK_DEADLOCK FALSE
