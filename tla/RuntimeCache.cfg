SPECIFICATION Spec
CONSTANTS
  s1 = s1
  s2 = s2
  reader = reader
  NoValue = NoValue
  FixedArtifacts = {}
  Libraries <- MCLibraries
  Assets = {}
  LoaderLibraries <- MCLoader
  Setups <- MCSetups
  Readers = {reader}
  Levels <- MCLevels
  PlatformOf <- MCPlatformOf
  Concurrency = 2
  Editable = {"server"}
  MaxEdits = 1
  MaxRuns <- MCMaxRuns
INVARIANTS TypeOK RememberedVerdictsAreRight RecordIsBacked SuccessMeansReady OneNativeArchitecture
CHECK_DEADLOCK FALSE
