SPECIFICATION Spec
CONSTANTS
  p1 = p1
  p2 = p2
  None = None
  NoEntry = NoEntry
  Processes <- MCProcesses
  Entries <- AllEntries
  May <- MCMay
  Specs = {"spec"}
  Imports = {"imported"}
  MaxLength = 2
  MaxCalls <- MCMaxCalls
  MaxAlterations = 1
  Alterable <- MCAlterable
INVARIANTS TypeOK IndexedIsPublished TexturesAreCurrent
PROPERTIES NothingFromAltered Publishes
CHECK_DEADLOCK FALSE
