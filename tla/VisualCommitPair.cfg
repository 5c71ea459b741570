SPECIFICATION Spec
CONSTANTS
  p1 = p1
  p2 = p2
  a = a
  b = b
  None = None
  Foreign = Foreign
  Processes <- MCProcesses
  May <- MCMayPair
  Edits = 0
  ArtOf <- MCOneArt
  Ready = {a}
  Reports = {"r1", "r2"}
  Passing = {"r1", "r2"}
  MaxReceipts = 2
  MaxJournals = 0
INVARIANTS OneReceiptEach
PROPERTY SuccessIsWhatWasAccepted
