SPECIFICATION Spec
CONSTANTS
  p1 = p1
  p2 = p2
  a = a
  b = b
  None = None
  Foreign = Foreign
  Processes <- MCSolo
  May <- MCMaySolo
  Edits = 2
  ArtOf <- MCArtOf
  Ready = {a}
  Reports = {"r1", "r2", "bad"}
  Passing = {"r1", "r2"}
  MaxReceipts = 2
  MaxJournals = 0
PROPERTY ConnectAnswersDrift
