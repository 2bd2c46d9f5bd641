SPECIFICATION Spec
CONSTANTS
  r1 = r1
  r2 = r2
  Runs <- TwoRuns
  MaxPost = 3
  PageSize = 3
  MaxParts = 2
  NoticeParts <- SingleParts
  MaxAttempts = 2
  MaxSaveTries = 2
  DbAvailable = TRUE
  Baseline <- Seeded1
  FileInit <- Seeded1
  Poison <- NoPoison
  FaultKinds <- OverlapFaults
  MaxFaults = 2
  SentCap = 2
SYMMETRY Alike
INVARIANTS
  NothingSkipped
  SuccessMeansDelivered
