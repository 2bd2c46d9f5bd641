SPECIFICATION Spec
CONSTANTS
  r1 = r1
  r2 = r2
  Runs <- OneRun
  MaxPost = 3
  PageSize = 3
  MaxParts = 2
  NoticeParts <- OneTwoParts
  MaxAttempts = 2
  MaxSaveTries = 2
  DbAvailable = TRUE
  Baseline <- Seeded1
  FileInit <- Seeded1
  Poison <- Photo3
  FaultKinds <- FallbackFaults
  MaxFaults = 3
  SentCap = 5
INVARIANTS
  RepeatsPaidByFaults
  FileCursorCovers
