SPECIFICATION FairSpec
CONSTANTS
  r1 = r1
  r2 = r2
  Runs <- OneRun
  MaxPost = 3
  PageSize = 3
  MaxParts = 2
  NoticeParts <- SingleParts
  MaxAttempts = 2
  MaxSaveTries = 2
  DbAvailable = TRUE
  Baseline <- Seeded1
  FileInit <- Fresh0
  Poison <- NoPoison
  FaultKinds <- FallbackFaults
  MaxFaults = 2
  SentCap = 2
PROPERTIES
  EventuallyHandled
