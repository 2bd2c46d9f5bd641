SPECIFICATION Spec
CONSTANTS
  r1 = r1
  r2 = r2
  Runs <- OneRun
  MaxPost = 3
  PageSize = 2
  MaxParts = 2
  NoticeParts <- OneTwoParts
  MaxAttempts = 2
  MaxSaveTries = 2
  DbAvailable = TRUE
  Baseline <- Fresh0
  FileInit <- Fresh0
  Poison <- NoPoison
  FaultKinds <- DbFaults
  MaxFaults = 3
  SentCap = 5
INVARIANTS
  TypeOK
  NothingSkipped
  SuccessMeansDelivered
  RepeatsPaidByFaults
  HolesPaidByFaults
PROPERTIES
  SuccessIsFinal
  RecordedNotResent
  ImplementsHistory
