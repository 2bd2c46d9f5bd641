\* One run, one failure.
SPECIFICATION Spec
CONSTANTS
  r1 = r1
  r2 = r2
  api = api
  Runs <- OneRun
  Admin <- api
  MaxImages = 1
  FileNames <- AllNames
  Texts <- MCTexts
  MarkerLine <- M
  MaxText = 16
  Cap = 18
  LabelSize = 2
  MaxAttempts = 4
  MaxFaults = 1
CHECK_DEADLOCK FALSE
INVARIANTS
  SavedOnly
