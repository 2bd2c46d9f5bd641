SPECIFICATION Spec
CONSTANTS
  r1 = r1
  r2 = r2
  api = api
  Runs <- TwoRuns
  Admin <- api
  MaxImages = 2
  FileNames <- AllNames
  Texts <- MCTexts
  MarkerLine <- M
  MaxText = 16
  Cap = 18
  LabelSize = 2
  MaxAttempts = 2
  MaxFaults = 2
SYMMETRY SwapRuns
CHECK_DEADLOCK FALSE
INVARIANTS
  TypeOK
  ArrivesInOrder
  NoNeedlessCut
  MissingPaidByFaults
  ResendAsShown
