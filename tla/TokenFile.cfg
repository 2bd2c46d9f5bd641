SPECIFICATION Spec
CONSTANTS
  b1 = b1
  c1 = c1
  a1 = a1
  Batches <- OneBatch
  Crons <- OneCron
  Resends <- OneResend
  MaxRefresh = 3
  MaxAccess = 2
  MaxDay = 2
  Lifetime = 2
  FirstExpiry = 1
  AlertBefore = 1
  FaultKinds <- TokenFaults
  MaxFaults = 2
  AlertCap = 4
INVARIANTS
  TypeOK
  FileIsCurrent
  PresentsCurrent
  ExpiryBelongs
  AlertsPaidByFaults
PROPERTIES
  NothingUndone
