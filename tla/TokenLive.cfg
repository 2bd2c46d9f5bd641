SPECIFICATION FairSpec
CONSTANTS
  b1 = b1
  c1 = c1
  a1 = a1
  Batches <- OneBatch
  Crons <- OneCron
  Resends <- OneResend
  MaxRefresh = 2
  MaxAccess = 2
  MaxDay = 2
  Lifetime = 1
  FirstExpiry = 1
  AlertBefore = 1
  FaultKinds <- LiveFaults
  MaxFaults = 1
  AlertCap = 1
PROPERTIES
  LockServed
  AccessRecovers
