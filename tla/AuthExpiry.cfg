SPECIFICATION Spec
CONSTANTS
  c1 = c1
  c2 = c2
  c3 = c3
  a1 = a1
  home = home
  away = away
  Nobody = Nobody
  Browsers <- Home
  Tabs <- OneTab
  Owner <- OwnerOf
  Apis <- OneApi
  SignIns <- GoogleOnly
  MaxToken = 2
  FaultKinds = {}
  MaxFaults = 0
INVARIANTS
  ExpiryRenews
