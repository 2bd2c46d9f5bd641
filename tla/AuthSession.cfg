SPECIFICATION Spec
CONSTANTS
  c1 = c1
  c2 = c2
  c3 = c3
  a1 = a1
  home = home
  away = away
  Nobody = Nobody
  Browsers <- HomeAway
  Tabs <- AllTabs
  Owner <- OwnerOf
  Apis <- OneApi
  SignIns <- Both
  MaxToken = 3
  FaultKinds <- AllFaults
  MaxFaults = 1
SYMMETRY Twins
INVARIANTS
  TypeOK
  JarIsCurrent
PROPERTIES
  Implements
  OvertakenInFlight
