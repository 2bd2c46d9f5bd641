\* Two processes, one address; the clock covers two windows and a lock.
SPECIFICATION Spec
CONSTANTS
  p1 = p1
  p2 = p2
  i1 = i1
  Procs <- MCProcs
  Ips = {i1}
  IpLimit = 3
  AccountLimit = 2
  Window = 2
  Lock = 4
  Patience = 1
  MaxTime = 5
  MaxFaults = 1
SYMMETRY Symmetry
INVARIANTS
  TypeOK
  WindowBound
  LockFollowsFailures
PROPERTIES
  LockLiftedByLateRequestsOnly
