SPECIFICATION Spec
CONSTANTS
  Clients = {c1, c2, c3}
  NoClient = NoClient
  LockTime = 3
  MaxDelay = 2
  MaxTime = 10
SYMMETRY Symmetry
PROPERTIES
  LeaseSpec
CHECK_DEADLOCK FALSE
