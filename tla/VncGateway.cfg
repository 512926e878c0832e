SPECIFICATION FairSpec
CONSTANTS
  Conns = {c1}
  MaxFaults = 2
INVARIANTS
  NoOpenLeft
PROPERTIES
  ClosedOnce
  RevokedCloses
  ClosedLeaves
  ShutdownCloses
CHECK_DEADLOCK FALSE
