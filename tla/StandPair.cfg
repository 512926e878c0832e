SPECIFICATION Spec
CONSTANTS
  Stands = {s1, s2}
  VMs = {vm1, vm2}
  Nets = {}
  Vmids = {v1, v2, v3}
  Names = {}
  Workers = {w1, w2}
  None = None
  MaxRows = 2
  MaxDestroys = 1
  MaxFaults = 1
  MaxAborts = 1
SYMMETRY Symmetry
INVARIANTS
  DisjointConfigs
  NoSpareIds
  NoOrphans
  DeployedComplete
  StuckExplained
CHECK_DEADLOCK FALSE
