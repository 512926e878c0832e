SPECIFICATION FairSpec
CONSTANTS
  Stands = {s1}
  VMs = {vm}
  Nets = {net}
  Vmids = {v1, v2}
  Names = {n1}
  Workers = {w1, w2}
  None = None
  MaxRows = 2
  MaxDestroys = 2
  MaxFaults = 1
  MaxAborts = 0
PROPERTIES
  StandsSettle
CHECK_DEADLOCK FALSE
