SPECIFICATION Spec
CONSTANTS
  v1 = v1
  n1 = n1
  n2 = n2
  tmpl = tmpl
  None = None
  Clean = {TRUE, FALSE}
  VMs <- MCVMs
  Nets <- MCNets
  Numbers = {0, 1}
  Template <- MCTemplate
  Wishes <- MCWishes
  MaxRuns = 3
  MaxFaults = 2
  MaxEdits = 1
INVARIANTS
  FreshComplete
  ExistingReconnected
  DownLeavesNothing
  UpSettles
PROPERTIES
  AttachLive
  RemoveUnused
CHECK_DEADLOCK FALSE
