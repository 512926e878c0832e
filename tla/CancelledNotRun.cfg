SPECIFICATION Spec
CONSTANTS
  t1 = t1
  t2 = t2
  t3 = t3
  stand1 = stand1
  other = other
  Tasks = {t1}
  Workers = {w1, w2}
  Keys = {stand1, other}
  None = None
  Dead = Dead
  Kind <- MCKind
  KeyOf <- MCKeyOf
  Conflict <- MCConflict
  FirstKind = "deploy"
  ThirdKind = "images"
  ThirdKey = None
  Duplicate = FALSE
  DeployLimit = 1
  MaxCrashes = 0
  MaxExpiries = 0
  MaxFaults = 0
PROPERTIES
  CancelledNotRun
CHECK_DEADLOCK FALSE
