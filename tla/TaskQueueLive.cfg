SPECIFICATION FairSpec
CONSTANTS
  t1 = t1
  t2 = t2
  t3 = t3
  stand1 = stand1
  other = other
  Tasks = {t1, t2}
  Workers = {w1, w2}
  Keys = {stand1, other}
  None = None
  Dead = Dead
  Kind <- MCKind
  KeyOf <- MCKeyOf
  Conflict <- MCConflict
  FirstKind = "deploy"
  ThirdKind = "power"
  ThirdKey = other
  Duplicate = TRUE
  DeployLimit = 1
  MaxCrashes = 1
  MaxExpiries = 0
  MaxFaults = 1
PROPERTIES
  TasksSettle
  RowsLeave
  DeletedTaskStops
CHECK_DEADLOCK FALSE
