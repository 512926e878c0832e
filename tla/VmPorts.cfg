SPECIFICATION Spec
CONSTANTS
  student = student
  teacher = teacher
  r1 = r1
  r2 = r2
  r3 = r3
  Requests = {r1, r2, r3}
  Users = {student, teacher}
  UserOf <- MCUserOf
  Admins = {teacher}
  Names = {1, 2}
  None = None
  Quota = 1
  UseAny = FALSE
  DeleteOwned = TRUE
  DeleteAny = FALSE
CHECK_DEADLOCK FALSE
INVARIANTS OneTaskPerUser QuotaExplained
PROPERTIES OthersKept
SYMMETRY Symmetry
