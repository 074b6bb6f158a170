CONSTANTS
  Tables <- MCTables
  Filters <- MCFilters
  Opener = {p1, p2}
  User = {u1, u2}
  MayFail = FALSE
SPECIFICATION Spec
INVARIANTS
  UsedIsKept
CHECK_DEADLOCK FALSE
