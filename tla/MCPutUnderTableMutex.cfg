CONSTANTS
  Tables <- MCTables
  Filters <- MCFilters
  Opener = {p1, p2}
  User = {u1, u2}
  MayFail = TRUE
SPECIFICATION Spec
INVARIANTS
  NoPutUnderTableMutex
CHECK_DEADLOCK FALSE
