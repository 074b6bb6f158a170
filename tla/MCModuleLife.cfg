CONSTANTS
  Tables <- MCTables
  Filters <- MCFilters
  Opener = {p1, p2}
  User = {u1, u2}
  MayFail = TRUE
SPECIFICATION FairSpec
INVARIANTS
  TypeOK
  GivenBack
  OpenableIsComplete
  BackingOutlivesProxy
  ExitLeavesUsersAlone
PROPERTIES
  LoadAndUnloadEnd
CHECK_DEADLOCK FALSE
