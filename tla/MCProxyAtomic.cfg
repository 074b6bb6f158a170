CONSTANTS
  U64Max = 7
  MtdSize = 4
  EraseSize = 2
  Ctl = {t1, t2}
  User = {u1, u2}
  Commands = {"add", "del", "recipe_add", "recipe_del", "create", "delete", "list_parts"}
  Requests <- MCRequests
  Immediates <- MCImmediates
  Index <- MCIndex
  MayFail = TRUE
  MaxParts = 2
  MaxCount = 2
  MaxChildren = 2
SYMMETRY Symmetry
SPECIFICATION AtomicSpec
INVARIANTS
  ShownIsThere
PROPERTIES
  AtomicOperations
CHECK_DEADLOCK FALSE
