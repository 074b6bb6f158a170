CONSTANTS
  U64Max = 7
  MtdSize = 4
  EraseSize = 2
  Ctl = {t1, t2}
  User = {u1}
  Commands = {"get_info", "create", "recipe_add", "delete"}
  Requests <- MCRequests
  Immediates <- MCImmediates
  Index <- MCIndex
  MayFail = FALSE
  MaxParts = 2
  MaxCount = 2
  MaxChildren = 2
SPECIFICATION Spec
INVARIANTS
  InfoIsCoherent
CHECK_DEADLOCK FALSE
