CONSTANTS
  U64Max = 7
  MtdSize = 4
  EraseSize = 2
  Ctl = {t1, t2}
  User = {u1}
  Commands = {"get_info", "recipe_add", "create", "delete", "restart", "list_parts"}
  Requests <- MCRequests
  Immediates <- MCImmediates
  Index <- MCIndex
  MayFail = TRUE
  MaxParts = 2
  MaxCount = 2
  MaxChildren = 2
SPECIFICATION FairSpec
INVARIANTS
  NoCircularWait
  OnlyMutexesBlock
PROPERTIES
  CallsReturn
  RespawnReopens
