CONSTANTS
  U64Max = 7
  MtdSize = 4
  EraseSize = 2
  Ctl = {t1, t2}
  User = {u1}
  Commands = {"add", "get_info"}
  Requests <- MCRequests
  Immediates <- MCImmediates
  Index <- MCIndex
  MayFail = FALSE
  MaxParts = 2
  MaxCount = 2
  MaxChildren = 2
SPECIFICATION FairSpec
PROPERTIES
  CallsReturn
CHECK_DEADLOCK FALSE
