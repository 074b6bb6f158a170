CONSTANTS
  U64Max = 7
  MtdSize = 6
  EraseSize = 2
  Client = {c1, c2}
  Nobody = Nobody
  Requests <- MCRequests
  MaxParts = 3
  MaxCount = 4
SPECIFICATION Spec
INVARIANTS
  TypeOK
  OneClient
  PartsDisjoint
  PartsFit
  CountCoversList
CHECK_DEADLOCK FALSE
PROPERTIES
  ImplementsPlan
  CreateHandsOverPlan
