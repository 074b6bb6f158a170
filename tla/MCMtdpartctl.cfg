CONSTANTS
  U64Max = 7
  U32Max = 3
  MtdSize = 4
  EraseSize = 2
  Tool = {c1, c2}
  User = {u1, u2}
  Lines <- MCLines
  Files <- MCFiles
  Immediates <- MCImmediates
  MayFail = TRUE
  MaxParts = 2
  MaxCount = 3
  MaxChildren = 2
SYMMETRY Symmetry
SPECIFICATION Spec
INVARIANTS
  TypeOK
  StatusShowsRecipe
  RecipeIsolation
PROPERTIES
  ConfigAllOrNothing
  WritesStayInside
CHECK_DEADLOCK FALSE
