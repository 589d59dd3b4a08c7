SPECIFICATION BothSpec
CONSTANTS
  Var = {1, 2, 3}
  MaxStamp = 3
  Modulus = 64
  MaxVar = 4
  Limit = 3
  One = 1
  MaxInc = 3
CHECK_DEADLOCK FALSE
INVARIANT ListIntact PointerCovers FreeOnHeap FrontIsMaximum
PROPERTY BumpKeepsOrder
