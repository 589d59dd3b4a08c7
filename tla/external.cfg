SPECIFICATION EitherSpec
CONSTANTS
  NumVar = 4
  Uses <- SmallUses
  Assumable <- MinusOne
  Observable = {3}
  Learnable <- Learnt
  TheoryClauses <- Told
  MaxStack = 4
  MaxSolves = 2
  ElimBound = 0
  MaxVar = 2
  UINT_MAX = 15
  MaxFreeze = 1
INVARIANT ModelExtends NothingLost InactiveUnused ObservedClean
INVARIANT  HeldVariablesKept CopiesAgree
CHECK_DEADLOCK FALSE
