SPECIFICATION Spec
CONSTANTS
  K = 2
  AP = {p}
  Q = {0, 1}
  q0 = 0
  Automata <- TwoStates
INVARIANT LoopConstraintsSound EmptyLoopExcluded TotalTrailExact
