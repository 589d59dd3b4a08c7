SPECIFICATION Spec
CONSTANTS
  Var = {1, 2, 3}
  LoggingBuild = FALSE
  Chrono = TRUE
  Assumptions <- NoAssumptions
  Constraint = {}
  ObserveAssigned = FALSE
  SavedPhases = TRUE
INVARIANT NothingForgotten
