SPECIFICATION Spec
CONSTANTS
  Var = {1, 2, 3}
  LoggingBuild = TRUE
  Chrono = FALSE
  Assumptions <- OneAssumption
  Constraint = {}
  ObserveAssigned = TRUE
  SavedPhases = TRUE
INVARIANT NothingStale SameLevels
