SPECIFICATION Spec
CONSTANTS
  Var = {1, 2, 3}
  LoggingBuild = FALSE
  Chrono = TRUE
  Assumptions <- NoAssumptions
  Constraint <- TwoLiteralConstraint
  ObserveAssigned = FALSE
  SavedPhases = FALSE
INVARIANT LoopInv CompleteAtCallback NothingForgotten
INVARIANT ReportedOnItsLevel
PROPERTY OnlyHigherLevelsUndone ReportsFollowProtocol
