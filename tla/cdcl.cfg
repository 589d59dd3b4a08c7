SPECIFICATION Spec
CONSTANTS
  Var = {1, 2, 3, 4, 5}
  LoggingBuild = FALSE
  MaxRestarts = 1
  Problems <- MCProblems
INVARIANT ClausesImplied ReasonsImply ConflictsFound UnitsFound
INVARIANT AnswerRight CoreSuffices
PROPERTY Terminates WatchesBest CasesExact ImplementsLoop
