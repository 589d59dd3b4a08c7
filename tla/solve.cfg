SPECIFICATION Spec
CONSTANTS
  TerminateInt = 2
  MaxFactor = 2
  MaxLevel = 3
  MaxAssume = 2
INVARIANT NoSpuriousUnknown
PROPERTY ModelsChecked TerminateStops TerminatorStops
