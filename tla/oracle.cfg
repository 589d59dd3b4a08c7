SPECIFICATION Spec
CONSTANTS
  K = 2
  Name = {a}
  Loop = {l0}
  Chrono = TRUE
  MaxLevel = 2
  MaxQueue = 1
  Few = 75
  Least = 25
  Most = 50
INVARIANT MirrorsHeld SizeAccounts UnassignedNotHeld
