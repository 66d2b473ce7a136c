CONSTANTS
  Conn = {a}
  MaxPage = 3
  Val = {0}
  Synchronous = "Full"
  TornWrites = TRUE
  Faults = {"kill", "power", "io"}
  MaxFail = 2
SPECIFICATION Spec
INVARIANT IdleAtShared
PROPERTY CommitsAreAtomic
