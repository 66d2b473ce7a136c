CONSTANTS
  Conn = {a, b}
  MaxPage = 2
  Val = {0, 1}
  Synchronous = "Full"
  TornWrites = TRUE
  Faults = {"power"}
  MaxFail = 0
SPECIFICATION Spec
INVARIANTS ReadsAreCommitted HotJournalNeverIgnored
PROPERTY CommitsAreAtomic
