CONSTANTS
  Conn = {w}
  Writers = {w}
  Ckpt = {k}
  Slots = 1
  MaxPage = 3
  Val = {1}
  MaxFrames = 3
  Synchronous = "Full"
  Faults = {"power"}
  MaxKill = 1
  Concurrent = FALSE
  InitFrames = 1
SPECIFICATION Spec
PROPERTY CommitsAreAtomic
