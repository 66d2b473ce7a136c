CONSTANTS
  Conn = {w, x}
  Writers = {w, x}
  Ckpt = {}
  Slots = 2
  MaxPage = 3
  Val = {1}
  MaxFrames = 3
  Synchronous = "Full"
  Faults = {"kill"}
  MaxKill = 2
  Concurrent = TRUE
  InitFrames = 0
SPECIFICATION Spec
INVARIANT CommitReachesWal
PROPERTY LogOnlyGrows
