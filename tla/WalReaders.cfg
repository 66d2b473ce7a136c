CONSTANTS
  Conn = {w, r}
  Writers = {w}
  Ckpt = {k}
  Slots = 2
  MaxPage = 2
  Val = {1}
  MaxFrames = 3
  Synchronous = "Full"
  Faults = {"ckpt", "kill"}
  MaxKill = 1
  Concurrent = TRUE
  InitFrames = 1
SPECIFICATION FairSpec
INVARIANTS SnapshotStable CompleteMeansBackfilled
PROPERTY CheckpointCatchesUp
