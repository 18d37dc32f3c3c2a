SPECIFICATION PathSpec
CONSTANTS
  w1 = w1
  w2 = w2
  b1 = b1
  NULL = NULL
  DISK = DISK
  Writers = {w1, w2}
  Snapshotters = {}
  Backups = {}
  Batches = {1}
  Calls <- TwoEach
  MaxCrashes = 0
  RecoverFaults = FALSE
INVARIANTS GetReturnsNewest
