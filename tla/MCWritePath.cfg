SPECIFICATION PathSpec
CONSTANTS
  w1 = w1
  w2 = w2
  b1 = b1
  NULL = NULL
  DISK = DISK
  Writers = {w1}
  Snapshotters = {}
  Backups = {}
  Batches = {1, 2, NULL}
  Calls <- ThreeEach
  MaxCrashes = 2
  RecoverFaults = FALSE
INVARIANTS AckedReadable AckedDurable GetReturnsNewest
