SPECIFICATION PathSpec
CONSTANTS
  w1 = w1
  w2 = w2
  b1 = b1
  NULL = NULL
  DISK = DISK
  Writers = {w1}
  Snapshotters = {}
  Backups = {b1}
  Batches = {1, NULL}
  Calls <- OneBackup
  MaxCrashes = 1
  RecoverFaults = FALSE
INVARIANTS BackupComplete
