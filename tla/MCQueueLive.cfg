SPECIFICATION FairSpec
CONSTANTS
  w1 = w1
  w2 = w2
  s1 = s1
  b1 = b1
  b2 = b2
  NULL = NULL
  DISK = DISK
  Writers = {w1, w2}
  Snapshotters = {s1}
  Backups = {b1, b2}
  Batches = {1, NULL}
  Calls <- LivePlans
INVARIANTS
  ListSound TicketsDisjoint QueueInTicketOrder NoSleepingHead FlushDutyKept BackupsExclusive
PROPERTIES CallsReturn
