SPECIFICATION RecSpec
CONSTANTS
  MaxStarts = 3
  MaxOps = 3
  MaxJobs = 2
  Repairs = TRUE
INVARIANTS AckedRecoverable SequenceFresh
CHECK_DEADLOCK FALSE
