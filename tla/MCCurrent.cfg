SPECIFICATION RecSpec
CONSTANTS
  MaxStarts = 3
  MaxOps = 3
  MaxJobs = 2
  Repairs = FALSE
INVARIANT AlwaysReopens
CHECK_DEADLOCK FALSE
