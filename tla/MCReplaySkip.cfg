SPECIFICATION ReplaySpec
CONSTANTS
  ReplayPlans <- MCReplayPlans
  ReplayWriters = {w1, w2}
  ReplayPasses = 1
INVARIANT ReplayComplete
CHECK_DEADLOCK FALSE
