SPECIFICATION ReplaySpec
CONSTANTS
  ReplayPlans <- MCReplayLonger
  ReplayWriters = {w1, w2}
  ReplayPasses = 1
INVARIANT ReplayOfMem
CHECK_DEADLOCK FALSE
