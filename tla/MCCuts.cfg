SPECIFICATION LevelsSpec
CONSTANTS
  Keys = {1, 2}
  NumLevels = 4
  L0Trigger = 2
  MaxMemLevel = 1
  L0Inputs = 2
  Checked = FALSE
  Bounds <- MCCuts
INVARIANT ReadsNewest
CHECK_DEADLOCK FALSE
