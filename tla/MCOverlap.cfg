SPECIFICATION LevelsSpec
CONSTANTS
  Keys = {1, 2, 3}
  NumLevels = 4
  L0Trigger = 2
  MaxMemLevel = 2
  L0Inputs = 2
  Checked = FALSE
  Bounds <- MCOverlap
INVARIANT LevelsDisjoint
CHECK_DEADLOCK FALSE
