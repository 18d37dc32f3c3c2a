SPECIFICATION LogSpec
CONSTANTS
  BlockSize = 8
  HeaderSize = 3
  Adders = {a1, a2, a3}
  Sizes = {0, 1, 6, 12}
  MaxBadWrites = 1
INVARIANT LogSound
CHECK_DEADLOCK FALSE
