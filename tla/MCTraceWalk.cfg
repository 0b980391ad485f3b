CONSTANTS
  Size = 13
  Header = 2
  Blocks = {1, 2}
  MaxBlocks = 2
  MaxFrames = 5
  Modes = {TRUE}
  Counts = 16
SPECIFICATION Spec
INVARIANTS AllBlocksWalked
CHECK_DEADLOCK FALSE
