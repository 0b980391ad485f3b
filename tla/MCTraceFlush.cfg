CONSTANTS
  Size = 8
  Header = 1
  Blocks = {1, 2}
  MaxBlocks = 2
  MaxFrames = 3
  Counters = 4
SPECIFICATION FairSpec
INVARIANTS GrantIsLive UploadedInOrder
PROPERTIES IsLog CollectionEnds
CHECK_DEADLOCK FALSE
