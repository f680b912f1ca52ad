SPECIFICATION FairSpec
CONSTANTS
  Tip = 5
  Blocks = {1, 2, 3, 5}
  Touching = {1, 2, 5}
  Matching = {1, 2, 3, 5}
  Indexed = 2
  UsesBitmap = TRUE
  RegistryVersion = 2
  StartHeights = {1, 3}
  MaxStreamSize = 2
  MaxStops = 2
  MaxErrors = 1
  MaxUpdates = 1
INVARIANT SkipsOnePerCut
INVARIANT QueueInOrder
INVARIANT QueueBounded
PROPERTY CursorNeverDecreases
PROPERTY ReachesTip
CHECK_DEADLOCK FALSE
