SPECIFICATION Spec
CONSTANTS
  Tip = 4
  Blocks = {1, 2, 3, 4}
  Touching = {1, 2, 4}
  Matching = {2, 4}
  Indexed = 2
  UsesBitmap = TRUE
  RegistryVersion = 3
  StartHeights = {3}
  MaxStreamSize = 2
  MaxStops = 1
  MaxErrors = 0
  MaxUpdates = 0
INVARIANT SkipsNothing
