SPECIFICATION Spec
CONSTANTS
  NLevels = 2
  Early = 2
  Closings = {"broken"}
  MaxId = 5
  MaxDrops = 0
  MaxFetchFails = 0
  MaxLosses = 1
  MaxRefusals = 0
INVARIANT PublishedExact
CHECK_DEADLOCK FALSE
