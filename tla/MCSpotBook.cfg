SPECIFICATION FairSpec
CONSTANTS
  NLevels = 2
  Early = 2
  Closings = {"broken", "closed"}
  MaxId = 6
  MaxDrops = 1
  MaxFetchFails = 1
  MaxLosses = 1
  MaxRefusals = 1
INVARIANTS
  TypeOK
  HolesHaveCauses
PROPERTIES
  UpdatesAreCovered
CHECK_DEADLOCK FALSE
