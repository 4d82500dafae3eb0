SPECIFICATION FairSpec
CONSTANTS
  NLevels = 2
  Early = 2
  BufferMax = 2
  Cleanups = {TRUE}
  MaxId = 6
INVARIANTS
  TypeOK
  HolesHaveCauses
PROPERTIES
  IdsAscend
  UpdatesAreCovered
  RebuildEnds
CHECK_DEADLOCK FALSE
