SPECIFICATION FairSpec
CONSTANTS
  Symbols = {a}
  Markets = {"spot", "derivatives"}
  QueueMax = 2
  HighMark = 1
  BufferMax = 2
  Threshold = 2
  MaxErrors = 3
  MaxDrops = 2
  MaxLosses = 1
  MaxRestarts = 1
  MaxRejects = 1
INVARIANTS
  TypeOK
  HolesTakeARestart
PROPERTIES
  BookComesBack
  GapHeals
CHECK_DEADLOCK FALSE
