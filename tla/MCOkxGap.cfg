SPECIFICATION FairSpec
CONSTANTS
  Symbols = {a, b}
  Markets = {"spot"}
  QueueMax = 1
  HighMark = 1
  BufferMax = 1
  Threshold = 2
  MaxErrors = 3
  MaxDrops = 1
  MaxLosses = 0
  MaxRestarts = 0
  MaxRejects = 0
PROPERTY GapHeals
CHECK_DEADLOCK FALSE
