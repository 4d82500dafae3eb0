SPECIFICATION FairSpec
CONSTANTS
  NSymbols = 2
  MaxUnanswered = 1
  MaxLosses = 1
  MaxRefusals = 1
PROPERTY ConnectionComesBack
CHECK_DEADLOCK FALSE
