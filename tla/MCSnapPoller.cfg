SPECIFICATION FairSpec
CONSTANTS
  NSymbols = 2
  MaxUnanswered = 2
  MaxLosses = 2
  MaxRefusals = 1
INVARIANTS
  TypeOK
  AnswersAreOwn
PROPERTIES
  OnlyPeersClose
  LockIsPassedOn
  FetchHeals
CHECK_DEADLOCK FALSE
