SPECIFICATION FairSpec
CONSTANTS
  Processes = {i, j}
  Bad = {2}
  MaxDeliver = 2
  MaxAckPending = 2
  MaxAttempts = 2
  MaxMessages = 3
  MaxStarts = 2
  MaxFaults = 2
INVARIANTS
  TypeOK
  NothingForgotten
  CopiesPaidFor
  OneRuns
PROPERTY PublishedIsStored
CHECK_DEADLOCK FALSE
