SPECIFICATION FairSpec
CONSTANTS
  b1 = b1
  b2 = b2
  b3 = b3
  t1 = t1
  NTypes = 2
  Rows = {b1, b2, b3, t1}
  TypeOf <- MCTypeOf
  Rejected = {b1}
  Threshold <- MCThreshold
  Chunk = 2
  MaxRetries = 1
  Drivers = {TRUE, FALSE}
  MaxFaults = 1
INVARIANTS
  TypeOK
  NoRowForgotten
  BadRowCostsOnlyItself
  CopiesPaidFor
  StopSettlesEarlyRows
PROPERTIES
  TimedRowsLeave
  StopCompletes
CHECK_DEADLOCK FALSE
