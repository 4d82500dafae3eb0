SPECIFICATION FairSpec
CONSTANTS
  Plan <- MCPlan
  ManagerWait = 4
  ExchangeWait = 5
  Durations = {0, 6}
  Autos = {TRUE, FALSE}
  MaxRestarts = 1
INVARIANTS
  TypeOK
  RunningIsRecorded
  GivesUpWithoutAny
PROPERTIES
  SignalEnds
CHECK_DEADLOCK FALSE
