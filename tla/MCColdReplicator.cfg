SPECIFICATION FairSpec
CONSTANTS
  h1 = h1
  h2 = h2
  h3 = h3
  l1 = l1
  l2 = l2
  Rows = {h1, h2}
  NTables = 2
  TableOf <- MCTableOf
  Stamp <- MCStamp
  Modes = {"full", "recent", "off"}
  Window = 2
  Lag <- MCLag
  MaxCatchup <- MCMaxCatchup
  RecentSpan = 2
  CleanupDelay = 1
  StartTime = 4
  MaxTime = 7
  MaxFaults = 1
INVARIANTS
  TypeOK
  NoHoleBelowWatermark
  NoneInNeitherStore
  FaultFreeExactlyOnce
  DuplicatesPaidFor
PROPERTIES
  KeepsPromise
  OwedRowsAreCopied
