SPECIFICATION FairSpec
CONSTANTS
  Capacity = 2
  MaxPushes = 5
INVARIANTS TypeOK NoWaitOnClosed
PROPERTIES ReportsEveryLoss EventuallyShown
CHECK_DEADLOCK FALSE
