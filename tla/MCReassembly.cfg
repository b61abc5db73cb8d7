SPECIFICATION Spec
CONSTANTS
  SeqSpace = 32
  MaxStreamBuffer = 4
  MaxSegments = 2
  Policy = "FirstWins"
  Inputs <- MCInputs
  MaxFeeds = 4
INVARIANTS TypeOK DeliveredIsSent FirstCopyWins NoSilentLoss GapsExact
PROPERTY OverflowOnlyOverBudget
CHECK_DEADLOCK FALSE
