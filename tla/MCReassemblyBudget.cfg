SPECIFICATION Spec
CONSTANTS
  SeqSpace = 32
  MaxStreamBuffer = 4
  MaxSegments = 2
  Policy = "FirstWins"
  Inputs <- MCInputs
  MaxFeeds = 4
INVARIANT HeldWithinBudget
CHECK_DEADLOCK FALSE
