SPECIFICATION Spec
CONSTANTS
  MaxSteps = 5
  MaxLlmCalls = 5
  MaxToolCalls = 4
  MaxSameToolCalls = 3
  MaxTokens = 6
  MaxInvalid = 2
  Signatures = {"a", "b"}
  RoundTokens <- MCRoundTokens
  MaxBatch = 2
  MaxDrafts = 2
INVARIANTS TypeOK WithinBudget EndExplained
CHECK_DEADLOCK FALSE
