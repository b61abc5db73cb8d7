SPECIFICATION FairSpec
CONSTANTS
  MaxCommands = 5
  MaxEvents = 1
INVARIANTS TypeOK AnswersHold RunFramed SingleCaller FinishedBeforeClose
PROPERTY MainReturns
CHECK_DEADLOCK FALSE
