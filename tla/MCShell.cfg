SPECIFICATION FairSpec
CONSTANTS
  RunCalls = {"r1"}
  CancelCalls = {"c1"}
  Calls = {"r1", "c1"}
  Children = {1, 2}
  Frames <- MCFrames
  MaxStdout = 3
INVARIANTS TypeOK NoOrphanAgent CallsRegistered
PROPERTIES ReplacedAgentExits RecordedRunEnds PromptOnDeath
CHECK_DEADLOCK FALSE
