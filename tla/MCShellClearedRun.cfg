SPECIFICATION Spec
CONSTANTS
  RunCalls = {"r1"}
  CancelCalls = {"c1"}
  Calls = {"r1", "c1"}
  Children = {1, 2}
  Frames <- MCFrames
  MaxStdout = 3
PROPERTY ClearedOnlyWithoutRun
CHECK_DEADLOCK FALSE
