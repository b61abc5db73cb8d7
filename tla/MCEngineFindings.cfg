SPECIFICATION Spec
CONSTANTS
  None = None
  SeqSpace = 32
  MaxStreamBuffer = 4
  MaxSegments = 2
  Policy = "FirstWins"
  FindingLimit = 5
  CallLimit = 5
  Tasks = {t1, t2}
  Paths = {p1}
  Files <- MCFiles
  MaxTasks = 2
  Requests <- MCFewRequests
  Drafts <- MCDrafts
  Runs = {r1, r2}
  MaxAnchors = 4
  MaxAnalyses = 2
  t1 = t1
  t2 = t2
  p1 = p1
  r1 = r1
  r2 = r2
INVARIANT FindingsSurvive
SYMMETRY TaskRunSymmetry
CHECK_DEADLOCK FALSE
