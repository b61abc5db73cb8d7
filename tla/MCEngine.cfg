SPECIFICATION Spec
CONSTANTS
  None = None
  SeqSpace = 32
  MaxStreamBuffer = 4
  MaxSegments = 2
  Policy = "FirstWins"
  FindingLimit = 1
  CallLimit = 1
  Tasks = {t1, t2}
  Paths = {p1}
  Files <- MCFiles
  MaxTasks = 1
  Requests <- MCRequests
  Drafts <- MCDrafts
  Runs = {r1, r2}
  MaxAnchors = 3
  MaxAnalyses = 3
  t1 = t1
  t2 = t2
  p1 = p1
  r1 = r1
  r2 = r2
INVARIANTS TypeOK AcceptedGrounded LostOnlyByCollision LedgerCoversDatabase AnchorsUnambiguous
SYMMETRY TaskRunSymmetry
CHECK_DEADLOCK FALSE
