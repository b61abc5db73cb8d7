SPECIFICATION Spec
CONSTANTS
  None = None
  WordMax = 1073741823
  Mapping = Mapping
  EmptyText = EmptyText
  NotGiven = NotGiven
  ValidRuleIds = {"R1", "R2", "R3", "R4"}
  MaxGroups = 3
  MaxGroupEvents = 2
  MinTime <- MCMinTime
  SeqSpace = 32
  MaxStreamBuffer = 4
  MaxSegments = 2
  Policy = "FirstWins"
  MaxSessions = 1
  StreamTimeout = 10
  Blocks <- MCBlocks
  MaxBlocks = 5
  Configs <- MCConfigs
  BuiltinRules <- MCBuiltin
  MaxStreamStates = 2
INVARIANTS TypeOK WindowsExact RulesOverlay ReadsItsSection SessionsPartition ReplayAgrees CooldownHolds EvidenceHolds ReportAddsUp
CHECK_DEADLOCK FALSE
