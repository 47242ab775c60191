CONSTANTS
  Threads = {"shell", "other"}
  Session = "shell"
  Durations <- MCDurations
  MaxCalls = 4
  MaxOthers = 2
  Names = {"a", "alias", "b"}
  Primary = "a"
  Others = {}
  FileOf <- MCFileOf
SPECIFICATION Spec
INVARIANTS
  MetricsAgree
  NothingHalf
PROPERTIES
  SnapshotTear
  TransactionOutlives
CHECK_DEADLOCK FALSE
