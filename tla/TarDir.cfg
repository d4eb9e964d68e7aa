SPECIFICATION TarFairSpec
CONSTANTS
  MaxFiles = 3
  Threshold = 1
  MaxWorkers = 1
INVARIANTS ArchiveComplete FailureHasCause
PROPERTY NothingLeftBehind
CHECK_DEADLOCK FALSE
