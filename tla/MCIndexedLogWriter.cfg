SPECIFICATION FairSpec
CONSTANTS
  RECORDS_PER_FILE = 3
  MAX_SEQUENCE = 10
  FileNumber = 1
  Lengths = {1, 2}
  INDEX_ENTRY_LEN = 2
  RecoveredPairs <- MCRecoveredPairs
INVARIANTS
  TypeOK
  IndexNeverLeadsLog
  AppendedOnce
  FlushedIsReadable
  SyncedIsDurable
  FinalizedIsComplete
PROPERTIES
  FailureIsFinal
  BoundariesAdvance
  CallReturns
CHECK_DEADLOCK FALSE
