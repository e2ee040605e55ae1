SPECIFICATION FairSpec
CONSTANTS
  RECORDS_PER_FILE = 2
  MAX_SEQUENCE = 4
  FILES_PER_LEAF = 1
  Faults = {"interrupt", "power_loss"}
  MaxFaults = 2
INVARIANTS
  TypeOK
  CheckpointCovered
  ActivePairReady
  RepairedPairKeeps
PROPERTIES
  CheckpointNeverRetreats
  RecoveryKeepsRecords
  InitializationSucceeds
CHECK_DEADLOCK FALSE
