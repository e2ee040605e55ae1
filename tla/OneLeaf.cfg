SPECIFICATION Spec
CONSTANTS
  RECORDS_PER_FILE = 2
  MAX_SEQUENCE = 4
  FILES_PER_LEAF = 3
  Faults = {"interrupt", "power_loss"}
  MaxFaults = 3
PROPERTIES
  RecoveredIsPrefix
CHECK_DEADLOCK FALSE
