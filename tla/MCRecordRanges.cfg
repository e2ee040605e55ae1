SPECIFICATION Spec
CONSTANTS
  RECORDS_PER_FILE = 2
  MAX_SEQUENCE = 4
  Lengths = {1, 2}
  Streams = {s1, s2}
  MaxPosition = 3
INVARIANTS RangeIsExact FilesPartitionSequences
