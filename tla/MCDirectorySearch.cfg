SPECIFICATION Spec
CONSTANTS
  Radix = 2
  Depth = 2
  MAX_FILE = 4
  MaxLogs = 2
INVARIANTS MaximumIsExact StackIsSiblings
CHECK_DEADLOCK FALSE
