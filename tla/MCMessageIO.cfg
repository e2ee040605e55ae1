SPECIFICATION Spec
CONSTANTS LENGTH_PREFIX_LEN = 2
          MAX_MESSAGE_BODY_LEN = 2
          Pieces = {1, 2}
          MaxMessages = 3
INVARIANTS StaysAligned
PROPERTIES ImplementsChannel AcknowledgedIsRead
CHECK_DEADLOCK FALSE
