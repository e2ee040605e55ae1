SPECIFICATION PipeSpec
CONSTANTS
  HeaderLen = 1
  MinRecordLen = 2
  InitialCapacity = 3
  Shapes = {}
  MaxBytes = 8
  MaxPayloadLen = 2
  Chunks = {1, 2}
  MaxOffered = 3
  MaxCalls = 2
INVARIANTS PipeTypeOK SizeErrorSurfaces BatchIsUnacknowledged
PROPERTIES ImplementsChannel AcknowledgedComesOut
