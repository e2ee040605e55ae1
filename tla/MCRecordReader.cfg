SPECIFICATION FairSpec
CONSTANTS
  HeaderLen = 2
  MinRecordLen = 3
  InitialCapacity = 5
  Shapes <- MCShapes
  MaxBytes = 9
INVARIANTS TypeOK DeliveredArePrefix NothingOwedAtEnd PendingIsNextFrame
PROPERTIES EndIsReal TerminalIsFinal EndIsReached
