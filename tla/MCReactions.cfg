SPECIFICATION FairSpec
CONSTANTS
  MaxSeq = 4
  MaxPending = 2
PROPERTIES
  LinesInOrder
  NothingHeldUp
CHECK_DEADLOCK FALSE
