SPECIFICATION Spec
CONSTANTS
  MaxSeq = 3
  MaxDrops = 1
  MaxSends = 1
  MaxFiles = 3
  Limits = {0, 1}
  MaxNotes = 2
INVARIANTS
  ContextKept
  ShownOnce
  TurnHoldsHistory
  SendAccounted
CHECK_DEADLOCK FALSE
