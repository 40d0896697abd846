SPECIFICATION FairSpec
CONSTANTS
  Rooms = {r1, r2}
  MaxVersion = 1
  MaxRetries = 2
  MaxQueue = 1
INVARIANTS
  BarrierKeepsFresh
PROPERTIES
  BarrierWakes
CHECK_DEADLOCK FALSE
