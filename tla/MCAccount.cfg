SPECIFICATION FairSpec
CONSTANTS
  Own = own
  Other = other
  Paths = {own, other}
  Nowhere = nowhere
  StopDeadline = 4
  ReleaseTail = 2
  DrainCap = 2
  ReprobeAfter = 2
INVARIANTS
  CleanupInTime
  ReprobesNeverOverlap
  StatusTellsTruth
PROPERTIES
  ReleaseReserved
  RunEndsWhenItMust
CHECK_DEADLOCK FALSE
