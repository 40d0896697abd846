SPECIFICATION FairSpec
CONSTANTS
  MaxSeq = 4
  MaxLease = 2
  MaxDrops = 2
  MaxInflight = 1
  Passive = {1}
  Own = {3}
INVARIANTS
  AckOnlyDecided
  AdoptedForGood
  InflightBounded
PROPERTIES
  NoAckAfterFailure
  ImplementsDelivery
  EverythingAcked
CHECK_DEADLOCK FALSE
