SPECIFICATION Spec
CONSTANTS
  MaxSeq = 1
  MaxLease = 2
  MaxDrops = 0
  MaxInflight = 1
  Passive = {}
  Own = {}
PROPERTIES
  NoAdoptionAfterStop
CHECK_DEADLOCK FALSE
