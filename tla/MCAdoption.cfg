SPECIFICATION TrackerFairSpec
CONSTANTS
  StallTicks = 3
  MaxArms = 4
INVARIANTS
  CommitOnce
  SettledTellsTruth
PROPERTIES
  WatchdogErrsToNeitherSide
