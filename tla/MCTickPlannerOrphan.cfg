CONSTANTS
  MaxTime = 4
  DAGs <- CatchUp
  MaxMissed = 2
  MaxFaults = 1
SPECIFICATION FairSpec
PROPERTIES CatchUpNeverBlocks
