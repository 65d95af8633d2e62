CONSTANTS
  MaxTime = 4
  DAGs <- Mixed
  MaxMissed = 2
  MaxFaults = 1
SPECIFICATION FairSpec
  
PROPERTIES CatchUpInOrder  CatchUpDrains 
