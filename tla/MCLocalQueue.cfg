SPECIFICATION FairSpec
CONSTANTS
  Runs = 2
  Procs = 2
  MaxConcurrency = 1
  Budgets <- PairsOfCauses
INVARIANTS SlotsBound NoDoubleRun 
PROPERTIES RepairSparesLive  QueuedMoves
CHECK_DEADLOCK FALSE
