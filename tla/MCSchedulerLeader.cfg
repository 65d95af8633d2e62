CONSTANTS
  Inst = {s1, s2}
  Token = {k1, k2, k3}
  NoToken = NoToken  NoDir = NoDir  NoInst = NoInst
  StartAll = {s1}
  MaxFaults = 2
SPECIFICATION FairSpec
INVARIANTS TwoHoldersMeansTakeover NoOrphanLock TwoTicksExplained
PROPERTIES ImplementsFencedLock Failover TwoHoldersEnd
