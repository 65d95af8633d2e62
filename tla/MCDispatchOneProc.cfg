CONSTANTS
  w1 = w1  w2 = w2
  Task = {1, 2}
  Proc = {p1}
  Worker = {w1, w2}
  Token = {k1, k2, k3, k4}
  Matches <- Labels
  LateAcks = FALSE
  MaxFaults = 1
  NoTask = NoTask  NoToken = NoToken  NoWorker = NoWorker
SPECIFICATION FairSpec
INVARIANTS NoTaskLost ClaimHidesTask AtMostOnce
PROPERTY EventuallyAcked
