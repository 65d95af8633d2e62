CONSTANTS
  w1 = w1  w2 = w2
  Task = {1}
  Proc = {p1, p2}
  Worker = {w1, w2}
  Token = {k1, k2}
  Matches <- Labels
  LateAcks = TRUE
  MaxFaults = 1
  NoTask = NoTask  NoToken = NoToken  NoWorker = NoWorker
SPECIFICATION Spec
INVARIANTS NoTaskLost
CHECK_DEADLOCK FALSE
SYMMETRY Symmetric
