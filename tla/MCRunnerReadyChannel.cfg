CONSTANTS
  s1 = s1  s2 = s2  s3 = s3  s4 = s4  s5 = s5
  Node = {s1, s2, s3, s4, s5}
  Order <- Seq5
  Deps <- FanDeps
  InitialStatus <- Fresh
  MaxActive = 0
  ContinueOnFailure = {}
  ContinueOnSkipped = {}
  MarkSuccess = {}
  RetryLimit <- None
  ExternalRetry = FALSE
  Repeating = {}
  RepeatLimit <- None
  Approval = {}
  SubDAG = {}
  StepTimeout = {}
  Outcomes <- Calm
  HasTimeout = FALSE
  MaxSignals = 0
  Handlers = {"onExit"}
  HandlersMayFail = FALSE
  PreconditionsMayFail = FALSE
SPECIFICATION Spec
INVARIANTS ReadyChannelNeverBlocks
