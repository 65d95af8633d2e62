CONSTANTS
  s1 = s1  s2 = s2  s3 = s3  s4 = s4  s5 = s5
  Node = {s1, s2, s3, s4}
  Order <- Seq4
  Deps <- JoinDeps
  InitialStatus <- FreshOrRetried
  MaxActive = 2
  ContinueOnFailure = {s2}
  ContinueOnSkipped = {}
  MarkSuccess = {}
  RetryLimit <- RetryA
  ExternalRetry = FALSE
  Repeating = {}
  RepeatLimit <- None
  Approval = {}
  SubDAG = {}
  StepTimeout = {}
  Outcomes <- JoinOutcomes
  HasTimeout = FALSE
  MaxSignals = 1
  Handlers = {"onExit"}
  HandlersMayFail = FALSE
  PreconditionsMayFail = FALSE
SPECIFICATION FairSpec
INVARIANTS TypeOK NothingForgotten QuiescentAtReturn SuccessMeansNoFailure
PROPERTIES LaunchOnce LaunchRespectsDeps  Terminates
