CONSTANTS
  s1 = s1  s2 = s2  s3 = s3  s4 = s4  s5 = s5
  Node = {s1, s2, s3, s4, s5}
  Order <- Seq5
  Deps <- ThreeRootsDeps
  InitialStatus <- Fresh
  MaxActive = 2
  ContinueOnFailure = {s1}
  ContinueOnSkipped = {s2}
  MarkSuccess = {s1}
  RetryLimit <- RetryA
  ExternalRetry = TRUE
  Repeating = {s5}
  RepeatLimit <- TwiceE
  Approval = {s2}
  SubDAG = {s1}
  StepTimeout = {s5}
  Outcomes <- GateOutcomes
  HasTimeout = TRUE
  MaxSignals = 0
  Handlers = {"onInit", "onSuccess", "onFailure", "onAbort", "onExit", "onWait"}
  HandlersMayFail = TRUE
  PreconditionsMayFail = TRUE
SPECIFICATION FairSpec
INVARIANTS ActiveBound
PROPERTIES DeadlockOnlyByPanic Terminates
