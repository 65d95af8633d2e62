------------------------------- MODULE Runner -------------------------------
(***************************************************************************)
(* The step scheduler of one DAG run: runtime.Runner.Run, its event loop,  *)
(* one goroutine per launched step, and Runner.Signal running in a third   *)
(* goroutine.  The loop owns the ready channel, the counter running and    *)
(* every node that is NotStarted; a step's goroutine owns the node's       *)
(* status from its launch on, except that Signal turns Running into        *)
(* Aborted.  Commands, conditions, retry conditions and teardown are the   *)
(* environment: Outcomes says what may happen to a step.                   *)
(***************************************************************************)
EXTENDS Integers, Sequences, FiniteSets

CONSTANTS
  Node,              \* the plan's nodes
  Order,             \* plan.nodes: every node once
  Deps,              \* plan.DependencyMap: a sequence of nodes per node
  InitialStatus,     \* the statuses a plan may start from: a set of functions
  MaxActive,         \* Config.MaxActiveSteps; 0 is unlimited
  ContinueOnFailure, \* steps whose continueOn covers their failures
  ContinueOnSkipped, \* steps with continueOn.skipped
  MarkSuccess,       \* steps with continueOn.markSuccess
  RetryLimit,        \* retryPolicy.limit of every step
  ExternalRetry,     \* externalStepRetryEnabled
  Repeating,         \* steps with a repeat mode
  RepeatLimit,       \* repeatPolicy.limit of every step; 0 is unlimited
  Approval,          \* steps with an approval gate
  SubDAG,            \* steps whose executor determines the node status
  StepTimeout,       \* steps with a timeout of their own
  Outcomes,          \* what the environment may do to each step
  HasTimeout,        \* the DAG has a timeout
  MaxSignals,        \* bound: termination signals delivered to the run
  Handlers,          \* the configured event handlers
  HandlersMayFail,   \* event handlers may return an error
  PreconditionsMayFail \* the DAG-level preconditions may not be met

NodeStatus == {"NotStarted", "Running", "Failed", "Aborted", "Succeeded",
               "Skipped", "PartiallySucceeded", "Waiting", "Rejected", "Retrying"}

DAGStatus == {"Running", "Failed", "Aborted", "Succeeded", "Queued",
              "PartiallySucceeded", "Waiting", "Rejected"}

Outcome == {"prepareError", "skip", "ok", "partial", "waiting", "error",
            "fatalExit", "deadline", "panic", "teardownError"}

HandlerType == {"onInit", "onSuccess", "onFailure", "onAbort", "onExit", "onWait"}

ASSUME RunnerAssumption ==
  /\ IsFiniteSet(Node) /\ Node \cap {"nil", "handler", "deadlock", "deadline"} = {}
  /\ Order \in Seq(Node)
  /\ \A n \in Node : \E i \in DOMAIN Order : Order[i] = n
  /\ \A i, j \in DOMAIN Order : Order[i] = Order[j] => i = j
  /\ Deps \in [Node -> Seq(Node)]
  /\ InitialStatus \subseteq [Node -> NodeStatus \ {"Running"}]
  /\ MaxActive \in Nat
  /\ RetryLimit \in [Node -> Nat] /\ RepeatLimit \in [Node -> Nat]
  /\ ExternalRetry \in BOOLEAN /\ HasTimeout \in BOOLEAN
  /\ HandlersMayFail \in BOOLEAN /\ PreconditionsMayFail \in BOOLEAN
  /\ MaxSignals \in Nat
  /\ Outcomes \in [Node -> SUBSET Outcome]
  /\ Handlers \subseteq HandlerType

VARIABLES
  status,      \* node.State().Status
  retryCount,  \* node.State().RetryCount
  doneCount,   \* node.State().DoneCount
  gpc,         \* where the node's goroutine stands
  execErr,     \* the nodes whose last execution returned an error
  canceled,    \* r.canceled
  lastError,   \* r.lastError: "nil", a node, or another source of the error
  loop,        \* where Run stands
  scanPos,     \* the node the initial scan looks at next
  readyCh, doneCh, running,
  activeReady, \* activeReadyCh is readyCh, not nil
  queue,       \* processCompletedNode: nodes whose children are still to be visited
  children,    \* positions of the current node's children still to be visited
  deadline,    \* the DAG's timeout: ctx.Done() and ctxDoneCh
  sigPos,      \* the node Signal looks at next; 0 when no Signal is running
  sigLeft,     \* signals still to come
  todo, ran,   \* event handlers to run and already run
  verdict,     \* the status the handlers were selected by
  finished     \* plan.finishedAt is set

nodeVars    == <<status, retryCount, doneCount, gpc, execErr>>
walkVars    == <<queue, children>>
chanVars    == <<readyCh, doneCh, running, activeReady, walkVars>>
sigVars     == <<sigPos, sigLeft>>
handlerVars == <<todo, ran, verdict, finished>>
vars == <<nodeVars, canceled, lastError, loop, scanPos, chanVars, deadline,
          sigVars, handlerVars>>

-----------------------------------------------------------------------------
(* The plan.                                                               *)

Upstream(n) == {Deps[n][i] : i \in DOMAIN Deps[n]}

\* plan.DependantMap: the positions of a node's children.  buildEdges adds the
\* edges in the order of plan.nodes, and that is the order of the walk.
Dependents(n) == {i \in DOMAIN Order : n \in Upstream(Order[i])}

Has(s) == \E n \in Node : status[n] = s

CheckFinished == ~Has("Running") /\ ~Has("Retrying") /\ ~Has("NotStarted")

\* node.ShouldContinue, for the statuses isReady and isPartialSuccess ask about.
ShouldContinue(d) ==
  \/ status[d] \in {"Succeeded", "PartiallySucceeded"}
  \/ status[d] = "Failed"  /\ d \in ContinueOnFailure
  \/ status[d] = "Skipped" /\ d \in ContinueOnSkipped

\* The dependencies at which isReady's scan does not go on.
Blockers(n) == {i \in DOMAIN Deps[n] : ~ShouldContinue(Deps[n][i])}

\* Mutant of isReady: a dependency that has not run yet does not block.
isReadyTooEarly(n) ==
  \A i \in Blockers(n) : status[Deps[n][i]] \in {"NotStarted", "Running"}

isReady(n) == Blockers(n) = {}

\* The status isReady gives a node that is not ready: decided by the first
\* dependency that stops the scan.
UpstreamMark(n) ==
  LET i == CHOOSE j \in Blockers(n) : \A k \in Blockers(n) : j <= k
      s == status[Deps[n][i]]
  IN  CASE s \in {"Failed", "Aborted", "Rejected"} -> "Aborted"
        [] s = "Skipped" -> "Skipped"
        [] OTHER -> status[n]

-----------------------------------------------------------------------------
(* The run's status.                                                       *)

isSucceed ==
  \A n \in Node : status[n] \in {"Succeeded", "Skipped", "PartiallySucceeded"}

\* Mutant of isPartialSuccess: the first pass is missing.
isPartialSuccessLenient ==
  /\ Has("Succeeded") \/ Has("PartiallySucceeded")
  /\ Has("PartiallySucceeded") \/ Has("Failed")

isPartialSuccess ==
  /\ \A n \in Node : status[n] = "Failed" => ShouldContinue(n)
  /\ Has("Succeeded") \/ Has("PartiallySucceeded")
  /\ \/ Has("PartiallySucceeded")
     \/ \E n \in Node : status[n] = "Failed" /\ n \notin MarkSuccess

Status ==
  IF canceled /\ ~isSucceed THEN "Aborted"
  ELSE IF Has("Running")  THEN "Running"
  ELSE IF Has("Retrying") THEN "Queued"
  ELSE IF Has("Rejected") THEN "Rejected"
  ELSE IF Has("Waiting")  THEN "Waiting"
  ELSE IF Has("NotStarted") /\ ~finished THEN "Running"
  ELSE IF isPartialSuccess THEN "PartiallySucceeded"
  ELSE IF lastError # "nil" THEN "Failed"
  ELSE "Succeeded"

-----------------------------------------------------------------------------
(* Run, before the event loop.                                             *)

Init ==
  /\ status \in InitialStatus
  /\ retryCount = [n \in Node |-> 0]
  /\ doneCount = [n \in Node |-> 0]
  /\ gpc = [n \in Node |-> "idle"]
  /\ execErr = {}
  /\ canceled = FALSE
  /\ lastError = "nil"
  /\ loop = "setup"
  /\ scanPos = 1
  /\ readyCh = <<>> /\ doneCh = <<>> /\ running = 0
  /\ activeReady = FALSE
  /\ queue = <<>> /\ children = {}
  /\ deadline = IF HasTimeout THEN "armed" ELSE "off"
  /\ sigPos = 0
  /\ sigLeft = MaxSignals
  /\ todo = <<>> /\ ran = <<>> /\ verdict = "Running" /\ finished = FALSE

\* EvalConditions; preconditions that are not met Cancel the run.  No node is
\* Running yet, so node.Cancel changes nothing.
EvalPreconditions ==
  /\ loop = "setup"
  /\ loop' = "init"
  /\ canceled' \in {canceled} \cup (IF PreconditionsMayFail THEN {TRUE} ELSE {})
  /\ UNCHANGED <<nodeVars, lastError, scanPos, chanVars, deadline, sigVars, handlerVars>>

\* The onInit handler: an error of its command fails the run.
RunInitHandler ==
  /\ loop = "init"
  /\ loop' = "scan"
  /\ IF canceled \/ "onInit" \notin Handlers
       THEN UNCHANGED <<canceled, lastError, ran>>
       ELSE /\ ran' = Append(ran, "onInit")
            /\ \/ UNCHANGED <<canceled, lastError>>
               \/ HandlersMayFail /\ canceled' = TRUE /\ lastError' = "handler"
  /\ UNCHANGED <<nodeVars, scanPos, chanVars, deadline, sigVars, todo, verdict, finished>>

\* One iteration of the initial scan for ready nodes.  A node that is not
\* ready may be marked by its upstream; nothing propagates that mark.
ScanNode ==
  /\ loop = "scan"
  /\ scanPos \in DOMAIN Order
  /\ LET n == Order[scanPos] IN
       IF status[n] # "NotStarted" THEN UNCHANGED <<status, readyCh>>
       ELSE IF isReady(n)
         THEN readyCh' = Append(readyCh, n) /\ UNCHANGED status
         ELSE status' = [status EXCEPT ![n] = UpstreamMark(n)] /\ UNCHANGED readyCh
  /\ scanPos' = scanPos + 1
  /\ UNCHANGED <<retryCount, doneCount, gpc, execErr, canceled, lastError, loop, doneCh,
                 running, activeReady, walkVars, deadline, sigVars, handlerVars>>

ScanDone ==
  /\ loop = "scan"
  /\ scanPos \notin DOMAIN Order
  /\ loop' = "top"
  /\ UNCHANGED <<nodeVars, canceled, lastError, scanPos, chanVars, deadline, sigVars,
                 handlerVars>>

-----------------------------------------------------------------------------
(* The event loop.                                                         *)

\* The loop condition and the first break: the run is finished, or it is
\* canceled and no goroutine is left.
LoopTop ==
  /\ loop = "top"
  /\ loop' = IF CheckFinished \/ (canceled /\ running = 0) THEN "wait" ELSE "gate"
  /\ UNCHANGED <<nodeVars, canceled, lastError, scanPos, chanVars, deadline, sigVars,
                 handlerVars>>

\* Mutant of SlotFree: one step too many.
SlotFreeOffByOne == MaxActive = 0 \/ running <= MaxActive

SlotFree == MaxActive = 0 \/ running < MaxActive

\* activeReadyCh is chosen once per iteration, before the breaks below.
LoopGate ==
  /\ loop = "gate"
  /\ loop' = "breaks"
  /\ activeReady' = (~canceled /\ SlotFree)
  /\ UNCHANGED <<nodeVars, canceled, lastError, scanPos, readyCh, doneCh, running, walkVars,
                 deadline, sigVars, handlerVars>>

\* Mutant of Parked: the break for a pending step retry is missing.
ParkedOnApprovalOnly == running = 0 /\ readyCh = <<>> /\ Has("Waiting")

\* The run waits for an approval or for a retry its parent schedules.
Parked == running = 0 /\ readyCh = <<>> /\ (Has("Waiting") \/ Has("Retrying"))

\* The breaks for a run that is parked and for a run that is stuck; otherwise
\* select.
\* len(activeReadyCh) is 0 when activeReadyCh is nil.
LoopBreaks ==
  /\ loop = "breaks"
  /\ LET stuck == running = 0 /\ (readyCh = <<>> \/ ~activeReady) /\ ~CheckFinished
     IN  /\ loop' = IF Parked \/ stuck THEN "wait" ELSE "select"
         /\ lastError' = IF stuck /\ ~Parked THEN "deadlock" ELSE lastError
  /\ UNCHANGED <<nodeVars, canceled, scanPos, chanVars, deadline, sigVars, handlerVars>>

\* Mutant of MayLaunch: the double check of the status is dropped.
MayLaunchUnchecked(n) == TRUE

\* The double check: a node is queued once per parent that completes before
\* the loop receives it.
MayLaunch(n) == status[n] = "NotStarted"

\* select: a ready node.  It may have been queued more than once.
ReceiveReady ==
  /\ loop = "select"
  /\ activeReady /\ readyCh # <<>>
  /\ readyCh' = Tail(readyCh)
  /\ LET n == Head(readyCh) IN
       IF MayLaunch(n)
         THEN /\ status' = [status EXCEPT ![n] = "Running"]
              /\ running' = running + 1
              /\ gpc' = [gpc EXCEPT ![n] = "prepare"]
         ELSE UNCHANGED <<status, running, gpc>>
  /\ loop' = "top"
  /\ UNCHANGED <<retryCount, doneCount, execErr, canceled, lastError, scanPos, doneCh,
                 activeReady, walkVars, deadline, sigVars, handlerVars>>

\* select: a finished goroutine; processCompletedNode begins unless the run
\* is canceled.
ReceiveDone ==
  /\ loop = "select"
  /\ doneCh # <<>>
  /\ doneCh' = Tail(doneCh)
  /\ running' = running - 1
  /\ queue' = IF canceled THEN <<>> ELSE <<Head(doneCh)>>
  /\ loop' = IF canceled THEN "top" ELSE "visit"
  /\ UNCHANGED <<nodeVars, canceled, lastError, scanPos, readyCh, activeReady, children, deadline,
                 sigVars, handlerVars>>

\* Mutant of DeadlineSeen: ctxDoneCh is not set to nil.
DeadlineSeenAgain == "expired"

DeadlineSeen == "noticed"

\* select: the DAG's timeout; ctxDoneCh = nil disables this case.
ReceiveDeadline ==
  /\ loop = "select"
  /\ deadline = "expired"
  /\ deadline' = DeadlineSeen
  /\ lastError' = IF lastError = "nil" THEN "deadline" ELSE lastError
  /\ loop' = "top"
  /\ UNCHANGED <<nodeVars, canceled, scanPos, chanVars, sigVars, handlerVars>>

\* readyCh <- child: the loop goroutine blocks while the channel is full, and
\* it is the channel's only receiver.
PushReady(c) ==
  /\ Len(readyCh) < Len(Order)
  /\ readyCh' = Append(readyCh, c)

\* Mutant of Propagate: a marked child is not queued.
PropagateNowhere(c) == queue

\* A child that isReady marked joins the queue, so that its own children are
\* visited too.
Propagate(c) == Append(queue, c)

\* The outer loop of processCompletedNode: the next node of the queue.
VisitNext ==
  /\ loop = "visit" /\ children = {}
  /\ IF queue = <<>>
       THEN loop' = "top" /\ UNCHANGED walkVars
       ELSE /\ children' = Dependents(Head(queue))
            /\ queue' = Tail(queue)
            /\ UNCHANGED loop
  /\ UNCHANGED <<nodeVars, canceled, lastError, scanPos, readyCh, doneCh, running,
                 activeReady, deadline, sigVars, handlerVars>>

\* The inner loop: the next child, at the lowest position left.
NextChild(i) == i \in children /\ \A j \in children : i <= j

VisitChild(i) ==
  /\ loop = "visit" /\ NextChild(i)
  /\ children' = children \ {i}
  /\ LET c == Order[i]
         mark == UpstreamMark(c)
     IN  \/ /\ status[c] # "NotStarted"
            /\ UNCHANGED <<status, readyCh, queue>>
         \/ /\ status[c] = "NotStarted" /\ isReady(c)
            /\ PushReady(c)
            /\ UNCHANGED <<status, queue>>
         \/ /\ status[c] = "NotStarted" /\ ~isReady(c)
            /\ status' = [status EXCEPT ![c] = mark]
            /\ queue' = IF mark = "NotStarted" THEN queue ELSE Propagate(c)
            /\ UNCHANGED readyCh
  /\ UNCHANGED <<retryCount, doneCount, gpc, execErr, canceled, lastError, loop, scanPos,
                 doneCh, running, activeReady, deadline, sigVars, handlerVars>>

-----------------------------------------------------------------------------
(* A step's goroutine.                                                     *)

loopVars == <<loop, scanPos, readyCh, running, activeReady, walkVars>>

GoTo(n, pc) == gpc' = [gpc EXCEPT ![n] = pc]

SetStatus(n, s) == status' = [status EXCEPT ![n] = s]

\* prepareNode and meetsPreconditions.
PrepareNode(n) ==
  /\ gpc[n] = "prepare"
  /\ \/ /\ "prepareError" \in Outcomes[n]
        /\ lastError' = n
        /\ SetStatus(n, "Failed") /\ GoTo(n, "return")
     \/ /\ "skip" \in Outcomes[n]
        /\ SetStatus(n, "Skipped") /\ GoTo(n, "return")
        /\ UNCHANGED lastError
     \/ GoTo(n, "loop") /\ UNCHANGED <<status, lastError>>
  /\ UNCHANGED <<retryCount, doneCount, execErr, canceled, doneCh, loopVars, deadline,
                 sigVars, handlerVars>>

\* The condition of the execution loop.
EnterExecution(n) ==
  /\ gpc[n] = "loop"
  /\ GoTo(n, IF canceled THEN "final" ELSE "exec")
  /\ UNCHANGED <<status, retryCount, doneCount, execErr, canceled, lastError, doneCh,
                 loopVars, deadline, sigVars, handlerVars>>

\* The status the executor of a step that returns no error leaves behind.
\* Only sub-DAG executors determine one; the parallel one keeps Aborted once
\* it has been killed.
DeterminedStatus(n) ==
  IF n \notin SubDAG THEN {status[n]}
  ELSE {"Succeeded"}
       \cup {s \in {"PartiallySucceeded"} : "partial" \in Outcomes[n]}
       \cup {s \in {"Waiting"} : "waiting" \in Outcomes[n]}
       \cup ({status[n]} \cap {"Aborted"})

ExecuteOK(n) ==
  /\ gpc[n] = "exec"
  /\ "ok" \in Outcomes[n]
  /\ \E s \in DeterminedStatus(n) : SetStatus(n, s)
  /\ execErr' = execErr \ {n}
  /\ GoTo(n, "handled")
  /\ UNCHANGED <<retryCount, doneCount, canceled, lastError, doneCh, loopVars, deadline,
                 sigVars, handlerVars>>

\* execNode returns an error; handleNodeExecutionError's switch, case by case.
\* A deadline error is the step's own timeout, for which handleTimeout has
\* already set Failed, or the DAG's.
AlreadySettled(n) == status[n] \in {"Succeeded", "Aborted", "PartiallySucceeded"}

TimedOut == deadline \in {"expired", "noticed"}

ExecuteDeadline(n) ==
  /\ gpc[n] = "exec"
  /\ \/ n \in StepTimeout /\ ("deadline" \in Outcomes[n] \/ TimedOut)
        /\ SetStatus(n, "Failed") /\ lastError' = n
     \/ n \notin StepTimeout /\ TimedOut
        /\ IF AlreadySettled(n) THEN UNCHANGED <<status, lastError>>
           ELSE SetStatus(n, "Aborted") /\ lastError' = n
  /\ execErr' = execErr \cup {n}
  /\ GoTo(n, "handled")
  /\ UNCHANGED <<retryCount, doneCount, canceled, doneCh, loopVars, deadline, sigVars,
                 handlerVars>>

\* Mutant of CountRetry: the retry is not counted.
CountRetryLost(n) == retryCount

CountRetry(n) == [retryCount EXCEPT ![n] = @ + 1]

\* The remaining retry branch of handleNodeExecutionError: shouldRetryNode
\* retries inline, hands the retry to the parent, or gives up on the exit code.
RetryOrFail(n, retriable) ==
  \/ /\ RetryLimit[n] > retryCount[n] /\ retriable
     /\ retryCount' = CountRetry(n)
     /\ IF ExternalRetry THEN SetStatus(n, "Retrying") /\ GoTo(n, "return")
                         ELSE GoTo(n, "backoff") /\ UNCHANGED status
     /\ UNCHANGED lastError
  \/ /\ RetryLimit[n] > retryCount[n] /\ ~retriable
     /\ SetStatus(n, "Failed") /\ lastError' = n
     /\ GoTo(n, "handled")
     /\ UNCHANGED retryCount
  \/ /\ RetryLimit[n] <= retryCount[n]
     /\ IF n \in ContinueOnFailure \cap MarkSuccess
          THEN SetStatus(n, "Succeeded") /\ UNCHANGED lastError
          ELSE SetStatus(n, "Failed") /\ lastError' = n
     /\ GoTo(n, "handled")
     /\ UNCHANGED retryCount

ExecuteError(n) ==
  /\ gpc[n] = "exec"
  /\ execErr' = execErr \cup {n}
  /\ \E kind \in Outcomes[n] \cap {"error", "fatalExit"} :
       IF AlreadySettled(n)
         THEN GoTo(n, "handled") /\ UNCHANGED <<status, retryCount, lastError>>
       ELSE IF TimedOut
         THEN /\ SetStatus(n, "Aborted") /\ lastError' = n
              /\ GoTo(n, "handled") /\ UNCHANGED retryCount
       ELSE IF canceled
         THEN lastError' = n /\ GoTo(n, "handled") /\ UNCHANGED <<status, retryCount>>
       ELSE RetryOrFail(n, kind = "error")
  /\ UNCHANGED <<doneCount, canceled, doneCh, loopVars, deadline, sigVars, handlerVars>>

\* The end of the retry interval.  The node is Running again even if Signal
\* aborted it during the interval.
WakeNode(n) ==
  /\ gpc[n] = "backoff"
  /\ SetStatus(n, "Running") /\ GoTo(n, "loop")
  /\ UNCHANGED <<retryCount, doneCount, execErr, canceled, lastError, doneCh, loopVars,
                 deadline, sigVars, handlerVars>>

\* IncDoneCount, unless the node was aborted.
CountDone(n) ==
  IF status[n] = "Aborted" THEN doneCount ELSE [doneCount EXCEPT ![n] = @ + 1]

\* shouldRepeatNode and prepareNodeForRepeat: the repeat condition is the
\* environment's, the limit is not.
RepeatNode(n) ==
  /\ gpc[n] = "handled"
  /\ n \in Repeating /\ ~canceled
  /\ doneCount' = CountDone(n)
  /\ RepeatLimit[n] = 0 \/ doneCount'[n] < RepeatLimit[n]
  /\ SetStatus(n, "Running")
  /\ lastError' = IF lastError = n /\ n \in execErr THEN "nil" ELSE lastError
  /\ GoTo(n, "loop")
  /\ UNCHANGED <<retryCount, execErr, canceled, doneCh, loopVars, deadline, sigVars,
                 handlerVars>>

\* No repeat: an error returns at once, a success goes on to the final status.
EndExecution(n) ==
  /\ gpc[n] = "handled"
  /\ doneCount' = CountDone(n)
  /\ GoTo(n, IF n \in execErr THEN "return" ELSE "final")
  /\ UNCHANGED <<status, retryCount, execErr, canceled, lastError, doneCh, loopVars,
                 deadline, sigVars, handlerVars>>

\* Mutant of SettledStatus: a canceled node is left to Signal.
SettledStatusUndecided(n) ==
  IF status[n] \in {"Running", "Succeeded"} /\ ~canceled
    THEN IF n \in Approval THEN "Waiting" ELSE "Succeeded"
  ELSE status[n]

\* Mutant of SettledStatus: the canceled flag is not looked at.
SettledStatusUncanceled(n) ==
  IF status[n] \in {"Running", "Succeeded"}
    THEN IF n \in Approval THEN "Waiting" ELSE "Succeeded"
  ELSE status[n]

\* The final status of a node still Running, and the approval gate.
SettledStatus(n) ==
  IF status[n] = "Running" /\ n \notin Repeating /\ canceled THEN "Aborted"
  ELSE IF status[n] \in {"Running", "Succeeded"}
    THEN IF n \in Approval THEN "Waiting" ELSE "Succeeded"
  ELSE status[n]

SettleNode(n) ==
  /\ gpc[n] = "final"
  /\ SetStatus(n, SettledStatus(n))
  /\ GoTo(n, "teardown")
  /\ UNCHANGED <<retryCount, doneCount, execErr, canceled, lastError, doneCh, loopVars,
                 deadline, sigVars, handlerVars>>

TeardownNode(n) ==
  /\ gpc[n] = "teardown"
  /\ \/ UNCHANGED <<status, lastError>>
     \/ "teardownError" \in Outcomes[n] /\ SetStatus(n, "Failed") /\ lastError' = n
  /\ GoTo(n, "return")
  /\ UNCHANGED <<retryCount, doneCount, execErr, canceled, doneCh, loopVars, deadline,
                 sigVars, handlerVars>>

\* The executor panics.
PanicNode(n) ==
  /\ gpc[n] = "exec"
  /\ "panic" \in Outcomes[n]
  /\ GoTo(n, "panic")
  /\ UNCHANGED <<status, retryCount, doneCount, execErr, canceled, lastError, doneCh,
                 loopVars, deadline, sigVars, handlerVars>>

\* The deferred calls run last to first: doneCh <- n, recoverNodePanic,
\* finishNode.  Without a panic finishNode only leaves the WaitGroup.
SendDone(n) ==
  /\ gpc[n] \in {"return", "panic"}
  /\ doneCh' = Append(doneCh, n)
  /\ GoTo(n, IF gpc[n] = "panic" THEN "recover" ELSE "finished")
  /\ UNCHANGED <<status, retryCount, doneCount, execErr, canceled, lastError, loopVars,
                 deadline, sigVars, handlerVars>>

RecoverPanic(n) ==
  /\ gpc[n] = "recover"
  /\ SetStatus(n, "Failed") /\ lastError' = n
  /\ GoTo(n, "finished")
  /\ UNCHANGED <<retryCount, doneCount, execErr, canceled, doneCh, loopVars, deadline,
                 sigVars, handlerVars>>

GoroutineStep(n) ==
  \/ PrepareNode(n) \/ EnterExecution(n)
  \/ ExecuteOK(n) \/ ExecuteDeadline(n) \/ ExecuteError(n) \/ PanicNode(n)
  \/ WakeNode(n) \/ RepeatNode(n) \/ EndExecution(n)
  \/ SettleNode(n) \/ TeardownNode(n) \/ SendDone(n) \/ RecoverPanic(n)

-----------------------------------------------------------------------------
(* Signal, and the DAG's timeout.                                          *)

\* Mutant of NextSignalled: the walk runs past the last node.
NextSignalledPastEnd == sigPos + 1

NextSignalled == IF sigPos = Len(Order) THEN 0 ELSE sigPos + 1

\* A termination signal: the canceled flag first.
SignalBegin ==
  /\ sigLeft > 0 /\ sigPos = 0
  /\ loop # "returned"
  /\ sigLeft' = sigLeft - 1
  /\ canceled' = TRUE
  /\ sigPos' = NextSignalled
  /\ UNCHANGED <<nodeVars, lastError, loopVars, doneCh, deadline, handlerVars>>

\* Then node.Signal on every node but the repeating ones.
SignalNode ==
  /\ sigPos \in DOMAIN Order
  /\ LET n == Order[sigPos] IN
       IF n \notin Repeating /\ status[n] = "Running"
         THEN SetStatus(n, "Aborted") ELSE UNCHANGED status
  /\ sigPos' = NextSignalled
  /\ UNCHANGED <<retryCount, doneCount, gpc, execErr, canceled, lastError, loopVars, doneCh,
                 deadline, sigLeft, handlerVars>>

DeadlineExpires ==
  /\ deadline = "armed"
  /\ loop # "returned"
  /\ deadline' = "expired"
  /\ UNCHANGED <<nodeVars, canceled, lastError, loopVars, doneCh, sigVars, handlerVars>>

-----------------------------------------------------------------------------
(* Run, after the event loop.                                              *)

\* The handlers for a status, in the order Run appends them.
EventHandlers(s) ==
  CASE s \in {"Succeeded", "PartiallySucceeded"} -> <<"onSuccess", "onExit">>
    [] s \in {"Failed", "Rejected"}              -> <<"onFailure", "onExit">>
    [] s = "Aborted"                             -> <<"onAbort", "onExit">>
    [] s = "Waiting"                             -> <<"onWait">>
    [] s = "Queued"                              -> <<>>
    [] s = "Running"                             -> <<"onExit">>

\* wg.Wait() and the switch on the status.
SelectHandlers ==
  /\ loop = "wait"
  /\ \A n \in Node : gpc[n] \in {"idle", "finished"}
  /\ verdict' = Status
  /\ todo' = EventHandlers(Status)
  /\ loop' = "handlers"
  /\ UNCHANGED <<nodeVars, canceled, lastError, scanPos, chanVars, deadline, sigVars, ran,
                 finished>>

\* runEventHandler, if the handler is configured; an error of onWait is only
\* logged.
RunHandler ==
  /\ loop = "handlers" /\ todo # <<>>
  /\ todo' = Tail(todo)
  /\ \/ Head(todo) \notin Handlers /\ UNCHANGED <<ran, lastError>>
     \/ /\ Head(todo) \in Handlers
        /\ ran' = Append(ran, Head(todo))
        /\ \/ UNCHANGED lastError
           \/ HandlersMayFail /\ Head(todo) # "onWait" /\ lastError' = "handler"
  /\ UNCHANGED <<nodeVars, canceled, loop, scanPos, chanVars, deadline, sigVars, verdict,
                 finished>>

\* return, with the deferred plan.Finish().
Return ==
  /\ loop = "handlers" /\ todo = <<>>
  /\ loop' = "returned"
  /\ finished' = TRUE
  /\ UNCHANGED <<nodeVars, canceled, lastError, scanPos, chanVars, deadline, sigVars, todo,
                 ran, verdict>>

\* Run has returned and no Signal is under way: nothing is left to happen.
Terminated ==
  /\ loop = "returned" /\ sigPos = 0
  /\ UNCHANGED vars

LoopStep ==
  \/ EvalPreconditions \/ RunInitHandler \/ ScanNode \/ ScanDone
  \/ LoopTop \/ LoopGate \/ LoopBreaks
  \/ ReceiveReady \/ ReceiveDone \/ ReceiveDeadline
  \/ VisitNext \/ \E i \in DOMAIN Order : VisitChild(i)
  \/ SelectHandlers \/ RunHandler \/ Return

Next ==
  \/ LoopStep
  \/ \E n \in Node : GoroutineStep(n)
  \/ SignalBegin \/ SignalNode
  \/ DeadlineExpires
  \/ Terminated

Spec == Init /\ [][Next]_vars

\* The Go scheduler runs every goroutine, commands end, and a Signal that has
\* begun visits every node.  Signals and timeouts need never come.
Fairness ==
  /\ WF_vars(LoopStep)
  /\ \A n \in Node : WF_vars(GoroutineStep(n))
  /\ WF_vars(SignalNode)

FairSpec == Spec /\ Fairness

-----------------------------------------------------------------------------
(* Properties.                                                             *)

\* The node's goroutine has been launched and its completion not been sent.
Active(n) == gpc[n] \notin {"idle", "recover", "finished"}

NodeTypeOK ==
  /\ status \in [Node -> NodeStatus]
  /\ retryCount \in [Node -> Nat] /\ doneCount \in [Node -> Nat]
  /\ gpc \in [Node -> {"idle", "prepare", "loop", "exec", "backoff", "handled", "final",
                       "teardown", "return", "panic", "recover", "finished"}]
  /\ execErr \in SUBSET Node

ChanTypeOK ==
  /\ readyCh \in Seq(Node) /\ doneCh \in Seq(Node)
  /\ queue \in Seq(Node) /\ children \in SUBSET DOMAIN Order
  /\ running \in Int
  /\ activeReady \in BOOLEAN

RunTypeOK ==
  /\ canceled \in BOOLEAN
  /\ lastError \in Node \cup {"nil", "handler", "deadlock", "deadline"}
  /\ loop \in {"setup", "init", "scan", "top", "gate", "breaks", "select", "visit",
               "wait", "handlers", "returned"}
  /\ scanPos \in Nat \ {0}
  /\ deadline \in {"off", "armed", "expired", "noticed"}
  /\ sigPos \in 0 .. Len(Order) /\ sigLeft \in Nat

HandlerTypeOK ==
  /\ todo \in Seq(HandlerType) /\ ran \in Seq(HandlerType)
  /\ verdict \in DAGStatus
  /\ finished \in BOOLEAN

\* Every variable keeps its type; in particular Signal's walk stays in the plan
\* and only statuses of core.NodeStatus are ever written.
TypeOK ==
  /\ NodeTypeOK
  /\ ChanTypeOK
  /\ RunTypeOK
  /\ HandlerTypeOK

\* A step is launched at most once however many of its parents complete at
\* the same time: Run marks it Running "to prevent duplicate execution".
LaunchOnce ==
  [][\A n \in Node : gpc[n] # "idle" /\ gpc'[n] = "prepare" => gpc[n] = "prepare"]_vars

\* Steps whose status, once it lets a dependent start, cannot change again: not
\* repeated, teardown does not fail, and the executor's success is not turned
\* into a wait for approval.
Steady(d) ==
  /\ d \notin Repeating
  /\ d \notin Approval \cap SubDAG
  /\ "teardownError" \notin Outcomes[d]

\* When Run launches a step, every (steady) dependency has ended in a way that
\* lets it start, although readiness was tested when the step was queued.
LaunchRespectsDeps ==
  [][\A n \in Node : gpc[n] = "idle" /\ gpc'[n] = "prepare" =>
       \A i \in DOMAIN Deps[n] : Steady(Deps[n][i]) => ShouldContinue(Deps[n][i])]_vars

\* At most maxActiveRuns steps are between their launch and the send of their
\* completion.
ActiveBound ==
  MaxActive # 0 => Cardinality({n \in Node : Active(n)}) <= MaxActive

\* When Run leaves the loop uncanceled, a step it never started is behind one
\* that waits for approval or for its parent's retry; a node that was marked
\* by its upstream has passed the mark on.  (Not if a step panics, and not if
\* the initial scan of a retried plan marks a node: ScanNode passes nothing on.)
NothingForgotten ==
  loop \in {"handlers", "returned"} /\ ~canceled =>
    \A n \in Node : status[n] = "NotStarted" =>
      \E d \in Upstream(n) : status[d] \in {"NotStarted", "Waiting", "Retrying"}

\* Deadlock detection only fires when a step panicked: it has sent its completion
\* and was not marked Failed when the plan was looked at.  Waiting, retrying and
\* repeated steps, and steps that are marked between the reads of the check,
\* never look like a deadlock.  (A signal between LoopTop and LoopBreaks does.)
DeadlockOnlyByPanic ==
  [][lastError # "deadlock" /\ lastError' = "deadlock" =>
       \E n \in Node : /\ "panic" \in Outcomes[n]
                       /\ gpc[n] = "recover" \/ (gpc[n] = "finished" /\ status[n] = "Failed")]_vars

\* When Run has returned and Signal has been through, no node is left Running.
\* (Except a repeated step whose command fails after the cancellation: Signal
\* passes over it and handleNodeExecutionError leaves its status alone.)
QuiescentAtReturn ==
  loop = "returned" /\ sigPos = 0 => ~Has("Running")

\* Once the run is canceled no step turns out Succeeded any more: the flag is
\* set before any node is signalled.
CancelNeverSucceeds ==
  [][\A n \in Node \ (Repeating \cup SubDAG) :
       canceled /\ status[n] # "Succeeded" => status'[n] # "Succeeded"]_vars

\* A run is reported Succeeded only if no step failed without continueOn.
\* (A repeated step that fails after another one takes the place of the other's
\* error in lastError and clears it when it is repeated.)
SuccessMeansNoFailure ==
  verdict \in {"Succeeded", "PartiallySucceeded"} =>
    \A n \in Node : status[n] = "Failed" => ShouldContinue(n)

\* The event loop never blocks sending on readyCh.
ReadyChannelNeverBlocks ==
  \A i \in DOMAIN Order :
    loop = "visit" /\ NextChild(i) /\ status[Order[i]] = "NotStarted" /\ isReady(Order[i]) =>
      Len(readyCh) < Len(Order)

\* Run returns.
Terminates == <>(loop = "returned")

=============================================================================
