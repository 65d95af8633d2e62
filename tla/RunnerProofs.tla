---------------------------- MODULE RunnerProofs ----------------------------
(***************************************************************************)
(* Proofs about Runner for every plan and every configuration.             *)
(***************************************************************************)
EXTENDS Runner, FiniteSetTheorems, SequenceTheorems, TLAPS

-----------------------------------------------------------------------------
(* Facts about the constants and the operators.                            *)

\* What most of the proofs need to know about the plan.
LEMMA PlanType ==
  /\ Order \in Seq(Node)
  /\ DOMAIN Order = 1 .. Len(Order)
  /\ Len(Order) \in Nat
  /\ \A i \in DOMAIN Order : Order[i] \in Node
BY RunnerAssumption DEF RunnerAssumption

\* A node that isReady marks gets a node status, whatever its dependencies are.
LEMMA UpstreamMarkType ==
  ASSUME NEW n \in Node
  PROVE  UpstreamMark(n) \in {"Aborted", "Skipped", status[n]}
BY DEF UpstreamMark

\* Runner.Status always returns one of the run statuses.
LEMMA StatusType == Status \in DAGStatus
BY DEF Status, DAGStatus

\* The handlers selected for a run status are handler types.
LEMMA EventHandlersType ==
  ASSUME NEW s \in DAGStatus
  PROVE  EventHandlers(s) \in Seq(HandlerType)
<1>1. CASE s = "Succeeded" \/ s = "PartiallySucceeded"
  <2>1. EventHandlers(s) = <<"onSuccess", "onExit">>
    BY <1>1 DEF EventHandlers
  <2> QED
    BY <2>1 DEF HandlerType
<1>2. CASE s = "Failed" \/ s = "Rejected"
  <2>1. EventHandlers(s) = <<"onFailure", "onExit">>
    BY <1>2 DEF EventHandlers
  <2> QED
    BY <2>1 DEF HandlerType
<1>3. CASE s = "Aborted"
  BY <1>3 DEF EventHandlers, HandlerType
<1>4. CASE s = "Waiting" \/ s = "Queued" \/ s = "Running"
  BY <1>4 DEF EventHandlers, HandlerType
<1> QED
  BY <1>1, <1>2, <1>3, <1>4 DEF DAGStatus

-----------------------------------------------------------------------------
(* Type correctness, one group of variables at a time.  Each lemma has one *)
(* step per action that changes a variable of the group.                   *)

\* The statuses, retry and repeat counters and goroutines keep their types.
LEMMA NodeTypeStep ==
  ASSUME NodeTypeOK, ChanTypeOK, RunTypeOK, [Next]_vars
  PROVE  NodeTypeOK'
<1> USE DEF NodeTypeOK
<1>1. CASE ScanNode
  <2>1. Order[scanPos] \in Node
    BY <1>1, PlanType DEF ScanNode
  <2>2. UpstreamMark(Order[scanPos]) \in NodeStatus
    BY <2>1, UpstreamMarkType DEF NodeStatus
  <2> QED
    BY <1>1, <2>1, <2>2 DEF ScanNode
<1>2. CASE ReceiveReady
  <2>1. Head(readyCh) \in Node
    BY <1>2 DEF ReceiveReady, ChanTypeOK
  <2> QED
    BY <1>2, <2>1 DEF ReceiveReady, NodeStatus
<1>3. ASSUME NEW i \in DOMAIN Order, VisitChild(i) PROVE NodeTypeOK'
  <2>1. Order[i] \in Node
    BY PlanType
  <2>2. UpstreamMark(Order[i]) \in NodeStatus
    BY <2>1, UpstreamMarkType DEF NodeStatus
  <2> QED
    BY <1>3, <2>1, <2>2 DEF VisitChild
<1>4. ASSUME NEW n \in Node, GoroutineStep(n) PROVE NodeTypeOK'
  <2> USE DEF GoTo, SetStatus, NodeStatus
  <2>1. CASE PrepareNode(n)
    BY <2>1 DEF PrepareNode
  <2>2. CASE EnterExecution(n)
    BY <2>2 DEF EnterExecution
  <2>3. CASE ExecuteOK(n)
    BY <2>3 DEF ExecuteOK, DeterminedStatus
  <2>4. CASE ExecuteDeadline(n)
    BY <2>4 DEF ExecuteDeadline
  <2>5. CASE ExecuteError(n)
    <3>1. retryCount' \in [Node -> Nat]
      BY <2>5 DEF ExecuteError, RetryOrFail, CountRetry
    <3>2. status' \in [Node -> NodeStatus]
      BY <2>5 DEF ExecuteError, RetryOrFail
    <3>3. gpc' = [gpc EXCEPT ![n] = "handled"] \/ gpc' = [gpc EXCEPT ![n] = "backoff"]
            \/ gpc' = [gpc EXCEPT ![n] = "return"]
      BY <2>5 DEF ExecuteError, RetryOrFail
    <3>4. execErr' = execErr \cup {n} /\ UNCHANGED doneCount
      BY <2>5 DEF ExecuteError
    <3> QED
      BY <3>1, <3>2, <3>3, <3>4
  <2>6. CASE PanicNode(n)
    BY <2>6 DEF PanicNode
  <2>7. CASE WakeNode(n)
    BY <2>7 DEF WakeNode
  <2>8. CASE RepeatNode(n) \/ EndExecution(n)
    <3>1. CountDone(n) \in [Node -> Nat]
      BY DEF CountDone
    <3> QED
      BY <2>8, <3>1 DEF RepeatNode, EndExecution
  <2>9. CASE SettleNode(n)
    BY <2>9 DEF SettleNode, SettledStatus
  <2>10. CASE TeardownNode(n)
    BY <2>10 DEF TeardownNode
  <2>11. CASE SendDone(n) \/ RecoverPanic(n)
    BY <2>11 DEF SendDone, RecoverPanic
  <2> QED
    BY <1>4, <2>1, <2>2, <2>3, <2>4, <2>5, <2>6, <2>7, <2>8, <2>9, <2>10, <2>11
       DEF GoroutineStep
<1>5. CASE SignalNode
  BY <1>5, PlanType DEF SignalNode, SetStatus, NodeStatus
<1>6. CASE UNCHANGED nodeVars
  BY <1>6 DEF nodeVars
<1> QED
  BY <1>1, <1>2, <1>3, <1>4, <1>5, <1>6
     DEF Next, LoopStep, EvalPreconditions, RunInitHandler, ScanDone, LoopTop, LoopGate,
         LoopBreaks, ReceiveDone, ReceiveDeadline, VisitNext, SelectHandlers, RunHandler,
         Return, SignalBegin, DeadlineExpires, Terminated, vars

\* Queueing a node on a sequence of nodes leaves a sequence of nodes.
LEMMA AppendNode ==
  ASSUME NEW q \in Seq(Node), NEW n \in Node
  PROVE  Append(q, n) \in Seq(Node)
OBVIOUS

\* readyCh, the completions and the queues of the loop keep their types.
LEMMA ChanTypeStep ==
  ASSUME ChanTypeOK, RunTypeOK, [Next]_vars
  PROVE  ChanTypeOK'
<1> USE DEF ChanTypeOK
<1>1. CASE ScanNode
  <2>1. Order[scanPos] \in Node
    BY <1>1, PlanType DEF ScanNode
  <2>2. readyCh' = readyCh \/ readyCh' = Append(readyCh, Order[scanPos])
    BY <1>1 DEF ScanNode
  <2>3. readyCh \in Seq(Node)
    OBVIOUS
  <2>4. Append(readyCh, Order[scanPos]) \in Seq(Node)
    BY <2>1, <2>3, AppendNode
  <2>5. readyCh' \in Seq(Node)
    BY <2>2, <2>3, <2>4
  <2> QED
    BY <1>1, <2>5 DEF ScanNode, walkVars
<1>2. CASE LoopGate
  BY <1>2 DEF LoopGate, walkVars
<1>3. CASE ReceiveReady
  <2>1. running' = running \/ running' = running + 1
    BY <1>3 DEF ReceiveReady
  <2>2. readyCh # <<>> /\ readyCh' = Tail(readyCh) /\ UNCHANGED <<doneCh, activeReady, queue, children>>
    BY <1>3 DEF ReceiveReady, walkVars
  <2> QED
    BY <2>1, <2>2
<1>4. CASE ReceiveDone
  <2>1. doneCh' \in Seq(Node) /\ Head(doneCh) \in Node
    BY <1>4 DEF ReceiveDone
  <2>2. queue' \in Seq(Node)
    BY <1>4, <2>1 DEF ReceiveDone
  <2> QED
    BY <1>4, <2>1, <2>2 DEF ReceiveDone
<1>5. CASE VisitNext
  <2>1. queue' = queue \/ (queue # <<>> /\ queue' = Tail(queue))
    BY <1>5 DEF VisitNext, walkVars
  <2>2. queue' \in Seq(Node)
    BY <2>1
  <2>3. children' \in SUBSET DOMAIN Order
    BY <1>5 DEF VisitNext, Dependents, walkVars
  <2>4. UNCHANGED <<readyCh, doneCh, running, activeReady>>
    BY <1>5 DEF VisitNext
  <2> QED
    BY <2>2, <2>3, <2>4
<1>6. ASSUME NEW i \in DOMAIN Order, VisitChild(i) PROVE ChanTypeOK'
  <2>1. Order[i] \in Node
    BY PlanType
  <2>2. readyCh' = readyCh \/ readyCh' = Append(readyCh, Order[i])
    BY <1>6 DEF VisitChild, PushReady
  <2>3. queue' = queue \/ queue' = Append(queue, Order[i])
    BY <1>6 DEF VisitChild, Propagate
  <2>4. children' \in SUBSET DOMAIN Order /\ UNCHANGED <<doneCh, running, activeReady>>
    BY <1>6 DEF VisitChild
  <2>5. readyCh' \in Seq(Node)
    BY <2>1, <2>2, AppendNode
  <2>6. queue' \in Seq(Node)
    BY <2>1, <2>3, AppendNode
  <2> QED
    BY <2>4, <2>5, <2>6
<1>7. ASSUME NEW n \in Node, SendDone(n) PROVE ChanTypeOK'
  BY <1>7 DEF SendDone, loopVars, walkVars
<1>8. CASE UNCHANGED chanVars
  BY <1>8 DEF chanVars, walkVars
<1>9. ASSUME NEW n \in Node, GoroutineStep(n), ~SendDone(n) PROVE UNCHANGED chanVars
  BY <1>9 DEF GoroutineStep, PrepareNode, EnterExecution, ExecuteOK, ExecuteDeadline,
       ExecuteError, PanicNode, WakeNode, RepeatNode, EndExecution, SettleNode, TeardownNode,
       RecoverPanic, loopVars, chanVars
<1> QED
  BY <1>1, <1>2, <1>3, <1>4, <1>5, <1>6, <1>7, <1>8, <1>9
     DEF Next, LoopStep, EvalPreconditions, RunInitHandler, ScanDone, LoopTop,
         LoopBreaks, ReceiveDeadline, SelectHandlers, RunHandler, Return,
         SignalBegin, SignalNode, DeadlineExpires, Terminated, vars, loopVars, chanVars

\* The position of the loop and the state of the runner keep their types.
LEMMA RunTypeStep ==
  ASSUME RunTypeOK, [Next]_vars
  PROVE  RunTypeOK'
<1> USE DEF RunTypeOK
<1>1. CASE EvalPreconditions \/ RunInitHandler
  BY <1>1 DEF EvalPreconditions, RunInitHandler, sigVars
<1>2. CASE ScanNode \/ ScanDone \/ LoopTop \/ LoopGate \/ LoopBreaks
  BY <1>2 DEF ScanNode, ScanDone, LoopTop, LoopGate, LoopBreaks, sigVars
<1>3. CASE ReceiveReady \/ ReceiveDone \/ ReceiveDeadline
  BY <1>3 DEF ReceiveReady, ReceiveDone, ReceiveDeadline, DeadlineSeen, sigVars
<1>4. CASE VisitNext
  BY <1>4 DEF VisitNext, sigVars
<1>5. ASSUME NEW i \in DOMAIN Order, VisitChild(i) PROVE RunTypeOK'
  BY <1>5 DEF VisitChild, sigVars
<1>6. CASE SelectHandlers \/ RunHandler \/ Return
  BY <1>6 DEF SelectHandlers, RunHandler, Return, sigVars
<1>7. ASSUME NEW n \in Node, GoroutineStep(n) PROVE RunTypeOK'
  <2>1. UNCHANGED <<loop, scanPos, deadline, sigPos, sigLeft, canceled>>
    BY <1>7 DEF GoroutineStep, PrepareNode, EnterExecution, ExecuteOK, ExecuteDeadline,
         ExecuteError, PanicNode, WakeNode, RepeatNode, EndExecution, SettleNode, TeardownNode,
         SendDone, RecoverPanic, loopVars, sigVars
  <2>2. lastError' \in {lastError, n, "nil"}
    BY <1>7 DEF GoroutineStep, PrepareNode, EnterExecution, ExecuteOK, ExecuteDeadline,
         ExecuteError, RetryOrFail, PanicNode, WakeNode, RepeatNode, EndExecution,
         SettleNode, TeardownNode, SendDone, RecoverPanic
  <2> QED
    BY <2>1, <2>2
<1>8. CASE SignalBegin
  <2>1. sigPos' \in 0 .. Len(Order)
    BY <1>8, PlanType DEF SignalBegin, NextSignalled
  <2> QED
    BY <1>8, <2>1 DEF SignalBegin, loopVars
<1>9. CASE SignalNode
  <2>1. sigPos' \in 0 .. Len(Order)
    BY <1>9, PlanType DEF SignalNode, NextSignalled
  <2> QED
    BY <1>9, <2>1 DEF SignalNode, loopVars
<1>10. CASE DeadlineExpires
  BY <1>10 DEF DeadlineExpires, loopVars, sigVars
<1>11. CASE Terminated \/ UNCHANGED vars
  BY <1>11 DEF Terminated, vars, sigVars
<1> QED
  BY <1>1, <1>2, <1>3, <1>4, <1>5, <1>6, <1>7, <1>8, <1>9, <1>10, <1>11 DEF Next, LoopStep

\* The event handlers still to run and their outcomes keep their types.
LEMMA HandlerTypeStep ==
  ASSUME HandlerTypeOK, [Next]_vars
  PROVE  HandlerTypeOK'
<1> USE DEF HandlerTypeOK
<1>1. CASE RunInitHandler
  <2>1. ran' = ran \/ ran' = Append(ran, "onInit")
    BY <1>1 DEF RunInitHandler
  <2> QED
    BY <1>1, <2>1 DEF RunInitHandler, HandlerType
<1>2. CASE SelectHandlers
  BY <1>2, StatusType, EventHandlersType DEF SelectHandlers
<1>3. CASE RunHandler
  <2>1. todo # <<>> /\ todo' = Tail(todo) /\ UNCHANGED <<verdict, finished>>
    BY <1>3 DEF RunHandler
  <2>2. ran' = ran \/ ran' = Append(ran, Head(todo))
    BY <1>3 DEF RunHandler
  <2> QED
    BY SMTT(30), <2>1, <2>2
<1>4. CASE Return
  BY <1>4 DEF Return
<1>5. CASE UNCHANGED handlerVars
  BY <1>5 DEF handlerVars
<1>6. ASSUME NEW n \in Node, GoroutineStep(n) PROVE UNCHANGED handlerVars
  BY <1>6 DEF GoroutineStep, PrepareNode, EnterExecution, ExecuteOK, ExecuteDeadline,
       ExecuteError, PanicNode, WakeNode, RepeatNode, EndExecution, SettleNode, TeardownNode,
       SendDone, RecoverPanic
<1> QED
  BY <1>1, <1>2, <1>3, <1>4, <1>5, <1>6
     DEF Next, LoopStep, EvalPreconditions, ScanNode, ScanDone, LoopTop, LoopGate, LoopBreaks,
         ReceiveReady, ReceiveDone, ReceiveDeadline, VisitNext, VisitChild, SignalBegin,
         SignalNode, DeadlineExpires, Terminated, vars

\* A new runner on any of the initial plans has its types.
LEMMA TypeInit == Init => TypeOK
<1> SUFFICES ASSUME Init PROVE TypeOK
  OBVIOUS
<1>1. NodeTypeOK
  BY RunnerAssumption DEF RunnerAssumption, Init, NodeTypeOK
<1>2. ChanTypeOK
  <2>1. <<>> \in Seq(Node)
    OBVIOUS
  <2>2. /\ readyCh = <<>> /\ doneCh = <<>> /\ queue = <<>>
        /\ children = {} /\ running = 0
    BY DEF Init
  <2>3. activeReady \in BOOLEAN
    BY Zenon DEF Init
  <2> QED
    BY <2>1, <2>2, <2>3 DEF ChanTypeOK
<1>3. RunTypeOK
  <2>1. sigLeft \in Nat
    BY RunnerAssumption DEF RunnerAssumption, Init
  <2>2. deadline \in {"off", "armed"}
    BY DEF Init
  <2>3. lastError = "nil" /\ loop = "setup" /\ scanPos = 1 /\ sigPos = 0
    BY DEF Init
  <2>4. canceled \in BOOLEAN
    BY Zenon DEF Init
  <2> QED
    BY <2>1, <2>2, <2>3, <2>4, PlanType DEF RunTypeOK
<1>4. HandlerTypeOK
  <2>1. <<>> \in Seq(HandlerType)
    OBVIOUS
  <2> QED
    BY <2>1 DEF Init, HandlerTypeOK, DAGStatus
<1> QED
  BY <1>1, <1>2, <1>3, <1>4 DEF TypeOK

\* Every variable keeps its type, whatever the plan and the environment do.
THEOREM TypeCorrect == Spec => []TypeOK
<1>1. TypeOK /\ [Next]_vars => TypeOK'
  BY NodeTypeStep, ChanTypeStep, RunTypeStep, HandlerTypeStep DEF TypeOK
<1> QED
  BY TypeInit, <1>1, PTL DEF Spec

-----------------------------------------------------------------------------
(* The inductive invariants.                                               *)

\* A node that is NotStarted has never been launched.
Unlaunched == \A n \in Node : status[n] = "NotStarted" => gpc[n] = "idle"

ActiveNodes == {n \in Node : Active(n)}

\* running counts the goroutines that have not sent their completion and the
\* completions the loop has not received.
SlotCount == running = Cardinality(ActiveNodes) + Len(doneCh)

SlotLimit == MaxActive # 0 => running <= MaxActive

\* activeReadyCh is still right when select uses it.
GateHolds == loop \in {"breaks", "select"} /\ activeReady => SlotFree

LaunchInv == TypeOK /\ Unlaunched /\ SlotCount /\ SlotLimit /\ GateHolds

\* Until its executor returns, only Signal changes the status of a launched
\* node.
EarlyStatus ==
  \A n \in Node \ Repeating :
    gpc[n] \in {"prepare", "loop", "exec", "backoff", "panic", "recover"} =>
      status[n] \in {"Running", "Aborted"}

\* The same until the final status is set, unless the executor determines it.
FinalStatus ==
  \A n \in Node \ (Repeating \cup SubDAG) :
    gpc[n] = "final" \/ (gpc[n] = "handled" /\ n \notin execErr) =>
      status[n] \in {"Running", "Aborted"}

SteadyDepsContinue(n) ==
  \A i \in DOMAIN Deps[n] : Steady(Deps[n][i]) => ShouldContinue(Deps[n][i])

\* What was true when a node was queued is true as long as it is queued.
QueuedReady == \A k \in DOMAIN readyCh : SteadyDepsContinue(readyCh[k])

-----------------------------------------------------------------------------
(* Launches.                                                               *)

\* A goroutine moves only its own node, which has been launched, and it never
\* moves it back to the launch.
LEMMA GoroutineMove ==
  ASSUME NodeTypeOK, NEW n \in Node, GoroutineStep(n)
  PROVE  \E pc \in {"loop", "exec", "backoff", "handled", "final", "teardown", "return",
                    "panic", "recover", "finished"} :
            /\ gpc' = [gpc EXCEPT ![n] = pc]
            /\ gpc[n] \notin {"idle", "finished"}
            /\ pc \in {"recover", "finished"} <=> (SendDone(n) \/ RecoverPanic(n))
<1> USE DEF GoTo
<1>1. CASE PrepareNode(n) \/ EnterExecution(n)
  BY <1>1 DEF PrepareNode, EnterExecution, SendDone, RecoverPanic
<1>2. CASE ExecuteOK(n) \/ ExecuteDeadline(n)
  BY <1>2 DEF ExecuteOK, ExecuteDeadline, SendDone, RecoverPanic
<1>3. CASE ExecuteError(n)
  BY <1>3 DEF ExecuteError, RetryOrFail, SendDone, RecoverPanic
<1>4. CASE PanicNode(n) \/ WakeNode(n) \/ RepeatNode(n) \/ EndExecution(n)
  BY <1>4 DEF PanicNode, WakeNode, RepeatNode, EndExecution, SendDone, RecoverPanic
<1>5. CASE SettleNode(n) \/ TeardownNode(n)
  BY <1>5 DEF SettleNode, TeardownNode, SendDone, RecoverPanic
<1>6. CASE SendDone(n) \/ RecoverPanic(n)
  BY <1>6 DEF SendDone, RecoverPanic
<1> QED
  BY <1>1, <1>2, <1>3, <1>4, <1>5, <1>6 DEF GoroutineStep

\* Only a launch and the goroutines change gpc.
LEMMA GpcFrame ==
  ASSUME [Next]_vars
  PROVE  ReceiveReady \/ (\E n \in Node : GoroutineStep(n)) \/ UNCHANGED gpc
BY DEF Next, LoopStep, EvalPreconditions, RunInitHandler, ScanNode, ScanDone, LoopTop,
       LoopGate, LoopBreaks, ReceiveDone, ReceiveDeadline, VisitNext, VisitChild,
       SelectHandlers, RunHandler, Return, SignalBegin, SignalNode, DeadlineExpires,
       Terminated, vars, nodeVars

\* No step makes a node NotStarted again.
LEMMA NeverUnstarted ==
  ASSUME TypeOK, [Next]_vars, NEW m \in Node, status'[m] = "NotStarted", Unlaunched
  PROVE  status[m] = "NotStarted"
<1> USE DEF TypeOK, NodeTypeOK
<1>1. CASE ScanNode
  <2>1. Order[scanPos] \in Node
    BY <1>1, PlanType DEF ScanNode
  <2>2. UpstreamMark(Order[scanPos]) \in {"Aborted", "Skipped", status[Order[scanPos]]}
    BY <2>1, UpstreamMarkType
  <2> QED
    BY <1>1, <2>1, <2>2 DEF ScanNode
<1>2. CASE ReceiveReady
  BY <1>2 DEF ReceiveReady, ChanTypeOK
<1>3. ASSUME NEW i \in DOMAIN Order, VisitChild(i) PROVE status[m] = "NotStarted"
  <2>1. Order[i] \in Node
    BY PlanType
  <2>2. UpstreamMark(Order[i]) \in {"Aborted", "Skipped", status[Order[i]]}
    BY <2>1, UpstreamMarkType
  <2> QED
    BY <1>3, <2>1, <2>2 DEF VisitChild
<1>4. ASSUME NEW n \in Node, GoroutineStep(n) PROVE status[m] = "NotStarted"
  <2> USE DEF SetStatus
  <2>1. CASE PrepareNode(n) \/ EnterExecution(n) \/ ExecuteDeadline(n)
    BY <2>1 DEF PrepareNode, EnterExecution, ExecuteDeadline
  <2>2. CASE ExecuteOK(n)
    BY <2>2 DEF ExecuteOK, DeterminedStatus
  <2>3. CASE ExecuteError(n)
    BY <2>3 DEF ExecuteError, RetryOrFail
  <2>4. CASE PanicNode(n) \/ WakeNode(n) \/ RepeatNode(n) \/ EndExecution(n)
    BY <2>4 DEF PanicNode, WakeNode, RepeatNode, EndExecution
  <2>5. CASE SettleNode(n)
    BY <2>5 DEF SettleNode, SettledStatus
  <2>6. CASE TeardownNode(n) \/ SendDone(n) \/ RecoverPanic(n)
    BY <2>6 DEF TeardownNode, SendDone, RecoverPanic
  <2> QED
    BY <1>4, <2>1, <2>2, <2>3, <2>4, <2>5, <2>6 DEF GoroutineStep
<1>5. CASE SignalNode
  BY <1>5, PlanType DEF SignalNode, SetStatus
<1>6. CASE UNCHANGED status
  BY <1>6
<1> QED
  BY <1>1, <1>2, <1>3, <1>4, <1>5, <1>6
     DEF Next, LoopStep, EvalPreconditions, RunInitHandler, ScanDone, LoopTop, LoopGate,
         LoopBreaks, ReceiveDone, ReceiveDeadline, VisitNext, SelectHandlers, RunHandler,
         Return, SignalBegin, DeadlineExpires, Terminated, vars, nodeVars

\* The node a launch is about was idle, and it is not NotStarted any more.
LEMMA UnlaunchedStep ==
  ASSUME TypeOK, Unlaunched, [Next]_vars
  PROVE  Unlaunched'
<1> SUFFICES ASSUME NEW m \in Node, status'[m] = "NotStarted" PROVE gpc'[m] = "idle"
  BY DEF Unlaunched
<1>1. status[m] = "NotStarted" /\ gpc[m] = "idle"
  BY NeverUnstarted DEF Unlaunched
<1>2. CASE ReceiveReady
  BY <1>1, <1>2 DEF ReceiveReady, TypeOK, NodeTypeOK, ChanTypeOK
<1>3. ASSUME NEW n \in Node, GoroutineStep(n) PROVE gpc'[m] = "idle"
  BY <1>1, <1>3, GoroutineMove DEF TypeOK, NodeTypeOK
<1> QED
  BY <1>1, <1>2, <1>3, GpcFrame

\* Every goroutine is launched at most once, for every plan: the status is set
\* to Running in the same step of the loop that finds it NotStarted.
THEOREM LaunchedOnce == Spec => LaunchOnce
<1>1. Init => Unlaunched
  BY DEF Init, Unlaunched
<1>2. TypeOK /\ Unlaunched /\ [Next]_vars => Unlaunched'
  BY UnlaunchedStep
<1>3. TypeOK /\ Unlaunched /\ [Next]_vars =>
        [\A n \in Node : gpc[n] # "idle" /\ gpc'[n] = "prepare" => gpc[n] = "prepare"]_vars
  <2> SUFFICES ASSUME TypeOK, Unlaunched, [Next]_vars, NEW m \in Node,
                      gpc[m] # "idle", gpc'[m] = "prepare"
               PROVE  gpc[m] = "prepare"
    OBVIOUS
  <2>1. CASE ReceiveReady
    BY <2>1 DEF ReceiveReady, MayLaunch, Unlaunched, TypeOK, NodeTypeOK, ChanTypeOK
  <2>2. ASSUME NEW n \in Node, GoroutineStep(n) PROVE gpc[m] = "prepare"
    BY <2>2, GoroutineMove DEF TypeOK, NodeTypeOK
  <2> QED
    BY <2>1, <2>2, GpcFrame
<1> QED
  BY <1>1, <1>2, <1>3, TypeCorrect, PTL DEF Spec, LaunchOnce

-----------------------------------------------------------------------------
(* Slots.                                                                  *)

\* The steps between launch and completion can be counted.
LEMMA ActiveFinite == IsFiniteSet(ActiveNodes) /\ Cardinality(ActiveNodes) \in Nat
<1>1. IsFiniteSet(Node) /\ ActiveNodes \subseteq Node
  BY RunnerAssumption DEF RunnerAssumption, ActiveNodes
<1> QED
  BY <1>1, FS_Subset, FS_CardinalityType

\* Only these steps change the counter or the completions.
LEMMA SlotFrame ==
  ASSUME [Next]_vars
  PROVE  \/ ReceiveReady \/ ReceiveDone \/ \E n \in Node : SendDone(n)
         \/ UNCHANGED <<running, doneCh>>
<1>1. ASSUME NEW n \in Node, GoroutineStep(n), ~SendDone(n)
      PROVE  UNCHANGED <<running, doneCh>>
  BY <1>1 DEF GoroutineStep, PrepareNode, EnterExecution, ExecuteOK, ExecuteDeadline,
       ExecuteError, PanicNode, WakeNode, RepeatNode, EndExecution, SettleNode, TeardownNode,
       RecoverPanic, loopVars
<1> QED
  BY <1>1 DEF Next, LoopStep, EvalPreconditions, RunInitHandler, ScanNode, ScanDone, LoopTop,
       LoopGate, LoopBreaks, ReceiveDeadline, VisitNext, VisitChild,
       SelectHandlers, RunHandler, Return, SignalBegin, SignalNode, DeadlineExpires,
       Terminated, vars, chanVars, loopVars

\* running is the number of active goroutines and of unreceived completions.
LEMMA SlotCountStep ==
  ASSUME TypeOK, Unlaunched, SlotCount, [Next]_vars
  PROVE  SlotCount'
<1> USE DEF TypeOK, NodeTypeOK, ChanTypeOK
<1>1. CASE ReceiveReady
  <2> DEFINE n == Head(readyCh)
  <2>1. n \in Node /\ UNCHANGED doneCh
    BY <1>1 DEF ReceiveReady
  <2>2. CASE MayLaunch(n)
    <3>1. gpc' = [gpc EXCEPT ![n] = "prepare"] /\ running' = running + 1
      BY <1>1, <2>2 DEF ReceiveReady
    <3>2. gpc[n] = "idle"
      BY <2>1, <2>2 DEF MayLaunch, Unlaunched
    <3>3. ActiveNodes' = ActiveNodes \cup {n} /\ n \notin ActiveNodes
      BY <2>1, <3>1, <3>2 DEF ActiveNodes, Active
    <3>4. Cardinality(ActiveNodes') = Cardinality(ActiveNodes) + 1
      BY <3>3, ActiveFinite, FS_AddElement
    <3> QED
      BY <2>1, <3>1, <3>4, ActiveFinite DEF SlotCount
  <2>3. CASE ~MayLaunch(n)
    <3>1. UNCHANGED <<gpc, running>>
      BY <1>1, <2>3 DEF ReceiveReady
    <3> QED
      BY <2>1, <3>1 DEF SlotCount, ActiveNodes, Active
  <2> QED
    BY <2>2, <2>3
<1>2. CASE ReceiveDone
  <2>1. UNCHANGED gpc /\ running' = running - 1 /\ Len(doneCh') = Len(doneCh) - 1
    BY <1>2 DEF ReceiveDone, nodeVars
  <2>2. ActiveNodes' = ActiveNodes
    BY <2>1 DEF ActiveNodes, Active
  <2> QED
    BY <2>1, <2>2, ActiveFinite DEF SlotCount
<1>3. ASSUME NEW n \in Node, SendDone(n) PROVE SlotCount'
  <2>1. \/ gpc' = [gpc EXCEPT ![n] = "recover"]
        \/ gpc' = [gpc EXCEPT ![n] = "finished"]
    BY <1>3 DEF SendDone, GoTo
  <2>2. Active(n) /\ UNCHANGED running /\ doneCh' = Append(doneCh, n)
    BY <1>3 DEF SendDone, Active, loopVars
  <2>3. ActiveNodes' = ActiveNodes \ {n} /\ n \in ActiveNodes
    BY <2>1, <2>2 DEF ActiveNodes, Active
  <2>4. Cardinality(ActiveNodes') = Cardinality(ActiveNodes) - 1
    BY <2>3, ActiveFinite, FS_RemoveElement
  <2>5. Len(doneCh') = Len(doneCh) + 1
    BY <2>2
  <2> QED
    BY <2>2, <2>4, <2>5, ActiveFinite DEF SlotCount
<1>4. ASSUME UNCHANGED <<running, doneCh>>, ~ReceiveReady,
             \A n \in Node : ~SendDone(n)
      PROVE  SlotCount'
  <2>1. ASSUME NEW n \in Node, GoroutineStep(n) PROVE ActiveNodes' = ActiveNodes
    <3>1. CASE RecoverPanic(n)
      BY <3>1 DEF RecoverPanic, GoTo, ActiveNodes, Active
    <3>2. CASE ~RecoverPanic(n)
      <4>1. PICK pc \in {"loop", "exec", "backoff", "handled", "final", "teardown",
                         "return", "panic", "recover", "finished"} :
              /\ gpc' = [gpc EXCEPT ![n] = pc]
              /\ gpc[n] \notin {"idle", "finished"}
              /\ pc \notin {"recover", "finished"}
        BY <1>4, <2>1, <3>2, GoroutineMove
      <4>2. gpc[n] # "recover"
        BY <1>4, <2>1, <3>2 DEF GoroutineStep, PrepareNode, EnterExecution, ExecuteOK,
             ExecuteDeadline, ExecuteError, PanicNode, WakeNode, RepeatNode, EndExecution,
             SettleNode, TeardownNode
      <4> QED
        BY <4>1, <4>2 DEF ActiveNodes, Active
    <3> QED
      BY <3>1, <3>2
  <2>2. CASE UNCHANGED gpc
    BY <1>4, <2>2 DEF SlotCount, ActiveNodes, Active
  <2> QED
    BY <1>4, <2>1, <2>2, GpcFrame DEF SlotCount
<1> QED
  BY <1>1, <1>2, <1>3, <1>4, SlotFrame

\* A launch finds a free slot: nothing but the loop itself takes one.
LEMMA SlotLimitStep ==
  ASSUME TypeOK, SlotLimit, GateHolds, [Next]_vars
  PROVE  SlotLimit' /\ GateHolds'
<1> USE DEF TypeOK, ChanTypeOK, RunTypeOK, SlotFree
<1>0. MaxActive \in Nat
  BY RunnerAssumption DEF RunnerAssumption
<1>1. CASE ReceiveReady
  BY <1>0, <1>1 DEF ReceiveReady, SlotLimit, GateHolds
<1>2. CASE ReceiveDone
  BY <1>0, <1>2 DEF ReceiveDone, SlotLimit, GateHolds
<1>3. CASE LoopGate
  BY <1>3 DEF LoopGate, SlotLimit, GateHolds
<1>4. CASE LoopBreaks
  BY <1>4 DEF LoopBreaks, SlotLimit, GateHolds, chanVars
<1>5. CASE UNCHANGED <<running, loop, activeReady>>
  BY <1>5 DEF SlotLimit, GateHolds
<1>6. CASE UNCHANGED running /\ loop' \notin {"breaks", "select"}
  BY <1>6 DEF SlotLimit, GateHolds
<1>7. ASSUME NEW n \in Node, GoroutineStep(n) PROVE UNCHANGED <<running, loop, activeReady>>
  BY <1>7 DEF GoroutineStep, PrepareNode, EnterExecution, ExecuteOK, ExecuteDeadline,
       ExecuteError, PanicNode, WakeNode, RepeatNode, EndExecution, SettleNode, TeardownNode,
       SendDone, RecoverPanic, loopVars
<1>8. CASE ScanNode \/ ScanDone \/ LoopTop \/ ReceiveDeadline \/ VisitNext
  BY <1>5, <1>6, <1>8 DEF ScanNode, ScanDone, LoopTop, ReceiveDeadline, VisitNext, chanVars
<1>9. CASE EvalPreconditions \/ RunInitHandler \/ SelectHandlers \/ RunHandler \/ Return
  BY <1>5, <1>6, <1>9 DEF EvalPreconditions, RunInitHandler, SelectHandlers, RunHandler,
       Return, chanVars
<1>10. CASE \E i \in DOMAIN Order : VisitChild(i)
  BY <1>5, <1>10 DEF VisitChild
<1>11. CASE SignalBegin \/ SignalNode \/ DeadlineExpires \/ Terminated \/ UNCHANGED vars
  BY <1>5, <1>11 DEF SignalBegin, SignalNode, DeadlineExpires, Terminated, vars, loopVars,
       chanVars
<1> QED
  BY <1>1, <1>2, <1>3, <1>4, <1>5, <1>7, <1>8, <1>9, <1>10, <1>11 DEF Next, LoopStep

\* However many steps are ready, no more than maxActiveRuns of them are between
\* their launch and their completion.
THEOREM ActiveBounded == Spec => []ActiveBound
<1>1. Init => Unlaunched /\ SlotCount /\ SlotLimit /\ GateHolds
  <2> SUFFICES ASSUME Init PROVE Unlaunched /\ SlotCount /\ SlotLimit /\ GateHolds
    OBVIOUS
  <2>1. ActiveNodes = {}
    BY DEF Init, ActiveNodes, Active
  <2>2. Cardinality(ActiveNodes) = 0
    BY <2>1, FS_EmptySet
  <2> QED
    BY <2>2, RunnerAssumption
       DEF RunnerAssumption, Init, Unlaunched, SlotCount, SlotLimit, GateHolds
<1>2. LaunchInv /\ [Next]_vars /\ TypeOK' => LaunchInv'
  BY UnlaunchedStep, SlotCountStep, SlotLimitStep DEF LaunchInv
<1>3. LaunchInv => ActiveBound
  <2> SUFFICES ASSUME LaunchInv, MaxActive # 0
               PROVE  Cardinality(ActiveNodes) <= MaxActive
    BY DEF ActiveBound, ActiveNodes
  <2>1. Len(doneCh) \in Nat /\ MaxActive \in Nat
    BY RunnerAssumption DEF RunnerAssumption, LaunchInv, TypeOK, ChanTypeOK
  <2> QED
    BY <2>1, ActiveFinite DEF LaunchInv, SlotCount, SlotLimit
<1> QED
  BY <1>1, <1>2, <1>3, TypeCorrect, PTL DEF Spec, LaunchInv

-----------------------------------------------------------------------------
(* Dependencies.                                                           *)

\* Only these steps change the nodes.
LEMMA NodeFrame ==
  ASSUME [Next]_vars
  PROVE  \/ ScanNode \/ ReceiveReady \/ SignalNode
         \/ \E i \in DOMAIN Order : VisitChild(i)
         \/ \E n \in Node : GoroutineStep(n)
         \/ UNCHANGED nodeVars
BY DEF Next, LoopStep, EvalPreconditions, RunInitHandler, ScanDone, LoopTop, LoopGate,
       LoopBreaks, ReceiveDone, ReceiveDeadline, VisitNext, SelectHandlers, RunHandler,
       Return, SignalBegin, DeadlineExpires, Terminated, vars

\* The loop and Signal: a status they change was NotStarted or Running.
LEMMA LoopStatus ==
  ASSUME TypeOK, NEW m \in Node, status'[m] # status[m],
         ScanNode \/ ReceiveReady \/ SignalNode \/ \E i \in DOMAIN Order : VisitChild(i)
  PROVE  \/ status[m] = "NotStarted"
         \/ status[m] = "Running" /\ status'[m] = "Aborted"
<1> USE DEF TypeOK, NodeTypeOK
<1>1. CASE ScanNode
  BY <1>1, PlanType DEF ScanNode
<1>2. CASE ReceiveReady
  BY <1>2 DEF ReceiveReady, MayLaunch, ChanTypeOK
<1>3. CASE SignalNode
  BY <1>3, PlanType DEF SignalNode, SetStatus
<1>4. CASE \E i \in DOMAIN Order : VisitChild(i)
  BY <1>4, PlanType DEF VisitChild
<1> QED
  BY <1>1, <1>2, <1>3, <1>4

\* EarlyStatus and FinalStatus are inductive.
LEMMA EarlyStatusStep ==
  ASSUME TypeOK, Unlaunched, EarlyStatus, FinalStatus, [Next]_vars
  PROVE  EarlyStatus' /\ FinalStatus'
<1> USE DEF TypeOK, NodeTypeOK, EarlyStatus, FinalStatus
<1>1. CASE ScanNode \/ SignalNode \/ \E i \in DOMAIN Order : VisitChild(i)
  <2>1. UNCHANGED <<gpc, execErr>>
    BY <1>1 DEF ScanNode, SignalNode, VisitChild
  <2>2. \A m \in Node : \/ status'[m] = status[m]
                        \/ status[m] = "NotStarted"
                        \/ status[m] = "Running" /\ status'[m] = "Aborted"
    BY <1>1, LoopStatus
  <2> QED
    BY <2>1, <2>2 DEF Unlaunched
<1>2. CASE ReceiveReady
  <2>1. Head(readyCh) \in Node
    BY <1>2 DEF ReceiveReady, ChanTypeOK
  <2> QED
    BY <1>2, <2>1 DEF ReceiveReady
<1>3. ASSUME NEW n \in Node, GoroutineStep(n) PROVE EarlyStatus' /\ FinalStatus'
  <2> USE DEF GoTo, SetStatus
  <2>1. CASE PrepareNode(n) \/ EnterExecution(n)
    BY <2>1 DEF PrepareNode, EnterExecution
  <2>2. CASE ExecuteOK(n)
    BY <2>2 DEF ExecuteOK, DeterminedStatus
  <2>3. CASE ExecuteDeadline(n)
    BY <2>3 DEF ExecuteDeadline
  <2>4. CASE ExecuteError(n)
    BY <2>4 DEF ExecuteError, RetryOrFail
  <2>5. CASE PanicNode(n) \/ WakeNode(n)
    BY <2>5 DEF PanicNode, WakeNode
  <2>6. CASE RepeatNode(n)
    BY <2>6 DEF RepeatNode
  <2>7. CASE EndExecution(n)
    BY <2>7 DEF EndExecution
  <2>8. CASE SettleNode(n) \/ TeardownNode(n)
    BY <2>8 DEF SettleNode, TeardownNode
  <2>9. CASE SendDone(n) \/ RecoverPanic(n)
    BY <2>9 DEF SendDone, RecoverPanic
  <2> QED
    BY <1>3, <2>1, <2>2, <2>3, <2>4, <2>5, <2>6, <2>7, <2>8, <2>9 DEF GoroutineStep
<1>4. CASE UNCHANGED nodeVars
  BY <1>4 DEF nodeVars
<1> QED
  BY <1>1, <1>2, <1>3, <1>4, NodeFrame

\* Once a steady node lets its dependents start, it does so for ever.
LEMMA SteadyStable ==
  ASSUME TypeOK, EarlyStatus, FinalStatus, [Next]_vars,
         NEW d \in Node, Steady(d), ShouldContinue(d)
  PROVE  ShouldContinue(d)'
<1> USE DEF TypeOK, NodeTypeOK
<1>0. status[d] \in {"Succeeded", "PartiallySucceeded", "Failed", "Skipped"}
  BY DEF ShouldContinue
<1>1. CASE ScanNode \/ ReceiveReady \/ SignalNode \/ \E i \in DOMAIN Order : VisitChild(i)
  <2>1. status'[d] = status[d]
    BY <1>0, <1>1, LoopStatus
  <2> QED
    BY <2>1 DEF ShouldContinue
<1>2. ASSUME NEW n \in Node, GoroutineStep(n) PROVE status'[d] = status[d]
  <2> USE DEF SetStatus
  <2>0. /\ d \notin Repeating
        /\ gpc[d] \notin {"prepare", "loop", "exec", "backoff", "panic", "recover"}
    BY <1>0 DEF Steady, EarlyStatus
  <2>1. CASE PrepareNode(n) \/ EnterExecution(n) \/ ExecuteDeadline(n)
    BY <2>0, <2>1 DEF PrepareNode, EnterExecution, ExecuteDeadline
  <2>2. CASE ExecuteOK(n)
    BY <2>0, <2>2 DEF ExecuteOK
  <2>3. CASE ExecuteError(n)
    BY <2>0, <2>3 DEF ExecuteError, RetryOrFail
  <2>4. CASE PanicNode(n) \/ WakeNode(n) \/ RepeatNode(n) \/ EndExecution(n)
    BY <2>0, <2>4 DEF PanicNode, WakeNode, RepeatNode, EndExecution
  <2>5. CASE SettleNode(n)
    <3>1. CASE n # d
      BY <2>5, <3>1 DEF SettleNode
    <3>2. CASE n = d
      <4>1. gpc[d] = "final" /\ d \notin Repeating
        BY <2>0, <2>5, <3>2 DEF SettleNode
      <4>2. d \in SubDAG
        BY <1>0, <4>1 DEF FinalStatus
      <4>3. d \notin Approval
        BY <4>2 DEF Steady
      <4>4. SettledStatus(d) = status[d]
        BY <1>0, <4>3 DEF SettledStatus
      <4> QED
        BY <2>5, <3>2, <4>4 DEF SettleNode
    <3> QED
      BY <3>1, <3>2
  <2>6. CASE TeardownNode(n)
    BY <2>6 DEF TeardownNode, Steady
  <2>7. CASE SendDone(n) \/ RecoverPanic(n)
    BY <2>0, <2>7 DEF SendDone, RecoverPanic
  <2> QED
    BY <1>2, <2>1, <2>2, <2>3, <2>4, <2>5, <2>6, <2>7 DEF GoroutineStep
<1>3. CASE UNCHANGED nodeVars
  BY <1>3 DEF nodeVars, ShouldContinue
<1> QED
  BY <1>1, <1>2, <1>3, NodeFrame DEF ShouldContinue

\* The steady dependencies of a node that may start let it start ever after.
LEMMA SteadyDepsStable ==
  ASSUME TypeOK, EarlyStatus, FinalStatus, [Next]_vars,
         NEW n \in Node, SteadyDepsContinue(n)
  PROVE  SteadyDepsContinue(n)'
<1>1. \A i \in DOMAIN Deps[n] : Deps[n][i] \in Node
  BY RunnerAssumption DEF RunnerAssumption
<1>2. ASSUME NEW i \in DOMAIN Deps[n], Steady(Deps[n][i]) PROVE ShouldContinue(Deps[n][i])'
  BY <1>1, <1>2, SteadyStable DEF SteadyDepsContinue
<1> QED
  BY <1>2 DEF SteadyDepsContinue, Steady

\* What the loop adds to readyCh is ready, and what is in it stays ready.
LEMMA QueuedReadyStep ==
  ASSUME TypeOK, EarlyStatus, FinalStatus, QueuedReady, [Next]_vars
  PROVE  QueuedReady'
<1> USE DEF TypeOK, ChanTypeOK
<1> DEFINE Queued(n) == \E k \in DOMAIN readyCh : readyCh[k] = n
<1>0. ASSUME NEW n \in Node, Queued(n) PROVE SteadyDepsContinue(n)'
  BY <1>0, SteadyDepsStable DEF QueuedReady
<1>1. ASSUME NEW n \in Node, isReady(n), readyCh' = Append(readyCh, n) PROVE QueuedReady'
  <2>1. SteadyDepsContinue(n)
    BY <1>1 DEF isReady, Blockers, SteadyDepsContinue
  <2>2. SteadyDepsContinue(n)'
    BY <2>1, SteadyDepsStable
  <2>3. ASSUME NEW k \in DOMAIN readyCh' PROVE SteadyDepsContinue(readyCh[k])'
    <3>1. readyCh'[k] = n \/ (readyCh'[k] \in Node /\ Queued(readyCh'[k]))
      BY <1>1, <2>3
    <3> QED
      BY <1>0, <2>2, <3>1
  <2> QED
    BY <2>3 DEF QueuedReady
<1>2. CASE ScanNode
  BY <1>0, <1>1, <1>2, PlanType DEF ScanNode, QueuedReady
<1>3. ASSUME NEW i \in DOMAIN Order, VisitChild(i) PROVE QueuedReady'
  BY <1>0, <1>1, <1>3, PlanType DEF VisitChild, PushReady, QueuedReady
<1>4. CASE ReceiveReady
  <2>1. readyCh # <<>> /\ readyCh' = Tail(readyCh)
    BY <1>4 DEF ReceiveReady
  <2>2. \A k \in DOMAIN readyCh' : readyCh'[k] \in Node /\ Queued(readyCh'[k])
    BY <2>1
  <2> QED
    BY <1>0, <2>2 DEF QueuedReady
<1>5. CASE UNCHANGED readyCh
  BY <1>0, <1>5 DEF QueuedReady
<1>6. ASSUME NEW n \in Node, GoroutineStep(n) PROVE UNCHANGED readyCh
  BY <1>6 DEF GoroutineStep, PrepareNode, EnterExecution, ExecuteOK, ExecuteDeadline,
       ExecuteError, PanicNode, WakeNode, RepeatNode, EndExecution, SettleNode, TeardownNode,
       SendDone, RecoverPanic, loopVars
<1> QED
  BY <1>2, <1>3, <1>4, <1>5, <1>6
     DEF Next, LoopStep, EvalPreconditions, RunInitHandler, ScanDone, LoopTop, LoopGate,
         LoopBreaks, ReceiveDone, ReceiveDeadline, VisitNext, SelectHandlers, RunHandler,
         Return, SignalBegin, SignalNode, DeadlineExpires, Terminated, vars, chanVars, loopVars

\* For every plan: when a step is launched, each of its steady dependencies has
\* ended in a way that lets it start, however long it has waited in readyCh.
THEOREM DepsRespected == Spec => LaunchRespectsDeps
<1> DEFINE Inv == TypeOK /\ Unlaunched /\ EarlyStatus /\ FinalStatus /\ QueuedReady
<1>1. Init => Unlaunched /\ EarlyStatus /\ FinalStatus /\ QueuedReady
  BY DEF Init, Unlaunched, EarlyStatus, FinalStatus, QueuedReady
<1>2. Inv /\ [Next]_vars /\ TypeOK' => Inv'
  BY UnlaunchedStep, EarlyStatusStep, QueuedReadyStep
<1>3. Inv /\ [Next]_vars =>
        [\A n \in Node : gpc[n] = "idle" /\ gpc'[n] = "prepare" =>
           \A i \in DOMAIN Deps[n] :
             Steady(Deps[n][i]) => ShouldContinue(Deps[n][i])]_vars
  <2> SUFFICES ASSUME Inv, [Next]_vars, NEW m \in Node, gpc[m] = "idle",
                      gpc'[m] = "prepare"
               PROVE  SteadyDepsContinue(m)
    BY DEF SteadyDepsContinue
  <2>1. CASE ReceiveReady
    <3>1. m = Head(readyCh) /\ readyCh # <<>>
      BY <2>1 DEF ReceiveReady, TypeOK, NodeTypeOK, ChanTypeOK
    <3>2. 1 \in DOMAIN readyCh /\ m = readyCh[1]
      BY <3>1 DEF TypeOK, ChanTypeOK
    <3> QED
      BY <3>2 DEF QueuedReady
  <2>2. ASSUME NEW n \in Node, GoroutineStep(n) PROVE FALSE
    BY <2>2, GoroutineMove DEF TypeOK, NodeTypeOK
  <2> QED
    BY <2>1, <2>2, GpcFrame
<1> QED
  BY <1>1, <1>2, <1>3, TypeCorrect, PTL DEF Spec, LaunchRespectsDeps

=============================================================================
