-------------------------- MODULE RunnerWalkProofs --------------------------
(***************************************************************************)
(* What Runner guarantees about the end of a run, for every plan: no step  *)
(* is forgotten, deadlocks are only reported after a panic, no step stays  *)
(* Running, and the verdict agrees with the steps.                         *)
(***************************************************************************)
EXTENDS RunnerProofs, NaturalsInduction, WellFoundedInduction

-----------------------------------------------------------------------------
(* The conditions of the theorems.  TLC violates the properties without    *)
(* them: the README says how.                                              *)

\* No step panics.
NoPanics == \A n \in Node : "panic" \notin Outcomes[n]

\* The statuses a run starts from give the initial scan nothing to mark: that
\* is so of a new plan, and of a retry of a run none of whose kept steps was
\* skipped without continueOn.
NothingToMark ==
  \A s \in InitialStatus : \A n \in Node :
    \/ s[n] \in {"NotStarted", "Waiting", "Retrying", "Succeeded", "PartiallySucceeded"}
    \/ s[n] = "Failed"  /\ n \in ContinueOnFailure
    \/ s[n] = "Skipped" /\ n \in ContinueOnSkipped

\* The plan has no cycle: buildEdges refuses one that has.
Acyclic ==
  \E rank \in [Node -> Nat] : \A n \in Node : \A d \in Upstream(n) : rank[d] < rank[n]

\* A repeated step's command returns no error.
RepeatsDoNotFail == \A n \in Repeating : Outcomes[n] \cap {"error", "fatalExit"} = {}

\* No step is repeated, and the failures a run starts from are tolerated.
FailuresAreNoted ==
  /\ Repeating = {}
  /\ \A s \in InitialStatus : \A n \in Node : s[n] = "Failed" => n \in ContinueOnFailure

-----------------------------------------------------------------------------
(* The invariants.                                                         *)

In(n, s) == \E k \in DOMAIN s : s[k] = n

\* Before the event loop nothing has been launched.
Before == {"setup", "init", "scan"}
IdleInv == loop \in Before => running = 0 /\ doneCh = <<>> /\ \A n \in Node : gpc[n] = "idle"

\* A walk is over when the loop goes on.
WalkInv == loop # "visit" => queue = <<>> /\ children = {}

\* wg.Wait has seen every goroutine end.
EndedInv == loop \in {"handlers", "returned"} => \A n \in Node : gpc[n] \in {"idle", "finished"}

PanicInv == \A n \in Node : gpc[n] \in {"panic", "recover"} => "panic" \in Outcomes[n]

\* A goroutine that ends leaves its node Running only if the run is canceled.
Leaving(n) == gpc[n] \in {"return", "finished"} \/ (gpc[n] = "handled" /\ n \in execErr)
RunningInv ==
  \A n \in Node : status[n] = "Running" =>
    gpc[n] \notin {"idle", "teardown"} /\ (Leaving(n) => canceled)

\* The gate is shut only for want of a slot.
ShutInv == loop \in {"breaks", "select"} /\ ~canceled /\ ~activeReady => ~SlotFree

EndInv ==
  /\ TypeOK /\ Unlaunched /\ SlotCount
  /\ IdleInv /\ WalkInv /\ EndedInv /\ PanicInv /\ RunningInv /\ ShutInv

-----------------------------------------------------------------------------
(* Frames.                                                                 *)

\* A goroutine changes its own node, the completions and the last error only.
LEMMA GoroutineFrame ==
  ASSUME NodeTypeOK, NEW n \in Node, GoroutineStep(n)
  PROVE  /\ UNCHANGED <<loop, scanPos, readyCh, running, activeReady, queue, children,
                        canceled, deadline, sigPos, sigLeft, todo, ran, verdict, finished>>
         /\ \A m \in Node \ {n} : /\ status'[m] = status[m] /\ gpc'[m] = gpc[m]
                                  /\ m \in execErr' <=> m \in execErr
         /\ gpc[n] \notin {"idle", "finished"} /\ gpc'[n] # "idle"
         /\ SendDone(n) \/ (UNCHANGED doneCh /\ (Active(n) => Active(n)'))
<1> USE DEF NodeTypeOK, GoTo, SetStatus, loopVars, walkVars, sigVars, handlerVars, Active
<1>1. CASE PrepareNode(n) \/ EnterExecution(n)
  BY <1>1 DEF PrepareNode, EnterExecution
<1>2. CASE ExecuteOK(n)
  BY <1>2 DEF ExecuteOK
<1>3. CASE ExecuteDeadline(n)
  BY <1>3 DEF ExecuteDeadline
<1>4. CASE ExecuteError(n)
  BY <1>4 DEF ExecuteError, RetryOrFail
<1>5. CASE PanicNode(n) \/ WakeNode(n)
  BY <1>5 DEF PanicNode, WakeNode
<1>6. CASE RepeatNode(n)
  BY <1>6 DEF RepeatNode
<1>7. CASE EndExecution(n)
  BY <1>7 DEF EndExecution
<1>8. CASE SettleNode(n) \/ TeardownNode(n)
  BY <1>8 DEF SettleNode, TeardownNode
<1>9. CASE SendDone(n)
  BY <1>9 DEF SendDone
<1>10. CASE RecoverPanic(n)
  BY <1>10 DEF RecoverPanic
<1> QED
  BY <1>1, <1>2, <1>3, <1>4, <1>5, <1>6, <1>7, <1>8, <1>9, <1>10 DEF GoroutineStep

\* Every step keeps IdleInv, WalkInv and EndedInv.
LEMMA PhaseStep ==
  ASSUME TypeOK, IdleInv, WalkInv, EndedInv, [Next]_vars
  PROVE  IdleInv' /\ WalkInv' /\ EndedInv'
<1> USE DEF TypeOK, IdleInv, WalkInv, EndedInv, Before
<1>1. CASE EvalPreconditions \/ RunInitHandler \/ ScanNode \/ ScanDone
  BY <1>1 DEF EvalPreconditions, RunInitHandler, ScanNode, ScanDone, nodeVars, chanVars, walkVars
<1>2. CASE LoopTop \/ LoopGate \/ LoopBreaks \/ ReceiveDeadline
  BY <1>2 DEF LoopTop, LoopGate, LoopBreaks, ReceiveDeadline, nodeVars, chanVars, walkVars
<1>3. CASE ReceiveReady
  BY <1>3 DEF ReceiveReady, walkVars
<1>4. CASE ReceiveDone
  BY <1>4 DEF ReceiveDone, nodeVars
<1>5. CASE VisitNext
  BY <1>5 DEF VisitNext, nodeVars, walkVars
<1>6. ASSUME NEW i \in DOMAIN Order, VisitChild(i) PROVE IdleInv' /\ WalkInv' /\ EndedInv'
  BY <1>6 DEF VisitChild
<1>7. CASE SelectHandlers \/ RunHandler \/ Return
  BY <1>7 DEF SelectHandlers, RunHandler, Return, nodeVars, chanVars, walkVars
<1>8. ASSUME NEW n \in Node, GoroutineStep(n) PROVE IdleInv' /\ WalkInv' /\ EndedInv'
  BY <1>8, GoroutineFrame
<1>9. CASE SignalBegin \/ SignalNode \/ DeadlineExpires \/ UNCHANGED vars
  BY <1>9 DEF SignalBegin, SignalNode, DeadlineExpires, vars, nodeVars, chanVars, walkVars, loopVars
<1> QED
  BY <1>1, <1>2, <1>3, <1>4, <1>5, <1>6, <1>7, <1>8, <1>9 DEF Next, LoopStep, Terminated

\* Only a panic leads to panic and recover.
LEMMA PanicStep ==
  ASSUME TypeOK, PanicInv, [Next]_vars
  PROVE  PanicInv'
<1> USE DEF TypeOK, NodeTypeOK, PanicInv
<1>1. CASE ReceiveReady
  BY <1>1 DEF ReceiveReady
<1>2. ASSUME NEW n \in Node, GoroutineStep(n) PROVE PanicInv'
  <2>1. gpc'[n] \in {"panic", "recover"} => "panic" \in Outcomes[n]
    <3>1. CASE PanicNode(n)
      BY <3>1 DEF PanicNode
    <3>2. CASE SendDone(n)
      BY <3>2 DEF SendDone, GoTo
    <3>3. CASE ~PanicNode(n) /\ ~SendDone(n)
      BY <1>2, <3>3 DEF GoroutineStep, PrepareNode, EnterExecution, ExecuteOK, ExecuteDeadline,
           ExecuteError, RetryOrFail, WakeNode, RepeatNode, EndExecution, SettleNode,
           TeardownNode, RecoverPanic, GoTo
    <3> QED
      BY <3>1, <3>2, <3>3
  <2> QED
    BY <1>2, <2>1, GoroutineFrame
<1> QED
  BY <1>1, <1>2, GpcFrame

\* A node stays Running after its goroutine has decided only if the run is
\* canceled.
LEMMA RunningStep ==
  ASSUME TypeOK, Unlaunched, RunningInv, IdleInv, [Next]_vars
  PROVE  RunningInv'
<1> USE DEF TypeOK, NodeTypeOK, RunningInv, Leaving
<1>1. CASE ScanNode \/ SignalNode \/ \E i \in DOMAIN Order : VisitChild(i)
  <2>1. UNCHANGED <<gpc, execErr, canceled>>
    BY <1>1 DEF ScanNode, SignalNode, VisitChild
  <2>2. \A m \in Node : status'[m] = "Running" => status[m] = "Running"
    <3>1. \A n \in Node : status[n] = "NotStarted" => UpstreamMark(n) # "Running"
      BY UpstreamMarkType
    <3> QED
      BY <1>1, <3>1, PlanType DEF ScanNode, SignalNode, VisitChild, SetStatus
  <2> QED
    BY <2>1, <2>2
<1>2. CASE ReceiveReady
  BY <1>2 DEF ReceiveReady, ChanTypeOK
<1>3. ASSUME NEW n \in Node, GoroutineStep(n) PROVE RunningInv'
  <2> USE DEF GoTo, SetStatus
  <2>1. CASE PrepareNode(n) \/ EnterExecution(n)
    BY <2>1 DEF PrepareNode, EnterExecution
  <2>2. CASE ExecuteOK(n)
    BY <2>2 DEF ExecuteOK, DeterminedStatus
  <2>3. CASE ExecuteDeadline(n)
    BY <2>3 DEF ExecuteDeadline, AlreadySettled
  <2>4. CASE ExecuteError(n)
    BY <2>4 DEF ExecuteError, RetryOrFail, AlreadySettled
  <2>5. CASE PanicNode(n) \/ WakeNode(n)
    BY <2>5 DEF PanicNode, WakeNode
  <2>6. CASE RepeatNode(n)
    BY <2>6 DEF RepeatNode
  <2>7. CASE EndExecution(n)
    BY <2>7 DEF EndExecution
  <2>8. CASE SettleNode(n)
    BY <2>8 DEF SettleNode, SettledStatus
  <2>9. CASE TeardownNode(n)
    BY <2>9 DEF TeardownNode
  <2>10. CASE SendDone(n) \/ RecoverPanic(n)
    BY <2>10 DEF SendDone, RecoverPanic
  <2> QED
    BY <1>3, <2>1, <2>2, <2>3, <2>4, <2>5, <2>6, <2>7, <2>8, <2>9, <2>10 DEF GoroutineStep
<1>4. CASE UNCHANGED nodeVars
  <2>1. canceled => canceled'
    BY <1>4 DEF Next, LoopStep, EvalPreconditions, RunInitHandler, ScanNode, ScanDone, LoopTop,
         LoopGate, LoopBreaks, ReceiveReady, ReceiveDone, ReceiveDeadline, VisitNext, VisitChild,
         SelectHandlers, RunHandler, Return, GoroutineStep, PrepareNode, EnterExecution,
         ExecuteOK, ExecuteDeadline, ExecuteError, PanicNode, WakeNode, RepeatNode,
         EndExecution, SettleNode, TeardownNode, SendDone, RecoverPanic, SignalBegin,
         SignalNode, DeadlineExpires, Terminated, vars, RunTypeOK
  <2> QED
    BY <1>4, <2>1 DEF nodeVars
<1> QED
  BY <1>1, <1>2, <1>3, <1>4, NodeFrame

\* The gate that LoopGate shuts stays in want of a slot until it is looked at.
LEMMA ShutStep ==
  ASSUME TypeOK, ShutInv, [Next]_vars
  PROVE  ShutInv'
<1> USE DEF TypeOK, RunTypeOK, ChanTypeOK, ShutInv, SlotFree
<1>1. CASE EvalPreconditions \/ RunInitHandler \/ ScanNode \/ ScanDone
  BY <1>1 DEF EvalPreconditions, RunInitHandler, ScanNode, ScanDone
<1>2. CASE LoopTop \/ LoopGate
  BY <1>2 DEF LoopTop, LoopGate
<1>3. CASE LoopBreaks
  BY <1>3 DEF LoopBreaks, chanVars
<1>4. CASE ReceiveReady \/ ReceiveDone \/ ReceiveDeadline
  BY <1>4 DEF ReceiveReady, ReceiveDone, ReceiveDeadline
<1>5. CASE VisitNext \/ \E i \in DOMAIN Order : VisitChild(i)
  BY <1>5 DEF VisitNext, VisitChild
<1>6. CASE SelectHandlers \/ RunHandler \/ Return
  BY <1>6 DEF SelectHandlers, RunHandler, Return
<1>7. ASSUME NEW n \in Node, GoroutineStep(n) PROVE ShutInv'
  BY <1>7, GoroutineFrame
<1>8. CASE SignalBegin \/ SignalNode \/ DeadlineExpires \/ UNCHANGED vars
  BY <1>8 DEF SignalBegin, SignalNode, DeadlineExpires, vars, chanVars, loopVars
<1> QED
  BY <1>1, <1>2, <1>3, <1>4, <1>5, <1>6, <1>7, <1>8 DEF Next, LoopStep, Terminated

\* The invariant holds at the start ...
LEMMA EndInit == Init => Unlaunched /\ SlotCount /\ IdleInv /\ WalkInv /\ EndedInv
                         /\ PanicInv /\ RunningInv /\ ShutInv
<1> SUFFICES ASSUME Init
             PROVE  /\ Unlaunched /\ SlotCount /\ IdleInv /\ WalkInv /\ EndedInv
                    /\ PanicInv /\ RunningInv /\ ShutInv
  OBVIOUS
<1>1. SlotCount
  <2>1. ActiveNodes = {}
    BY DEF Init, ActiveNodes, Active
  <2> QED
    BY <2>1, FS_EmptySet DEF Init, SlotCount
<1>2. RunningInv
  BY RunnerAssumption DEF RunnerAssumption, Init, RunningInv
<1> QED
  BY <1>1, <1>2 DEF Init, Unlaunched, IdleInv, WalkInv, EndedInv, PanicInv, ShutInv

\* ... and every step keeps it.
LEMMA EndStep == EndInv /\ [Next]_vars /\ TypeOK' => EndInv'
BY UnlaunchedStep, SlotCountStep, PhaseStep, PanicStep, RunningStep, ShutStep DEF EndInv

\* So it holds in every state of every plan.
LEMMA EndInvariant == Spec => []EndInv
<1>1. Init /\ TypeOK => EndInv
  BY EndInit DEF EndInv
<1> QED
  BY <1>1, EndStep, TypeCorrect, PTL DEF Spec

-----------------------------------------------------------------------------
(* Cancellation.                                                           *)

\* For every plan: after the canceled flag is set no step that is neither
\* repeated nor a sub-DAG turns Succeeded, because the goroutine looks at the
\* flag when it decides.
THEOREM CancelIsFinal == Spec => CancelNeverSucceeds
<1> DEFINE Inv == TypeOK /\ Unlaunched /\ EarlyStatus /\ FinalStatus
<1>1. Init => Unlaunched /\ EarlyStatus /\ FinalStatus
  BY DEF Init, Unlaunched, EarlyStatus, FinalStatus
<1>2. Inv /\ [Next]_vars /\ TypeOK' => Inv'
  BY UnlaunchedStep, EarlyStatusStep
<1>3. Inv /\ [Next]_vars =>
        [\A n \in Node \ (Repeating \cup SubDAG) :
           canceled /\ status[n] # "Succeeded" => status'[n] # "Succeeded"]_vars
  <2> SUFFICES ASSUME Inv, [Next]_vars, NEW m \in Node, m \notin Repeating, m \notin SubDAG,
                      canceled, status[m] # "Succeeded"
               PROVE  status'[m] # "Succeeded"
    OBVIOUS
  <2> USE DEF TypeOK, NodeTypeOK
  <2>1. CASE ScanNode \/ SignalNode \/ \E i \in DOMAIN Order : VisitChild(i)
    <3>1. \A n \in Node : status[n] = "NotStarted" => UpstreamMark(n) # "Succeeded"
      BY UpstreamMarkType
    <3> QED
      BY <2>1, <3>1, PlanType DEF ScanNode, SignalNode, VisitChild, SetStatus
  <2>2. CASE ReceiveReady
    BY <2>2 DEF ReceiveReady, ChanTypeOK
  <2>3. ASSUME NEW n \in Node, GoroutineStep(n) PROVE status'[m] # "Succeeded"
    <3> USE DEF SetStatus
    <3>1. CASE PrepareNode(n) \/ EnterExecution(n) \/ ExecuteDeadline(n)
      BY <3>1 DEF PrepareNode, EnterExecution, ExecuteDeadline
    <3>2. CASE ExecuteOK(n)
      BY <3>2 DEF ExecuteOK, DeterminedStatus
    <3>3. CASE ExecuteError(n)
      BY <3>3 DEF ExecuteError
    <3>4. CASE PanicNode(n) \/ WakeNode(n) \/ RepeatNode(n) \/ EndExecution(n)
      BY <3>4 DEF PanicNode, WakeNode, RepeatNode, EndExecution
    <3>5. CASE SettleNode(n)
      <4>1. CASE n = m
        <5>1. status[m] \in {"Running", "Aborted"}
          BY <3>5, <4>1 DEF SettleNode, FinalStatus
        <5>2. SettledStatus(m) # "Succeeded"
          BY <5>1 DEF SettledStatus
        <5> QED
          BY <3>5, <4>1, <5>2 DEF SettleNode
      <4>2. CASE n # m
        BY <3>5, <4>2 DEF SettleNode
      <4> QED
        BY <4>1, <4>2
    <3>6. CASE TeardownNode(n) \/ SendDone(n) \/ RecoverPanic(n)
      BY <3>6 DEF TeardownNode, SendDone, RecoverPanic
    <3> QED
      BY <2>3, <3>1, <3>2, <3>3, <3>4, <3>5, <3>6 DEF GoroutineStep
  <2>4. CASE UNCHANGED nodeVars
    BY <2>4 DEF nodeVars
  <2> QED
    BY <2>1, <2>2, <2>3, <2>4, NodeFrame
<1> QED
  BY <1>1, <1>2, <1>3, TypeCorrect, PTL DEF Spec, CancelNeverSucceeds

\* Signal is still to come to the node.
Pending(n) == \E i \in DOMAIN Order : Order[i] = n /\ 0 < sigPos /\ sigPos <= i

\* A node that executes, or that a goroutine has left Running, in a canceled
\* run: Signal will abort it.
SignalInv ==
  \A n \in Node \ Repeating :
    status[n] = "Running" /\ canceled /\ (gpc[n] = "exec" \/ Leaving(n)) => Pending(n)

\* No error of a command leaves a repeated node Running.
RepeatInv ==
  \A n \in Repeating \cap Node : Leaving(n) => status[n] # "Running"

\* Signal sees every node; a node goes on executing only before the flag is set.
LEMMA SignalStep ==
  ASSUME TypeOK, Unlaunched, IdleInv, RunningInv, SignalInv, [Next]_vars
  PROVE  SignalInv'
<1> USE DEF TypeOK, NodeTypeOK, RunTypeOK
<1>1. CASE EvalPreconditions \/ RunInitHandler
  BY <1>1 DEF EvalPreconditions, RunInitHandler, IdleInv, Before, SignalInv, Leaving, nodeVars
<1>2. CASE ScanNode \/ \E i \in DOMAIN Order : VisitChild(i)
  <2>1. UNCHANGED <<gpc, execErr, canceled, sigPos>>
    BY <1>2 DEF ScanNode, VisitChild, sigVars
  <2>2. \A m \in Node : status'[m] = "Running" => status[m] = "Running"
    <3>1. \A n \in Node : status[n] = "NotStarted" => UpstreamMark(n) # "Running"
      BY UpstreamMarkType
    <3> QED
      BY <1>2, <3>1, PlanType DEF ScanNode, VisitChild
  <2> QED
    BY <2>1, <2>2 DEF SignalInv, Leaving, Pending
<1>3. CASE ReceiveReady
  BY ZenonT(60), <1>3 DEF ReceiveReady, ChanTypeOK, SignalInv, Leaving, Pending, sigVars
<1>4. ASSUME NEW n \in Node, GoroutineStep(n) PROVE SignalInv'
  <2>1. UNCHANGED <<canceled, sigPos>>
    BY <1>4, GoroutineFrame
  <2>2. ASSUME n \notin Repeating, status'[n] = "Running", canceled,
               gpc'[n] = "exec" \/ Leaving(n)'
        PROVE  status[n] = "Running" /\ (gpc[n] = "exec" \/ Leaving(n))
    <3> USE <2>1, <2>2 DEF GoTo, SetStatus, Leaving
    <3>1. CASE PrepareNode(n) \/ EnterExecution(n)
      BY <3>1 DEF PrepareNode, EnterExecution
    <3>2. CASE ExecuteOK(n)
      BY <3>2 DEF ExecuteOK
    <3>3. CASE ExecuteDeadline(n)
      BY <3>3 DEF ExecuteDeadline
    <3>4. CASE ExecuteError(n)
      BY <3>4 DEF ExecuteError
    <3>5. CASE PanicNode(n) \/ WakeNode(n) \/ RepeatNode(n)
      BY <3>5 DEF PanicNode, WakeNode, RepeatNode
    <3>6. CASE EndExecution(n)
      BY <3>6 DEF EndExecution
    <3>7. CASE SettleNode(n)
      BY <3>7 DEF SettleNode
    <3>8. CASE TeardownNode(n)
      BY <3>8 DEF TeardownNode, RunningInv
    <3>9. CASE SendDone(n) \/ RecoverPanic(n)
      BY <3>9 DEF SendDone, RecoverPanic
    <3> QED
      BY <1>4, <3>1, <3>2, <3>3, <3>4, <3>5, <3>6, <3>7, <3>8, <3>9 DEF GoroutineStep
  <2> QED
    BY <1>4, <2>1, <2>2, GoroutineFrame DEF SignalInv, Leaving, Pending
<1>5. CASE SignalBegin
  <2>1. \A n \in Node : \E i \in 1 .. Len(Order) : Order[i] = n
    BY PlanType, RunnerAssumption DEF RunnerAssumption
  <2>2. ASSUME NEW n \in Node PROVE Pending(n)'
    <3>1. PICK i \in 1 .. Len(Order) : Order[i] = n
      BY <2>1
    <3>2. sigPos' = 1
      BY <1>5, <3>1, PlanType DEF SignalBegin, NextSignalled
    <3>3. i \in DOMAIN Order /\ 0 < sigPos' /\ sigPos' <= i
      BY <3>1, <3>2, PlanType
    <3> QED
      BY <3>1, <3>3 DEF Pending
  <2> QED
    BY <2>2 DEF SignalInv
<1>6. CASE SignalNode
  <2>1. UNCHANGED <<gpc, execErr, canceled>> /\ sigPos \in 1 .. Len(Order)
    BY <1>6, PlanType DEF SignalNode
  <2>2. ASSUME NEW m \in Node, m \notin Repeating, status'[m] = "Running"
        PROVE  status[m] = "Running" /\ Order[sigPos] # m
    BY <1>6, <2>1, <2>2, PlanType DEF SignalNode, SetStatus
  <2>3. ASSUME NEW m \in Node, Pending(m), Order[sigPos] # m
        PROVE  Pending(m)'
    <3>1. PICK i \in DOMAIN Order : Order[i] = m /\ sigPos <= i
      BY <2>3 DEF Pending
    <3>2. i \in 1 .. Len(Order) /\ i # sigPos
      BY <2>3, <3>1, PlanType
    <3>3. sigPos' = sigPos + 1
      BY <1>6, <2>1, <3>1, <3>2, PlanType DEF SignalNode, NextSignalled
    <3>4. 0 < sigPos' /\ sigPos' <= i
      BY <2>1, <3>1, <3>2, <3>3
    <3> QED
      BY <3>1, <3>4 DEF Pending
  <2> QED
    BY <2>1, <2>2, <2>3 DEF SignalInv, Leaving
<1>7. CASE UNCHANGED <<nodeVars, canceled, sigPos>>
  BY <1>7 DEF SignalInv, Leaving, Pending, nodeVars
<1> QED
  BY <1>1, <1>2, <1>3, <1>4, <1>5, <1>6, <1>7
     DEF Next, LoopStep, ScanDone, LoopTop, LoopGate, LoopBreaks, ReceiveDone,
         ReceiveDeadline, VisitNext, SelectHandlers, RunHandler, Return, DeadlineExpires,
         Terminated, vars, sigVars

\* A repeated step whose command returns no error is settled when its goroutine
\* ends: it is not signalled, and becomes Succeeded.
LEMMA RepeatStep ==
  ASSUME RepeatsDoNotFail, TypeOK, Unlaunched, RunningInv, RepeatInv, [Next]_vars
  PROVE  RepeatInv'
<1> USE DEF TypeOK, NodeTypeOK, Leaving
<1>1. CASE ScanNode \/ SignalNode \/ \E i \in DOMAIN Order : VisitChild(i)
  <2>1. UNCHANGED <<gpc, execErr>>
    BY <1>1 DEF ScanNode, SignalNode, VisitChild
  <2>2. \A m \in Node : status'[m] = "Running" => status[m] = "Running"
    <3>1. \A n \in Node : status[n] = "NotStarted" => UpstreamMark(n) # "Running"
      BY UpstreamMarkType
    <3> QED
      BY <1>1, <3>1, PlanType DEF ScanNode, SignalNode, VisitChild, SetStatus
  <2> QED
    BY <2>1, <2>2 DEF RepeatInv
<1>2. CASE ReceiveReady
  BY <1>2 DEF ReceiveReady, ChanTypeOK, RepeatInv
<1>3. ASSUME NEW n \in Node, GoroutineStep(n) PROVE RepeatInv'
  <2> SUFFICES ASSUME n \in Repeating, Leaving(n)', status'[n] = "Running"
               PROVE  Leaving(n) /\ status[n] = "Running"
    BY <1>3, GoroutineFrame DEF RepeatInv
  <2> USE DEF GoTo, SetStatus
  <2>1. CASE PrepareNode(n) \/ EnterExecution(n)
    BY <2>1 DEF PrepareNode, EnterExecution
  <2>2. CASE ExecuteOK(n)
    BY <2>2 DEF ExecuteOK
  <2>3. CASE ExecuteDeadline(n)
    BY <2>3 DEF ExecuteDeadline, AlreadySettled
  <2>4. CASE ExecuteError(n)
    BY <2>4 DEF ExecuteError, RepeatsDoNotFail
  <2>5. CASE PanicNode(n) \/ WakeNode(n) \/ RepeatNode(n)
    BY <2>5 DEF PanicNode, WakeNode, RepeatNode
  <2>6. CASE EndExecution(n)
    BY <2>6 DEF EndExecution
  <2>7. CASE SettleNode(n)
    BY <2>7 DEF SettleNode
  <2>8. CASE TeardownNode(n)
    BY <2>8 DEF TeardownNode, RunningInv
  <2>9. CASE SendDone(n) \/ RecoverPanic(n)
    BY <2>9 DEF SendDone, RecoverPanic
  <2> QED
    BY <1>3, <2>1, <2>2, <2>3, <2>4, <2>5, <2>6, <2>7, <2>8, <2>9 DEF GoroutineStep
<1>4. CASE UNCHANGED nodeVars
  BY <1>4 DEF nodeVars, RepeatInv
<1> QED
  BY <1>1, <1>2, <1>3, <1>4, NodeFrame

\* For every plan whose repeated steps do not fail: when Run has returned and
\* Signal has been through, no node is Running, although a canceled goroutine
\* whose command fails leaves that to Signal.
THEOREM ReturnsQuiescent ==
  ASSUME RepeatsDoNotFail
  PROVE  Spec => []QuiescentAtReturn
<1>1. Init => SignalInv /\ RepeatInv
  BY DEF Init, SignalInv, RepeatInv, Leaving
<1>2. EndInv /\ SignalInv /\ RepeatInv /\ [Next]_vars => SignalInv' /\ RepeatInv'
  BY SignalStep, RepeatStep DEF EndInv
<1>3. EndInv /\ SignalInv /\ RepeatInv => QuiescentAtReturn
  <2> SUFFICES ASSUME EndInv, SignalInv, RepeatInv, loop = "returned", sigPos = 0,
                      NEW n \in Node, status[n] = "Running"
               PROVE  FALSE
    BY DEF QuiescentAtReturn, Has
  <2>1. gpc[n] = "finished" /\ canceled
    BY DEF EndInv, EndedInv, RunningInv, Leaving
  <2>2. ~Pending(n)
    BY DEF Pending
  <2> QED
    BY <2>1, <2>2 DEF SignalInv, RepeatInv, Leaving
<1> QED
  BY <1>1, <1>2, <1>3, EndInvariant, PTL DEF Spec

-----------------------------------------------------------------------------
(* The verdict.                                                            *)

\* A failure that is not tolerated is remembered.
NoteInv ==
  lastError = "nil" => \A n \in Node : status[n] = "Failed" => n \in ContinueOnFailure

\* Every step that makes a node Failed sets the last error, and without
\* repeated steps nothing clears it.
LEMMA NoteStep ==
  ASSUME FailuresAreNoted, TypeOK, NoteInv, [Next]_vars
  PROVE  NoteInv'
<1> USE DEF TypeOK, NodeTypeOK, NoteInv
<1>0. \A n \in Node : n # "nil"
  BY RunnerAssumption DEF RunnerAssumption
<1>1. CASE ScanNode \/ SignalNode \/ \E i \in DOMAIN Order : VisitChild(i)
  <2>1. UNCHANGED lastError
    BY <1>1 DEF ScanNode, SignalNode, VisitChild
  <2>2. \A m \in Node : status'[m] = "Failed" => status[m] = "Failed"
    <3>1. \A n \in Node : status[n] = "NotStarted" => UpstreamMark(n) # "Failed"
      BY UpstreamMarkType
    <3> QED
      BY <1>1, <3>1, PlanType DEF ScanNode, SignalNode, VisitChild, SetStatus
  <2> QED
    BY <2>1, <2>2
<1>2. CASE ReceiveReady
  BY <1>2 DEF ReceiveReady, ChanTypeOK
<1>3. ASSUME NEW n \in Node, GoroutineStep(n) PROVE NoteInv'
  <2> USE <1>0 DEF GoTo, SetStatus
  <2>1. CASE PrepareNode(n) \/ EnterExecution(n)
    BY <2>1 DEF PrepareNode, EnterExecution
  <2>2. CASE ExecuteOK(n)
    BY <2>2 DEF ExecuteOK, DeterminedStatus
  <2>3. CASE ExecuteDeadline(n)
    BY <2>3 DEF ExecuteDeadline
  <2>4. CASE ExecuteError(n)
    BY <2>4 DEF ExecuteError, RetryOrFail
  <2>5. CASE PanicNode(n) \/ WakeNode(n) \/ EndExecution(n)
    BY <2>5 DEF PanicNode, WakeNode, EndExecution
  <2>6. CASE RepeatNode(n)
    BY <2>6 DEF RepeatNode, FailuresAreNoted
  <2>7. CASE SettleNode(n) \/ TeardownNode(n)
    BY <2>7 DEF SettleNode, SettledStatus, TeardownNode
  <2>8. CASE SendDone(n) \/ RecoverPanic(n)
    BY <2>8 DEF SendDone, RecoverPanic
  <2> QED
    BY <1>3, <2>1, <2>2, <2>3, <2>4, <2>5, <2>6, <2>7, <2>8 DEF GoroutineStep
<1>4. ASSUME UNCHANGED nodeVars, \A n \in Node : ~GoroutineStep(n) PROVE NoteInv'
  <2>1. lastError' = "nil" => lastError = "nil"
    BY <1>4 DEF Next, LoopStep, EvalPreconditions, RunInitHandler, ScanNode, ScanDone, LoopTop,
         LoopGate, LoopBreaks, ReceiveReady, ReceiveDone, ReceiveDeadline, VisitNext, VisitChild,
         SelectHandlers, RunHandler, Return, SignalBegin, SignalNode, DeadlineExpires,
         Terminated, vars
  <2> QED
    BY <1>4, <2>1 DEF nodeVars
<1> QED
  BY <1>1, <1>2, <1>3, <1>4, NodeFrame

\* The verdict is given once, after the last goroutine.
VerdictInv ==
  /\ loop \notin {"handlers", "returned"} => verdict = "Running"
  /\ SuccessMeansNoFailure

\* What the verdict was given for does not change any more.
LEMMA VerdictStep ==
  ASSUME TypeOK, EndedInv, NoteInv, VerdictInv, [Next]_vars
  PROVE  VerdictInv'
<1> USE DEF VerdictInv, SuccessMeansNoFailure
<1>1. CASE SelectHandlers
  <2>1. UNCHANGED status /\ verdict' = Status /\ loop' = "handlers"
    BY <1>1 DEF SelectHandlers, nodeVars
  <2>2. Status = "PartiallySucceeded" => isPartialSuccess
    BY DEF Status
  <2>3. Status = "Succeeded" => lastError = "nil"
    BY DEF Status
  <2> QED
    BY <2>1, <2>2, <2>3 DEF isPartialSuccess, NoteInv, ShouldContinue
<1>2. CASE loop' \notin {"handlers", "returned"} /\ UNCHANGED verdict
           /\ loop \notin {"handlers", "returned"}
  BY <1>2
<1>3. CASE RunHandler \/ Return
  BY <1>3 DEF RunHandler, Return, nodeVars, ShouldContinue
<1>4. ASSUME NEW n \in Node, GoroutineStep(n) PROVE VerdictInv'
  <2>1. UNCHANGED <<loop, verdict>> /\ gpc[n] \notin {"idle", "finished"}
    BY <1>4, GoroutineFrame DEF TypeOK
  <2>2. loop \notin {"handlers", "returned"}
    BY <2>1 DEF EndedInv
  <2> QED
    BY <1>2, <2>1, <2>2
<1>5. CASE SignalNode
  <2>1. UNCHANGED <<loop, verdict>>
    BY <1>5 DEF SignalNode, loopVars, handlerVars
  <2>2. \A m \in Node : status'[m] = "Failed" => status[m] = "Failed"
    BY <1>5, PlanType DEF SignalNode, SetStatus, TypeOK, NodeTypeOK
  <2> QED
    BY <2>1, <2>2 DEF ShouldContinue
<1>6. CASE SignalBegin \/ DeadlineExpires \/ UNCHANGED vars
  BY <1>6 DEF SignalBegin, DeadlineExpires, vars, nodeVars, loopVars, handlerVars, ShouldContinue
<1>7. CASE EvalPreconditions \/ RunInitHandler \/ ScanNode \/ ScanDone \/ LoopTop \/ LoopGate
           \/ LoopBreaks
  BY <1>2, <1>7 DEF EvalPreconditions, RunInitHandler, ScanNode, ScanDone, LoopTop, LoopGate,
       LoopBreaks, handlerVars
<1>8. CASE ReceiveReady \/ ReceiveDone \/ ReceiveDeadline \/ VisitNext
           \/ \E i \in DOMAIN Order : VisitChild(i)
  BY <1>2, <1>8 DEF ReceiveReady, ReceiveDone, ReceiveDeadline, VisitNext, VisitChild,
       handlerVars
<1> QED
  BY <1>1, <1>3, <1>4, <1>5, <1>6, <1>7, <1>8 DEF Next, LoopStep, Terminated

\* For every plan without repeated steps: a run is reported Succeeded or
\* PartiallySucceeded only if every step that failed has continueOn.
THEOREM SuccessIsEarned ==
  ASSUME FailuresAreNoted
  PROVE  Spec => []SuccessMeansNoFailure
<1>1. Init => NoteInv /\ VerdictInv
  BY DEF Init, NoteInv, VerdictInv, SuccessMeansNoFailure, FailuresAreNoted
<1>2. EndInv /\ NoteInv /\ VerdictInv /\ [Next]_vars => NoteInv' /\ VerdictInv'
  BY NoteStep, VerdictStep DEF EndInv
<1>3. VerdictInv => SuccessMeansNoFailure
  BY DEF VerdictInv
<1> QED
  BY <1>1, <1>2, <1>3, EndInvariant, PTL DEF Spec

-----------------------------------------------------------------------------
(* No step is forgotten.                                                   *)

Unsettled(d) == status[d] \in {"NotStarted", "Waiting", "Retrying"}

\* The goroutine sent its completion although the node was not settled yet.
Panicked(d) ==
  /\ "panic" \in Outcomes[d]
  /\ gpc[d] = "recover" \/ (gpc[d] = "finished" /\ status[d] = "Failed")

\* Something is still to come of the dependency d.
Stirring(d) ==
  Unsettled(d) \/ Panicked(d) \/ Active(d) \/ In(d, doneCh) \/ In(d, queue)

Child(n) == \E i \in children : Order[i] = n
Behind(n) == \E d \in Upstream(n) : Stirring(d)
Stopped(n) == \E d \in Upstream(n) : Unsettled(d) \/ Panicked(d)
NotStarted(n) == status[n] = "NotStarted"

\* The initial scan finds nothing to mark ...
MarkInv == loop \in Before => \A n \in Node : Unsettled(n) \/ ShouldContinue(n)

\* ... and accounts for every node it has passed.
ScanInv ==
  loop \in Before =>
    \A i \in DOMAIN Order : i < scanPos /\ NotStarted(Order[i]) =>
      In(Order[i], readyCh) \/ Behind(Order[i])

\* In the loop every node that has not started is queued, or its walk is still
\* to come.
LoopInv ==
  loop \in {"top", "gate", "breaks", "select", "visit"} /\ ~canceled =>
    \A n \in Node : NotStarted(n) => In(n, readyCh) \/ Child(n) \/ Behind(n)

\* After the loop nothing has changed that.
AfterInv ==
  loop \in {"wait", "handlers", "returned"} /\ ~canceled =>
    \/ \A n \in Node : ~NotStarted(n)
    \/ \A n \in Node : ~Active(n) /\ (NotStarted(n) => Stopped(n))

ForgetInv == MarkInv /\ ScanInv /\ LoopInv /\ AfterInv

\* The dependencies of a step are steps.
LEMMA UpstreamType == \A n \in Node : Upstream(n) \subseteq Node
BY RunnerAssumption DEF RunnerAssumption, Upstream

\* A sequence contains what is appended to it, and its tail all but its head.
LEMMA InFacts ==
  ASSUME NEW q \in Seq(Node), NEW n \in Node, NEW m \in Node
  PROVE  /\ In(n, Append(q, n))
         /\ In(m, q) => In(m, Append(q, n))
         /\ q # <<>> /\ In(m, q) /\ m # Head(q) => In(m, Tail(q))
         /\ In(n, <<n>>)
<1>1. In(n, Append(q, n))
  <2>1. Len(q) + 1 \in DOMAIN Append(q, n) /\ Append(q, n)[Len(q) + 1] = n
    OBVIOUS
  <2> QED
    BY <2>1 DEF In
<1>2. ASSUME In(m, q) PROVE In(m, Append(q, n))
  <2>1. PICK k \in DOMAIN q : q[k] = m
    BY <1>2 DEF In
  <2>2. k \in DOMAIN Append(q, n) /\ Append(q, n)[k] = m
    BY <2>1
  <2> QED
    BY <2>2 DEF In
<1>3. ASSUME q # <<>>, In(m, q), m # Head(q) PROVE In(m, Tail(q))
  <2>1. PICK k \in DOMAIN q : q[k] = m
    BY <1>3 DEF In
  <2>2. k # 1
    BY <1>3, <2>1
  <2>3. k - 1 \in DOMAIN Tail(q) /\ Tail(q)[k - 1] = m
    BY <1>3, <2>1, <2>2
  <2> QED
    BY <2>3 DEF In
<1>4. In(n, <<n>>)
  BY DEF In
<1> QED
  BY <1>1, <1>2, <1>3, <1>4

\* A goroutine's step leaves something to come of every dependency of which
\* something was to come.
LEMMA GoroutineStirs ==
  ASSUME TypeOK, Unlaunched, PanicInv, NEW n \in Node, GoroutineStep(n),
         NEW d \in Node, Stirring(d)
  PROVE  Stirring(d)'
<1> USE DEF TypeOK, NodeTypeOK, ChanTypeOK
<1>1. UNCHANGED queue /\ \A m \in Node : In(m, doneCh) => In(m, doneCh)'
  <2>1. UNCHANGED queue /\ (SendDone(n) \/ UNCHANGED doneCh)
    BY GoroutineFrame
  <2>2. CASE SendDone(n)
    <3>1. doneCh' = Append(doneCh, n)
      BY <2>2 DEF SendDone
    <3>2. \A m \in Node : In(m, doneCh) => In(m, Append(doneCh, n))
      BY InFacts
    <3> QED
      BY <2>1, <3>1, <3>2 DEF In
  <2>3. CASE UNCHANGED doneCh
    BY <2>1, <2>3 DEF In
  <2> QED
    BY <2>1, <2>2, <2>3
<1>2. CASE d # n
  <2>1. status'[d] = status[d] /\ gpc'[d] = gpc[d]
    BY <1>2, GoroutineFrame
  <2> QED
    BY <1>1, <2>1 DEF Stirring, Unsettled, Panicked, Active, In
<1>3. CASE d = n /\ Active(n)
  <2>1. CASE SendDone(n)
    <3>1. doneCh' = Append(doneCh, n)
      BY <2>1 DEF SendDone
    <3> QED
      BY ZenonT(60), <1>3, <3>1, InFacts DEF Stirring, In
  <2>2. CASE ~SendDone(n)
    BY <1>3, <2>2, GoroutineFrame DEF Stirring
  <2> QED
    BY <2>1, <2>2
<1>4. CASE d = n /\ ~Active(n)
  <2>1. gpc[n] = "recover"
    BY <1>4, GoroutineFrame DEF Active
  <2>2. RecoverPanic(n)
    BY <2>1 DEF GoroutineStep, PrepareNode, EnterExecution, ExecuteOK, ExecuteDeadline,
         ExecuteError, PanicNode, WakeNode, RepeatNode, EndExecution, SettleNode,
         TeardownNode, SendDone
  <2>3. gpc'[n] = "finished" /\ status'[n] = "Failed"
    BY <2>2 DEF RecoverPanic, GoTo, SetStatus
  <2> QED
    BY <1>4, <2>1, <2>3 DEF PanicInv, Stirring, Panicked
<1> QED
  BY <1>2, <1>3, <1>4

\* Every set of natural numbers that is not empty has a least element.
LEMMA LeastNat ==
  ASSUME NEW T \in SUBSET Nat, T # {}
  PROVE  \E x \in T : \A y \in T : x <= y
<1>1. PICK x \in T : \A y \in T : ~(<<y, x>> \in OpToRel(<, Nat))
  BY NatLessThanWellFounded, WFMin
<1>2. ASSUME NEW y \in T PROVE x <= y
  <2>1. <<y, x>> \in Nat \X Nat /\ <<y, x>>[1] = y /\ <<y, x>>[2] = x
    OBVIOUS
  <2>2. ~(y < x)
    BY <1>1, <2>1 DEF OpToRel
  <2> QED
    BY <2>2
<1> QED
  BY <1>2

\* isReady's scan stops at a dependency that does not let the step start.
LEMMA FirstBlocker ==
  ASSUME NEW n \in Node, ~isReady(n)
  PROVE  \E d \in Upstream(n) :
           /\ ~ShouldContinue(d)
           /\ IF status[d] \in {"Failed", "Aborted", "Rejected", "Skipped"}
              THEN UpstreamMark(n) \in {"Aborted", "Skipped"}
              ELSE UpstreamMark(n) = status[n]
<1>1. Deps[n] \in Seq(Node)
  BY RunnerAssumption DEF RunnerAssumption
<1>2. Blockers(n) \in SUBSET Nat /\ Blockers(n) # {}
  BY <1>1 DEF Blockers, isReady
<1> DEFINE i == CHOOSE j \in Blockers(n) : \A k \in Blockers(n) : j <= k
<1>3. i \in Blockers(n)
  BY <1>2, LeastNat
<1>4. UpstreamMark(n) = CASE status[Deps[n][i]] \in {"Failed", "Aborted", "Rejected"} -> "Aborted"
                          [] status[Deps[n][i]] = "Skipped" -> "Skipped"
                          [] OTHER -> status[n]
  BY DEF UpstreamMark
<1> HIDE DEF i
<1>5. Deps[n][i] \in Upstream(n) /\ ~ShouldContinue(Deps[n][i])
  BY <1>3 DEF Blockers, Upstream
<1> QED
  BY <1>4, <1>5

\* What keeps a node from being forgotten, and the variables it is made of.
keptVars == <<status, gpc, readyCh, doneCh, queue, children>>
Kept(n) == In(n, readyCh) \/ Child(n) \/ Behind(n)

\* A step that changes none of these variables changes nothing for a node.
LEMMA KeptFrame ==
  ASSUME UNCHANGED keptVars, NEW n
  PROVE  /\ NotStarted(n)' = NotStarted(n) /\ Kept(n)' = Kept(n)
         /\ Behind(n)' = Behind(n) /\ In(n, readyCh)' = In(n, readyCh)
         /\ (Unsettled(n) \/ ShouldContinue(n))' = (Unsettled(n) \/ ShouldContinue(n))
         /\ Active(n)' = Active(n) /\ Stopped(n)' = Stopped(n)
BY DEF keptVars, NotStarted, Kept, In, Child, Behind, Stirring, Unsettled, Panicked,
       Active, ShouldContinue, Stopped

\* While nothing is to be marked, the scan changes no status, and a node that it
\* does not queue is behind one that is unsettled.
LEMMA ScanAccounts ==
  ASSUME TypeOK, MarkInv, ScanNode
  PROVE  LET n == Order[scanPos] IN
         /\ n \in Node /\ UNCHANGED status
         /\ NotStarted(n) => \/ readyCh' = Append(readyCh, n)
                             \/ UNCHANGED readyCh /\ \E d \in Upstream(n) : Unsettled(d)
         /\ readyCh' = Append(readyCh, n) \/ UNCHANGED readyCh
<1> DEFINE n == Order[scanPos]
<1>1. n \in Node
  BY PlanType DEF ScanNode
<1>2. CASE NotStarted(n) /\ ~isReady(n)
  <2>1. PICK d \in Upstream(n) :
           /\ ~ShouldContinue(d)
           /\ IF status[d] \in {"Failed", "Aborted", "Rejected", "Skipped"}
              THEN UpstreamMark(n) \in {"Aborted", "Skipped"}
              ELSE UpstreamMark(n) = status[n]
    BY <1>1, <1>2, FirstBlocker
  <2>2. Unsettled(d)
    BY <1>1, <2>1, UpstreamType DEF MarkInv, Before, ScanNode
  <2>3. UpstreamMark(n) = status[n]
    BY <2>1, <2>2 DEF Unsettled
  <2>4. status' = [status EXCEPT ![n] = status[n]] /\ UNCHANGED readyCh
    BY <1>2, <2>3 DEF ScanNode, NotStarted
  <2> QED
    BY <1>1, <2>2, <2>4 DEF TypeOK, NodeTypeOK
<1>3. CASE ~(NotStarted(n) /\ ~isReady(n))
  BY <1>1, <1>3 DEF ScanNode, NotStarted
<1> QED
  BY <1>2, <1>3

\* The scan accounts for every node it passes.
LEMMA ScanStep ==
  ASSUME TypeOK, IdleInv, MarkInv, ScanInv, [Next]_vars
  PROVE  MarkInv' /\ ScanInv'
<1> USE DEF TypeOK, NodeTypeOK, RunTypeOK, ChanTypeOK
<1>1. CASE ScanNode
  <2> DEFINE n == Order[scanPos]
  <2>1. /\ n \in Node /\ UNCHANGED <<status, gpc, doneCh, queue, children>>
        /\ loop = "scan" /\ scanPos' = scanPos + 1
    BY <1>1, ScanAccounts DEF ScanNode, walkVars
  <2>2. MarkInv'
    BY <2>1 DEF MarkInv, Before, Unsettled, ShouldContinue
  <2>3. \A m : Behind(m)' = Behind(m) /\ NotStarted(m)' = NotStarted(m)
    BY <2>1 DEF Behind, Stirring, Unsettled, Panicked, Active, In, NotStarted
  <2>4. \A m \in Node : In(m, readyCh) => In(m, readyCh')
    BY <1>1, <2>1, ScanAccounts, InFacts
  <2>5. NotStarted(n) => In(n, readyCh') \/ Behind(n)
    BY <1>1, <2>1, ScanAccounts, InFacts DEF Behind, Stirring
  <2>6. ASSUME NEW i \in DOMAIN Order, i < scanPos', NotStarted(Order[i])
        PROVE  In(Order[i], readyCh') \/ Behind(Order[i])
    <3>1. Order[i] \in Node /\ i \in Nat /\ (i < scanPos \/ i = scanPos)
      BY SMTT(30), <2>1, <2>6, PlanType
    <3> QED
      BY <2>1, <2>4, <2>5, <2>6, <3>1 DEF ScanInv, Before
  <2> QED
    BY <2>2, <2>3, <2>6 DEF ScanInv, In
<1>2. CASE EvalPreconditions \/ RunInitHandler
  <2>1. UNCHANGED keptVars /\ loop \in Before /\ UNCHANGED scanPos
    BY <1>2 DEF EvalPreconditions, RunInitHandler, keptVars, nodeVars, chanVars, walkVars, Before
  <2> QED
    BY <2>1, KeptFrame DEF MarkInv, ScanInv
<1>3. CASE SignalNode
  <2>1. UNCHANGED <<loop, scanPos, gpc, readyCh, doneCh, queue, children>>
    BY <1>3 DEF SignalNode, loopVars, walkVars
  <2>2. CASE loop \in Before
    <3>1. \A m \in Node : status[m] # "Running"
      BY <2>2 DEF MarkInv, Unsettled, ShouldContinue
    <3>2. UNCHANGED keptVars
      BY <1>3, <2>1, <3>1, PlanType DEF SignalNode, keptVars
    <3> QED
      BY <2>1, <3>2, KeptFrame DEF MarkInv, ScanInv
  <2>3. CASE loop \notin Before
    BY <2>1, <2>3 DEF MarkInv, ScanInv
  <2> QED
    BY <2>2, <2>3
<1>4. CASE SignalBegin \/ DeadlineExpires \/ UNCHANGED vars
  <2>1. UNCHANGED <<keptVars, loop, scanPos>>
    BY <1>4 DEF SignalBegin, DeadlineExpires, vars, keptVars, nodeVars, chanVars, walkVars,
         loopVars
  <2> QED
    BY <2>1, KeptFrame DEF MarkInv, ScanInv
<1>5. ASSUME NEW m \in Node, GoroutineStep(m) PROVE MarkInv' /\ ScanInv'
  <2>1. loop \notin Before /\ UNCHANGED loop
    BY <1>5, GoroutineFrame DEF IdleInv
  <2> QED
    BY <2>1 DEF MarkInv, ScanInv
<1>6. CASE loop' \notin Before
  BY <1>6 DEF MarkInv, ScanInv
<1>7. CASE ScanDone \/ LoopTop \/ LoopGate \/ LoopBreaks \/ ReceiveReady \/ ReceiveDone
           \/ ReceiveDeadline \/ VisitNext \/ \E i \in DOMAIN Order : VisitChild(i)
  BY <1>6, <1>7 DEF ScanDone, LoopTop, LoopGate, LoopBreaks, ReceiveReady, ReceiveDone,
       ReceiveDeadline, VisitNext, VisitChild, Before
<1>8. CASE SelectHandlers \/ RunHandler \/ Return
  BY <1>6, <1>8 DEF SelectHandlers, RunHandler, Return, Before
<1> QED
  BY <1>1, <1>2, <1>3, <1>4, <1>5, <1>7, <1>8 DEF Next, LoopStep, Terminated

\* Launching a ready node: it becomes active in the step that takes it from
\* readyCh, so that its children are still behind it.
LEMMA ReadyKeeps ==
  ASSUME TypeOK, ReceiveReady, NEW n \in Node, Kept(n), NotStarted(n)'
  PROVE  Kept(n)' /\ NotStarted(n)
<1> USE DEF TypeOK, NodeTypeOK, ChanTypeOK
<1> DEFINE h == Head(readyCh)
<1>1. /\ h \in Node /\ readyCh # <<>> /\ readyCh' = Tail(readyCh)
      /\ UNCHANGED <<doneCh, queue, children>>
      /\ IF NotStarted(h)
         THEN status' = [status EXCEPT ![h] = "Running"] /\ gpc' = [gpc EXCEPT ![h] = "prepare"]
         ELSE UNCHANGED <<status, gpc>>
  BY SMTT(30) DEF ReceiveReady, MayLaunch, NotStarted, walkVars
<1> HIDE DEF h
<1>2. n # h /\ NotStarted(n)
  BY <1>1 DEF NotStarted
<1>3. In(n, readyCh) => In(n, readyCh)'
  <2>1. In(n, readyCh) => In(n, Tail(readyCh))
    BY <1>1, <1>2, InFacts DEF h
  <2> QED
    BY <1>1, <2>1 DEF In
<1>4. ASSUME NEW d \in Node, Stirring(d) PROVE Stirring(d)'
  <2>1. CASE d = h /\ NotStarted(h)
    BY <1>1, <2>1 DEF Stirring, Active
  <2>2. CASE ~(d = h /\ NotStarted(h))
    BY <1>1, <1>4, <2>2 DEF Stirring, Unsettled, Panicked, Active, In
  <2> QED
    BY <2>1, <2>2
<1>5. Behind(n) => Behind(n)'
  BY <1>4, UpstreamType DEF Behind
<1>6. Child(n) => Child(n)'
  BY <1>1 DEF Child
<1> QED
  BY <1>2, <1>3, <1>5, <1>6 DEF Kept

\* The completion that the loop takes from doneCh is the next node of the walk.
LEMMA DoneKeeps ==
  ASSUME TypeOK, WalkInv, ReceiveDone, ~canceled, NEW n \in Node, Kept(n), NotStarted(n)'
  PROVE  Kept(n)' /\ NotStarted(n)
<1> USE DEF TypeOK, NodeTypeOK, ChanTypeOK
<1> DEFINE h == Head(doneCh)
<1>1. /\ h \in Node /\ doneCh # <<>> /\ doneCh' = Tail(doneCh) /\ queue' = <<h>>
      /\ queue = <<>> /\ UNCHANGED <<status, gpc, readyCh, children>>
  BY DEF ReceiveDone, WalkInv, nodeVars
<1> HIDE DEF h
<1>2. ASSUME NEW d \in Node, Stirring(d) PROVE Stirring(d)'
  <2>1. ~In(d, queue)
    BY <1>1 DEF In
  <2>2. In(d, doneCh) => d = h \/ In(d, Tail(doneCh))
    BY <1>1, InFacts DEF h
  <2>3. In(h, <<h>>)
    BY <1>1, InFacts
  <2> QED
    BY <1>1, <1>2, <2>1, <2>2, <2>3 DEF Stirring, Unsettled, Panicked, Active, In
<1> QED
  BY <1>1, <1>2, UpstreamType DEF Kept, Behind, Child, In, NotStarted

\* The children of the node that the walk takes from its queue are visited next.
LEMMA NextKeeps ==
  ASSUME TypeOK, VisitNext, NEW n \in Node, Kept(n), NotStarted(n)'
  PROVE  Kept(n)' /\ NotStarted(n)
<1> USE DEF TypeOK, NodeTypeOK, ChanTypeOK
<1>0. UNCHANGED <<status, gpc, readyCh, doneCh>> /\ children = {}
  BY DEF VisitNext, nodeVars
<1>1. CASE queue = <<>>
  <2>1. UNCHANGED keptVars
    BY <1>0, <1>1 DEF VisitNext, keptVars, walkVars
  <2> QED
    BY <2>1, KeptFrame
<1>2. CASE queue # <<>>
  <2> DEFINE h == Head(queue)
  <2>1. h \in Node /\ queue' = Tail(queue) /\ children' = Dependents(h)
    BY <1>2 DEF VisitNext
  <2>2. ASSUME NEW d \in Upstream(n), Stirring(d) PROVE Kept(n)'
    <3>1. d \in Node
      BY UpstreamType
    <3>2. CASE d = h
      <4>1. PICK i \in DOMAIN Order : Order[i] = n
        BY RunnerAssumption DEF RunnerAssumption
      <4>2. i \in Dependents(h)
        BY <3>2, <4>1 DEF Dependents
      <4> QED
        BY <2>1, <4>1, <4>2 DEF Kept, Child
    <3>3. CASE d # h
      <4>1. In(d, queue) => In(d, Tail(queue))
        BY <1>2, <3>1, <3>3, InFacts
      <4>2. Stirring(d)'
        BY <1>0, <2>1, <2>2, <4>1 DEF Stirring, Unsettled, Panicked, Active, In
      <4> QED
        BY <4>2 DEF Kept, Behind
    <3> QED
      BY <3>2, <3>3
  <2> QED
    BY <1>0, <2>2 DEF Kept, Behind, Child, In, NotStarted
<1> QED
  BY <1>1, <1>2

\* A visited child is queued, marked and put in the walk's queue, or left behind
\* a dependency that has not ended.
LEMMA ChildKeeps ==
  ASSUME TypeOK, PanicInv, RunningInv, ~canceled, NEW i \in DOMAIN Order, VisitChild(i),
         NEW n \in Node, Kept(n), NotStarted(n)'
  PROVE  Kept(n)' /\ NotStarted(n)
<1> USE DEF TypeOK, NodeTypeOK, ChanTypeOK
<1> DEFINE c == Order[i]
<1>0. c \in Node /\ UNCHANGED <<gpc, doneCh>> /\ children' = children \ {i}
  BY PlanType DEF VisitChild
<1>1. \/ UNCHANGED <<status, readyCh, queue>> /\ ~NotStarted(c)
      \/ UNCHANGED <<status, queue>> /\ readyCh' = Append(readyCh, c)
      \/ /\ NotStarted(c) /\ ~isReady(c) /\ UNCHANGED readyCh
         /\ status' = [status EXCEPT ![c] = UpstreamMark(c)]
         /\ queue' = IF UpstreamMark(c) = "NotStarted" THEN queue ELSE Append(queue, c)
  BY DEF VisitChild, NotStarted, PushReady, Propagate
<1> HIDE DEF c
<1>2. NotStarted(n)
  BY <1>0, <1>1 DEF NotStarted
<1>3. \A m \in Node : /\ In(m, readyCh) => In(m, readyCh')
                      /\ In(m, queue) => In(m, queue')
  <2>1. \A m \in Node : /\ In(m, readyCh) => In(m, Append(readyCh, c))
                        /\ In(m, queue) => In(m, Append(queue, c))
    BY <1>0, InFacts
  <2> QED
    BY <1>1, <2>1
<1>4. ASSUME NEW d \in Node, Stirring(d) PROVE Stirring(d)'
  <2>1. CASE status'[d] = status[d]
    BY <1>0, <1>3, <1>4, <2>1 DEF Stirring, Unsettled, Panicked, Active, In
  <2>2. CASE status'[d] # status[d]
    <3>1. d = c /\ queue' = Append(queue, c)
      BY <1>0, <1>1, <2>2 DEF NotStarted
    <3>2. In(d, queue')
      BY <1>0, <3>1, InFacts
    <3> QED
      BY <3>2 DEF Stirring, In
  <2> QED
    BY <2>1, <2>2
<1>5. CASE In(n, readyCh) \/ Behind(n)
  <2>1. In(n, readyCh) => In(n, readyCh)'
    BY <1>3 DEF In
  <2>2. Behind(n) => Behind(n)'
    BY <1>4, UpstreamType DEF Behind
  <2> QED
    BY <1>2, <1>5, <2>1, <2>2 DEF Kept
<1>6. CASE n # c /\ Child(n)
  BY <1>0, <1>2, <1>6 DEF Kept, Child, c
<1>7. CASE n = c /\ readyCh' = Append(readyCh, c)
  <2>1. In(n, readyCh')
    BY <1>0, <1>7, InFacts
  <2> QED
    BY <1>2, <2>1 DEF Kept, In
<1>8. CASE n = c /\ readyCh' # Append(readyCh, c)
  <2>1. ~isReady(n) /\ UpstreamMark(n) = "NotStarted"
    BY <1>0, <1>1, <1>2, <1>8 DEF NotStarted
  <2>2. PICK d \in Upstream(n) :
           /\ ~ShouldContinue(d)
           /\ status[d] \notin {"Failed", "Aborted", "Rejected", "Skipped"}
    BY <2>1, FirstBlocker
  <2>3. d \in Node /\ status[d] \in {"NotStarted", "Running", "Waiting", "Retrying"}
    BY <2>2, UpstreamType DEF ShouldContinue, NodeStatus
  <2>4. Stirring(d)
    <3>1. CASE status[d] = "Running"
      BY <2>3, <3>1 DEF RunningInv, PanicInv, Leaving, Stirring, Active, Panicked
    <3>2. CASE status[d] # "Running"
      BY <2>3, <3>2 DEF Stirring, Unsettled
    <3> QED
      BY <3>1, <3>2
  <2> QED
    BY <1>2, <1>4, <2>3, <2>4 DEF Kept, Behind
<1> QED
  BY <1>5, <1>6, <1>7, <1>8 DEF Kept

\* In the event loop every node that has not started stays accounted for.
LEMMA LoopInvStep ==
  ASSUME TypeOK, Unlaunched, WalkInv, PanicInv, RunningInv, ScanInv, LoopInv, [Next]_vars
  PROVE  LoopInv'
<1> DEFINE Looping == loop \in {"top", "gate", "breaks", "select", "visit"} /\ ~canceled
<1>1. CASE ScanDone
  <2>1. UNCHANGED keptVars /\ scanPos \notin DOMAIN Order /\ loop = "scan"
    BY <1>1 DEF ScanDone, keptVars, nodeVars, chanVars, walkVars
  <2>2. ASSUME NEW n \in Node, NotStarted(n) PROVE Kept(n)
    <3>1. PICK i \in DOMAIN Order : Order[i] = n
      BY RunnerAssumption DEF RunnerAssumption
    <3>2. i < scanPos
      BY <2>1, PlanType DEF TypeOK, RunTypeOK
    <3> QED
      BY <2>1, <2>2, <3>1, <3>2 DEF ScanInv, Before, Kept
  <2> QED
    BY <2>1, <2>2, KeptFrame DEF LoopInv, Kept
<1>2. CASE ReceiveReady
  <2>1. UNCHANGED canceled /\ loop = "select"
    BY <1>2 DEF ReceiveReady
  <2>2. \A n \in Node : Kept(n) /\ NotStarted(n)' => Kept(n)'
    BY <1>2, ReadyKeeps
  <2>3. \A n \in Node : NotStarted(n)' => NotStarted(n)
    BY NeverUnstarted DEF NotStarted
  <2> QED
    BY <2>1, <2>2, <2>3 DEF LoopInv, Kept
<1>3. CASE ReceiveDone
  <2>1. UNCHANGED canceled /\ loop = "select"
    BY <1>3 DEF ReceiveDone
  <2>2. ~canceled => \A n \in Node : Kept(n) /\ NotStarted(n)' => Kept(n)'
    BY <1>3, DoneKeeps
  <2>3. \A n \in Node : NotStarted(n)' => NotStarted(n)
    BY NeverUnstarted DEF NotStarted
  <2> QED
    BY <2>1, <2>2, <2>3 DEF LoopInv, Kept
<1>4. CASE VisitNext
  <2>1. UNCHANGED canceled /\ loop = "visit"
    BY <1>4 DEF VisitNext
  <2>2. \A n \in Node : Kept(n) /\ NotStarted(n)' => Kept(n)'
    BY <1>4, NextKeeps
  <2>3. \A n \in Node : NotStarted(n)' => NotStarted(n)
    BY NeverUnstarted DEF NotStarted
  <2> QED
    BY <2>1, <2>2, <2>3 DEF LoopInv, Kept
<1>5. ASSUME NEW i \in DOMAIN Order, VisitChild(i) PROVE LoopInv'
  <2>1. UNCHANGED canceled /\ loop = "visit"
    BY <1>5 DEF VisitChild
  <2>2. ~canceled => \A n \in Node : Kept(n) /\ NotStarted(n)' => Kept(n)'
    BY <1>5, ChildKeeps
  <2>3. \A n \in Node : NotStarted(n)' => NotStarted(n)
    BY NeverUnstarted DEF NotStarted
  <2> QED
    BY <2>1, <2>2, <2>3 DEF LoopInv, Kept
<1>6. ASSUME NEW m \in Node, GoroutineStep(m) PROVE LoopInv'
  <2>1. UNCHANGED <<canceled, loop, readyCh, children>>
    BY <1>6, GoroutineFrame DEF TypeOK
  <2>2. \A n \in Node : Behind(n) => Behind(n)'
    BY <1>6, GoroutineStirs, UpstreamType DEF Behind
  <2>3. \A n \in Node : NotStarted(n)' => NotStarted(n)
    BY NeverUnstarted DEF NotStarted
  <2>4. \A n \in Node : Kept(n) => Kept(n)'
    BY <2>1, <2>2 DEF Kept, Child, In
  <2> QED
    BY <2>1, <2>3, <2>4 DEF LoopInv, Kept
<1>7. CASE SignalNode
  <2>1. UNCHANGED <<canceled, loop, gpc, readyCh, doneCh, queue, children>>
    BY <1>7 DEF SignalNode, loopVars, walkVars
  <2>2. \A n \in Node : status'[n] = status[n] \/ (status[n] = "Running" /\ status'[n] = "Aborted")
    BY <1>7, PlanType DEF SignalNode, SetStatus, TypeOK, NodeTypeOK
  <2>3. \A d \in Node : Stirring(d) => Stirring(d)'
    BY <2>1, <2>2 DEF Stirring, Unsettled, Panicked, Active, In
  <2>4. \A n \in Node : Kept(n) => Kept(n)'
    BY <2>1, <2>3, UpstreamType DEF Kept, Child, In, Behind
  <2> QED
    BY <2>1, <2>2, <2>4 DEF LoopInv, Kept, NotStarted
<1>8. CASE UNCHANGED keptVars /\ (Looping' => Looping)
  BY <1>8, KeptFrame DEF LoopInv, Kept
<1>9. CASE LoopTop \/ LoopGate \/ LoopBreaks \/ ReceiveDeadline
  BY <1>8, <1>9 DEF LoopTop, LoopGate, LoopBreaks, ReceiveDeadline, keptVars, nodeVars,
       chanVars, walkVars
<1>10. CASE EvalPreconditions \/ RunInitHandler \/ ScanNode \/ SelectHandlers \/ RunHandler \/ Return
  <2>1. loop' \notin {"top", "gate", "breaks", "select", "visit"}
    BY <1>10 DEF EvalPreconditions, RunInitHandler, ScanNode, SelectHandlers, RunHandler, Return
  <2> QED
    BY <2>1 DEF LoopInv
<1>11. CASE SignalBegin \/ DeadlineExpires \/ UNCHANGED vars
  BY <1>8, <1>11 DEF SignalBegin, DeadlineExpires, vars, keptVars, nodeVars, chanVars,
       walkVars, loopVars
<1> QED
  BY <1>1, <1>2, <1>3, <1>4, <1>5, <1>6, <1>7, <1>9, <1>10, <1>11 DEF Next, LoopStep, Terminated

\* When the loop breaks, nothing is active and nothing is queued.
LEMMA BreakFacts ==
  ASSUME EndInv, LoopInv, LoopBreaks, loop' = "wait", ~canceled
  PROVE  /\ readyCh = <<>> /\ \A n \in Node : ~Active(n) /\ (NotStarted(n) => Stopped(n))
<1>1. running = 0 /\ (readyCh = <<>> \/ ~activeReady) /\ loop = "breaks"
  BY DEF LoopBreaks, Parked
<1>2. readyCh = <<>>
  BY <1>1, RunnerAssumption DEF RunnerAssumption, EndInv, ShutInv, SlotFree, TypeOK, ChanTypeOK
<1>3. Cardinality(ActiveNodes) = 0 /\ Len(doneCh) = 0
  BY <1>1, ActiveFinite DEF EndInv, SlotCount, TypeOK, ChanTypeOK
<1>4. ActiveNodes = {} /\ doneCh = <<>>
  BY <1>3, ActiveFinite, FS_EmptySet DEF EndInv, TypeOK, ChanTypeOK
<1>5. queue = <<>> /\ children = {}
  BY <1>1 DEF EndInv, WalkInv
<1>6. ASSUME NEW n \in Node, NotStarted(n) PROVE Stopped(n)
  <2>1. Behind(n)
    BY <1>1, <1>2, <1>5, <1>6 DEF LoopInv, In, Child
  <2> QED
    BY <1>4, <1>5, <2>1, UpstreamType DEF Behind, Stirring, Stopped, ActiveNodes, In
<1> QED
  BY <1>2, <1>4, <1>6 DEF ActiveNodes

\* After the loop nothing starts and nothing that stops a node goes away.
LEMMA AfterStep ==
  ASSUME EndInv, LoopInv, AfterInv, [Next]_vars
  PROVE  AfterInv'
<1> DEFINE Late == loop \in {"wait", "handlers", "returned"} /\ ~canceled
<1>0. \A n \in Node : NotStarted(n)' => NotStarted(n)
  BY NeverUnstarted DEF NotStarted, EndInv
<1>1. CASE LoopTop
  <2>1. UNCHANGED <<status, canceled>> /\ (loop' = "wait" /\ ~canceled => CheckFinished)
    BY <1>1 DEF LoopTop, nodeVars
  <2> QED
    BY <1>1, <2>1 DEF AfterInv, LoopTop, CheckFinished, Has, NotStarted
<1>2. CASE LoopBreaks
  <2>1. UNCHANGED keptVars /\ UNCHANGED canceled /\ loop' \in {"wait", "select"}
    BY <1>2 DEF LoopBreaks, keptVars, nodeVars, chanVars, walkVars
  <2> QED
    BY <1>2, <2>1, BreakFacts, KeptFrame DEF AfterInv
<1>3. ASSUME NEW m \in Node, GoroutineStep(m) PROVE AfterInv'
  <2>1. UNCHANGED <<canceled, loop>>
    BY <1>3, GoroutineFrame DEF EndInv, TypeOK
  <2>2. ASSUME Late, \A n \in Node : ~Active(n) /\ (NotStarted(n) => Stopped(n))
        PROVE  \A n \in Node : ~Active(n)' /\ (NotStarted(n)' => Stopped(n)')
    <3>1. gpc[m] = "recover"
      BY <1>3, <2>2, GoroutineFrame DEF Active, EndInv, TypeOK
    <3>2. RecoverPanic(m)
      BY <1>3, <3>1 DEF GoroutineStep, PrepareNode, EnterExecution, ExecuteOK, ExecuteDeadline,
           ExecuteError, PanicNode, WakeNode, RepeatNode, EndExecution, SettleNode,
           TeardownNode, SendDone
    <3>3. gpc' = [gpc EXCEPT ![m] = "finished"] /\ status' = [status EXCEPT ![m] = "Failed"]
      BY <3>2 DEF RecoverPanic, GoTo, SetStatus
    <3>4. \A d \in Node : Unsettled(d) \/ Panicked(d) => Unsettled(d)' \/ Panicked(d)'
      BY <3>1, <3>3 DEF Unsettled, Panicked, EndInv, TypeOK, NodeTypeOK, PanicInv
    <3>5. \A n \in Node : Stopped(n) => Stopped(n)'
      BY <3>4, UpstreamType DEF Stopped
    <3>6. \A n \in Node : ~Active(n)'
      BY <2>2, <3>3 DEF Active, EndInv, TypeOK, NodeTypeOK
    <3> QED
      BY <1>0, <2>2, <3>5, <3>6
  <2> QED
    BY <1>0, <2>1, <2>2 DEF AfterInv
<1>4. CASE SignalNode
  <2>1. UNCHANGED <<canceled, loop, gpc>>
    BY <1>4 DEF SignalNode, loopVars
  <2>2. \A n \in Node : status'[n] = status[n] \/ (status[n] = "Running" /\ status'[n] = "Aborted")
    BY <1>4, PlanType DEF SignalNode, SetStatus, EndInv, TypeOK, NodeTypeOK
  <2>3. \A d \in Node : Unsettled(d) \/ Panicked(d) => Unsettled(d)' \/ Panicked(d)'
    BY <2>1, <2>2 DEF Unsettled, Panicked
  <2>4. \A n \in Node : Stopped(n) => Stopped(n)'
    BY <2>3, UpstreamType DEF Stopped
  <2>5. \A n \in Node : Active(n)' = Active(n)
    BY <2>1 DEF Active
  <2> QED
    BY <1>0, <2>1, <2>4, <2>5 DEF AfterInv
<1>5. CASE UNCHANGED keptVars /\ (Late' => Late)
  BY <1>5, KeptFrame DEF AfterInv
<1>6. CASE SelectHandlers \/ RunHandler \/ Return \/ SignalBegin \/ DeadlineExpires \/ UNCHANGED vars
  BY <1>5, <1>6 DEF SelectHandlers, RunHandler, Return, SignalBegin, DeadlineExpires, vars,
       keptVars, nodeVars, chanVars, walkVars, loopVars
<1>7. CASE EvalPreconditions \/ RunInitHandler \/ ScanNode \/ ScanDone \/ LoopGate
           \/ ReceiveReady \/ ReceiveDone \/ ReceiveDeadline \/ VisitNext
           \/ \E i \in DOMAIN Order : VisitChild(i)
  <2>1. loop' \notin {"wait", "handlers", "returned"}
    BY <1>7 DEF EvalPreconditions, RunInitHandler, ScanNode, ScanDone, LoopGate, ReceiveReady,
         ReceiveDone, ReceiveDeadline, VisitNext, VisitChild
  <2> QED
    BY <2>1 DEF AfterInv
<1> QED
  BY <1>1, <1>2, <1>3, <1>4, <1>6, <1>7 DEF Next, LoopStep, Terminated

\* Whatever is not yet started is accounted for in every state of a run whose
\* initial scan has nothing to mark.
LEMMA ForgetInvariant ==
  ASSUME NothingToMark
  PROVE  Spec => []ForgetInv
<1>1. Init => ForgetInv
  <2> SUFFICES ASSUME Init PROVE ForgetInv
    OBVIOUS
  <2>1. MarkInv
    BY DEF Init, MarkInv, Unsettled, ShouldContinue, NothingToMark
  <2>2. ScanInv
    BY PlanType DEF Init, ScanInv
  <2> QED
    BY <2>1, <2>2 DEF Init, LoopInv, AfterInv, ForgetInv
<1>2. EndInv /\ ForgetInv /\ [Next]_vars => ForgetInv'
  BY ScanStep, LoopInvStep, AfterStep DEF EndInv, ForgetInv
<1> QED
  BY <1>1, <1>2, EndInvariant, PTL DEF Spec

\* For every plan without panics whose initial scan has nothing to mark: when
\* Run has left its loop uncanceled, a step it never started is behind one that
\* waits for approval, for its parent's retry or, in turn, for such a step.
THEOREM NoStepForgotten ==
  ASSUME NoPanics, NothingToMark
  PROVE  Spec => []NothingForgotten
<1>1. ForgetInv => NothingForgotten
  <2> SUFFICES ASSUME ForgetInv, loop \in {"handlers", "returned"}, ~canceled,
                      NEW n \in Node, NotStarted(n)
               PROVE  \E d \in Upstream(n) : Unsettled(d)
    BY DEF NothingForgotten, NotStarted, Unsettled
  <2>1. Stopped(n)
    BY DEF ForgetInv, AfterInv
  <2> QED
    BY <2>1, UpstreamType DEF Stopped, Panicked, NoPanics
<1> QED
  BY <1>1, ForgetInvariant, PTL

\* Without signals only the preconditions and the onInit handler cancel a run,
\* before anything is launched, and the loop is left at its first test.
QuietInv ==
  /\ sigLeft = 0 /\ sigPos = 0
  /\ canceled => running = 0 /\ loop \notin {"gate", "breaks", "select", "visit"}

\* Every step of a run that is not signalled keeps QuietInv.
LEMMA QuietStep ==
  ASSUME TypeOK, IdleInv, QuietInv, [Next]_vars
  PROVE  QuietInv'
<1> USE DEF TypeOK, RunTypeOK, ChanTypeOK, QuietInv
<1>1. CASE EvalPreconditions \/ RunInitHandler
  BY <1>1 DEF EvalPreconditions, RunInitHandler, IdleInv, Before, sigVars, chanVars
<1>2. CASE ScanNode \/ ScanDone \/ LoopTop \/ LoopGate
  BY <1>2 DEF ScanNode, ScanDone, LoopTop, LoopGate, sigVars, chanVars
<1>3. CASE LoopBreaks \/ ReceiveReady \/ ReceiveDone \/ ReceiveDeadline
  BY <1>3 DEF LoopBreaks, ReceiveReady, ReceiveDone, ReceiveDeadline, sigVars, chanVars
<1>4. CASE VisitNext \/ \E i \in DOMAIN Order : VisitChild(i)
  BY <1>4 DEF VisitNext, VisitChild, sigVars
<1>5. CASE SelectHandlers \/ RunHandler \/ Return
  BY <1>5 DEF SelectHandlers, RunHandler, Return, sigVars, chanVars
<1>6. ASSUME NEW n \in Node, GoroutineStep(n) PROVE QuietInv'
  BY <1>6, GoroutineFrame
<1>7. CASE SignalBegin \/ SignalNode
  BY <1>7, PlanType DEF SignalBegin, SignalNode
<1>8. CASE DeadlineExpires \/ UNCHANGED vars
  BY <1>8 DEF DeadlineExpires, vars, sigVars, chanVars, loopVars
<1> QED
  BY <1>1, <1>2, <1>3, <1>4, <1>5, <1>6, <1>7, <1>8 DEF Next, LoopStep, Terminated

\* In a plan without cycles, if some step has not started, one of those that
\* have not depends on none of the others.
LEMMA FirstNotStarted ==
  ASSUME Acyclic, NEW n \in Node, NotStarted(n)
  PROVE  \E m \in Node : NotStarted(m) /\ \A d \in Upstream(m) : ~NotStarted(d)
<1>1. PICK rank \in [Node -> Nat] : \A m \in Node : \A d \in Upstream(m) : rank[d] < rank[m]
  BY DEF Acyclic
<1> DEFINE T == {rank[m] : m \in {k \in Node : NotStarted(k)}}
<1>2. T \in SUBSET Nat /\ T # {}
  BY <1>1
<1>3. PICK x \in T : \A y \in T : x <= y
  BY <1>2, LeastNat
<1>4. PICK m \in Node : NotStarted(m) /\ rank[m] = x
  BY <1>3
<1>5. ASSUME NEW d \in Upstream(m), NotStarted(d) PROVE FALSE
  <2>1. d \in Node /\ rank[d] \in T /\ rank[d] < rank[m]
    BY <1>1, <1>5, UpstreamType
  <2>2. rank[m] <= rank[d]
    BY <1>3, <1>4, <2>1
  <2> QED
    BY <1>1, <2>1, <2>2
<1> QED
  BY <1>4, <1>5

\* For every plan without cycles that is not signalled and whose initial scan
\* has nothing to mark: the loop reports a deadlock only if a step has panicked.
THEOREM DeadlockMeansPanic ==
  ASSUME Acyclic, NothingToMark, MaxSignals = 0
  PROVE  Spec => DeadlockOnlyByPanic
<1> DEFINE Blamed == \E n \in Node :
             /\ "panic" \in Outcomes[n]
             /\ gpc[n] = "recover" \/ (gpc[n] = "finished" /\ status[n] = "Failed")
           Inv == EndInv /\ ForgetInv /\ QuietInv
<1>1. Init => QuietInv
  BY DEF Init, QuietInv
<1>2. EndInv /\ QuietInv /\ [Next]_vars => QuietInv'
  BY QuietStep DEF EndInv
<1>3. Inv /\ [Next]_vars => [lastError # "deadlock" /\ lastError' = "deadlock" => Blamed]_vars
  <2> SUFFICES ASSUME Inv, [Next]_vars, lastError # "deadlock", lastError' = "deadlock"
               PROVE  Blamed
    OBVIOUS
  <2>0. "deadlock" \notin Node
    BY RunnerAssumption DEF RunnerAssumption
  <2>1. ~\E n \in Node : GoroutineStep(n)
    BY <2>0 DEF GoroutineStep, PrepareNode, EnterExecution, ExecuteOK, ExecuteDeadline,
         ExecuteError, RetryOrFail, PanicNode, WakeNode, RepeatNode, EndExecution, SettleNode,
         TeardownNode, SendDone, RecoverPanic
  <2>2. LoopBreaks
    BY <2>1 DEF Next, LoopStep, EvalPreconditions, RunInitHandler, ScanNode, ScanDone, LoopTop,
         LoopGate, ReceiveReady, ReceiveDone, ReceiveDeadline, VisitNext, VisitChild,
         SelectHandlers, RunHandler, Return, SignalBegin, SignalNode, DeadlineExpires,
         Terminated, vars
  <2>3. loop' = "wait" /\ running = 0 /\ ~Parked /\ ~CheckFinished /\ ~canceled
    BY <2>2 DEF LoopBreaks, QuietInv
  <2>4. readyCh = <<>> /\ \A n \in Node : ~Active(n) /\ (NotStarted(n) => Stopped(n))
    BY <2>2, <2>3, BreakFacts DEF ForgetInv
  <2>5. ~Has("Waiting") /\ ~Has("Retrying")
    BY <2>3, <2>4 DEF Parked
  <2>6. CASE Has("Running")
    <3>1. PICK n \in Node : status[n] = "Running"
      BY <2>6 DEF Has
    <3>2. gpc[n] = "recover"
      BY <2>3, <2>4, <3>1 DEF EndInv, RunningInv, Leaving, Active
    <3> QED
      BY <3>2 DEF EndInv, PanicInv
  <2>7. CASE Has("NotStarted")
    <3>1. PICK m \in Node : NotStarted(m) /\ \A d \in Upstream(m) : ~NotStarted(d)
      BY <2>7, FirstNotStarted DEF Has, NotStarted
    <3>2. PICK d \in Upstream(m) : Unsettled(d) \/ Panicked(d)
      BY <2>4, <3>1 DEF Stopped
    <3>3. d \in Node /\ ~Unsettled(d)
      BY <2>5, <3>1, UpstreamType DEF Unsettled, Has, NotStarted
    <3> QED
      BY <3>2, <3>3 DEF Panicked
  <2> QED
    BY <2>3, <2>5, <2>6, <2>7 DEF CheckFinished
<1> QED
  BY <1>1, <1>2, <1>3, EndInvariant, ForgetInvariant, PTL DEF Spec, DeadlockOnlyByPanic

=============================================================================
