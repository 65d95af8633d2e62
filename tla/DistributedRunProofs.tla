------------------------ MODULE DistributedRunProofs ------------------------
(***************************************************************************)
(* Proofs about DistributedRun for any number of attempts and any budget.  *)
(***************************************************************************)
EXTENDS DistributedRun, TLAPS

\* A worker goes through these in this order: its task is not taken yet, it
\* executes the attempt and keeps in touch, it is on its way out.
Unbegun == {"none", "offered"}
Live    == {"acked", "starting", "running"}
Leaving == {"stopping", "severed", "ended", "gone"}

\* Attempts that have not been made have neither a worker nor a status.
FutureInv ==
  \A a \in Attempt : a > latest => worker[a] = "none" /\ persisted[a] = "none"

\* Reports come from workers that have begun, results from workers that have
\* ended.
Reports(a, s) ==
  /\ worker[a] \notin Unbegun \cup {"acked"}
  /\ s # "Running" => worker[a] \in {"ended", "gone"}

SentInv == \A m \in sent : Reports(m[1], m[2])

\* A report that is being handled was accepted: it is of the latest attempt,
\* and only the detector's verdict may have come in between.
HandlerInv ==
  handler.pc # "idle" =>
    /\ handler.attempt \in Attempt
    /\ handler.attempt = latest /\ handler.target = latest
    /\ Reports(handler.attempt, handler.status)
    /\ handler.pc = "write" =>
         persisted[latest] \notin Terminal \ {handler.status, "Failed"}
    /\ handler.pc # "write" /\ handler.status = "Running" /\ worker[latest] \in Live =>
         persisted[latest] = "Running"

\* The lease of the latest attempt is fresh as long as its worker keeps in
\* touch, and one that has gone stale is a leaving worker's.
LeaseInv ==
  \A a \in Attempt :
    /\ lease[a] # "none" => worker[a] \notin Unbegun
    /\ lease[a] = "stale" => worker[a] \in Leaving
    /\ a = latest /\ worker[a] \in Live => lease[a] = "fresh"

\* What the detector reads stays true enough until it acts on it: an attempt
\* it goes through has a worker, and if that one keeps in touch the attempt
\* is still running; one it is about to fail or to untrack is superseded or
\* its worker is leaving.
Tracked(a) ==
  /\ worker[a] \notin Unbegun
  /\ a = latest /\ worker[a] \in Live => persisted[a] = "Running"

Doomed(a) ==
  /\ a \in Attempt
  /\ worker[a] \notin Unbegun
  /\ a < latest \/ worker[a] \in Leaving

DetectorInv ==
  /\ \A a \in index : Tracked(a)
  /\ detector.stage # "leases" => \A a \in detector.todo : Tracked(a)
  /\ detector.stage = "leases" => \A a \in detector.todo : worker[a] \in Leaving
  /\ detector.step # "next" => Doomed(detector.item)

IInv ==
  /\ TypeOK /\ FutureInv /\ SentInv /\ HandlerInv
  /\ LeaseInv /\ DetectorInv /\ NoForeignResult


\* A fault is paid from the budget.
LEMMA FaultType ==
  ASSUME budget \in Budget, Fault
  PROVE  budget' \in Budget
BY DEF Budget, Fault

\* What a budget bounds.
LEMMA BudgetType ==
  ASSUME budget \in Budget
  PROVE  /\ budget.attempts \in 0 .. MaxAttempts
         /\ budget.finals \subseteq Terminal \cup {"Waiting"}
BY DEF Budget

\* A handler and a detector that have just been reset are of their types.
LEMMA ResetType ==
  /\ 0 \in 0 .. MaxAttempts
  /\ NoReport \in [pc : {"idle"}, attempt : 0 .. MaxAttempts,
                   target : 0 .. MaxAttempts, status : RunStatus]
  /\ NewDetector \in [stage : {"start"}, step : {"next"}, todo : SUBSET Attempt,
                      item : 0 .. MaxAttempts]
<1>1. 0 \in 0 .. MaxAttempts
  BY DistributedRunAssumption DEF DistributedRunAssumption
<1> QED
  BY <1>1 DEF NoReport, NewDetector, RunStatus

\* The states of a worker.
WorkerState == {"none", "offered", "acked", "starting", "running",
                "stopping", "severed", "ended", "gone"}

\* An answer leaves the workers' states in their type.
LEMMA AnsweredType ==
  ASSUME worker \in [Attempt -> WorkerState], NEW a, NEW s, NEW r \in BOOLEAN
  PROVE  Answered(a, s, r) \in [Attempt -> WorkerState]
BY DEF Answered, WorkerState

\* Every step keeps the types.
LEMMA TypeStep ==
  ASSUME TypeOK, HandlerInv, [Next]_vars
  PROVE  TypeOK'
<1> USE DistributedRunAssumption DEF DistributedRunAssumption, TypeOK, Attempt, NoReport, NewDetector, RunStatus, Terminal
<1> DEFINE DetectorState ==
             [stage : {"start", "backfill", "leases", "index", "orphans"},
                      step : {"next", "swap", "untrack", "unindex"},
                      todo : SUBSET Attempt, item : 0 .. MaxAttempts]
<1>1. CASE Enqueue
  BY <1>1, BudgetType DEF Enqueue
<1>2. CASE DispatchQueued
  BY <1>2 DEF DispatchQueued
<1>3. CASE DispatchNew
  <2>1. latest' \in 0 .. MaxAttempts
    BY <1>3, BudgetType DEF DispatchNew
  <2>2. budget' \in Budget
    BY <1>3, FaultType DEF DispatchNew
  <2>3. /\ persisted' \in [Attempt -> RunStatus]
        /\ worker' \in [Attempt -> WorkerState]
    BY ZenonT(60), <1>3 DEF DispatchNew, WorkerState
  <2> QED
    BY <1>3, <2>1, <2>2, <2>3 DEF DispatchNew, WorkerState
<1>4. CASE DispatchDies
  BY <1>4, FaultType, BudgetType DEF DispatchDies
<1>5. CASE RequestCancel
  BY <1>5 DEF RequestCancel
<1>6. CASE Restart
  <2>1. worker' \in [Attempt -> WorkerState] /\ budget' \in Budget
    BY <1>6, FaultType, AnsweredType DEF Restart, WorkerState
  <2>2. handler' = NoReport /\ detector' = NewDetector
    BY <1>6 DEF Restart
  <2> HIDE DEF NoReport, NewDetector
  <2> QED
    BY ZenonT(60), <1>6, <2>1, <2>2, ResetType DEF Restart, WorkerState
<1>7. ASSUME NEW a \in Attempt, AckTaskClaim(a) PROVE TypeOK'
  BY <1>7, FaultType, BudgetType DEF AckTaskClaim
<1>8. ASSUME NEW a \in Attempt, Preflight(a) PROVE TypeOK'
  BY SMTT(30), <1>8, FaultType, BudgetType DEF Preflight, Touched, Cancelled
<1>9. ASSUME NEW a \in Attempt, RunHeartbeat(a) PROVE TypeOK'
  BY <1>9 DEF RunHeartbeat, Touched, Alive
<1>10. ASSUME NEW a \in Attempt, OwnerTimeout(a) PROVE TypeOK'
  BY <1>10, FaultType, BudgetType DEF OwnerTimeout
<1>11. ASSUME NEW a \in Attempt, PushProgress(a) PROVE TypeOK'
  BY <1>11 DEF PushProgress
<1>12. ASSUME NEW a \in Attempt, PushFinal(a) PROVE TypeOK'
  BY <1>12, BudgetType DEF PushFinal
<1>13. ASSUME NEW a \in Attempt, WorkerDies(a) PROVE TypeOK'
  BY <1>13, FaultType, BudgetType DEF WorkerDies, Alive
<1>14. ASSUME NEW a \in Attempt, LeaseExpires(a) PROVE TypeOK'
  BY <1>14 DEF LeaseExpires, Reporting
<1>15. ASSUME NEW m \in sent, PushFails(m[1], m[2]) PROVE TypeOK'
  BY ZenonT(60), <1>15, FaultType, AnsweredType DEF PushFails, WorkerState
<1>16. ASSUME NEW m \in sent, ReceiveReport(m[1], m[2]) PROVE TypeOK'
  <2>1. m[1] \in Attempt /\ m[2] \in RunStatus
    OBVIOUS
  <2>2. CASE StatusAccepted(m[1], m[2])
    BY <1>16, <2>1, <2>2 DEF ReceiveReport
  <2>3. CASE ~StatusAccepted(m[1], m[2])
    <3>1. Answered(m[1], m[2], FALSE) \in [Attempt -> WorkerState]
      BY AnsweredType DEF WorkerState
    <3>2. worker' \in [Attempt -> WorkerState]
      BY <1>16, <2>3, <3>1 DEF ReceiveReport
    <3> QED
      BY ZenonT(60), <1>16, <2>3, <3>2 DEF ReceiveReport, WorkerState
  <2> QED
    BY <2>2, <2>3
<1>17. CASE WriteStatus
  BY <1>17 DEF WriteStatus
<1>18. CASE SyncLease
  BY <1>18 DEF SyncLease
<1>19. CASE SyncIndex
  <2>1. worker' \in [Attempt -> WorkerState]
    BY <1>19, AnsweredType DEF SyncIndex, WorkerState
  <2>2. index' \subseteq Attempt
    BY <1>19 DEF SyncIndex, HandlerInv
  <2> HIDE DEF NoReport
  <2> QED
    BY <1>19, <2>1, <2>2, ResetType DEF SyncIndex, WorkerState
<1>20. CASE NextStage
  <2>1. Listed(StageAfter[detector.stage]) \in SUBSET Attempt
    BY DEF Listed, RemoteRunning
  <2>2. StageAfter[detector.stage] \in {"backfill", "leases", "index", "orphans"}
    BY DEF StageAfter
  <2>3. detector' = [stage |-> StageAfter[detector.stage], step |-> "next",
                     todo |-> Listed(StageAfter[detector.stage]), item |-> 0]
    BY <1>20 DEF NextStage
  <2>4. detector' \in DetectorState
    BY <2>1, <2>2, <2>3
  <2> QED
    BY <1>20, <2>4 DEF NextStage
<1>21. ASSUME NEW a \in detector.todo, Examine(a) PROVE TypeOK'
  <2>1. a \in Attempt /\ detector.todo \ {a} \in SUBSET Attempt
    OBVIOUS
  <2>2. detector' \in DetectorState
    <3> DEFINE i == detector'.item
               t == detector'.step
    <3>1. detector' = [detector EXCEPT !.todo = detector.todo \ {a}, !.item = i, !.step = t]
      BY <1>21 DEF Examine
    <3>2. i \in 0 .. MaxAttempts /\ t \in {"next", "swap", "untrack"}
      BY <1>21, <2>1 DEF Examine
    <3> HIDE DEF i, t
    <3> QED
      BY <2>1, <3>1, <3>2
  <2>3. index' \subseteq Attempt
    BY <1>21, <2>1 DEF Examine
  <2> QED
    BY <1>21, <2>2, <2>3 DEF Examine
<1>22. CASE SwapFailed
  <2>1. detector' \in DetectorState
    <3>1. CASE detector' = [detector EXCEPT !.step = "untrack"]
      BY <3>1
    <3>2. CASE detector' = [detector EXCEPT !.step = "next", !.item = 0]
      BY <3>2, ResetType
    <3> QED
      BY <1>22, <3>1, <3>2 DEF SwapFailed
  <2>2. persisted' \in [Attempt -> RunStatus]
    BY <1>22 DEF SwapFailed
  <2> QED
    BY <1>22, <2>1, <2>2 DEF SwapFailed
<1>23. CASE DeleteLease
  BY <1>23 DEF DeleteLease
<1>24. CASE DeleteIndex
  <2>1. detector' \in DetectorState
    <3>1. detector' = [detector EXCEPT !.step = "next", !.item = 0]
      BY <1>24 DEF DeleteIndex
    <3> QED
      BY <3>1, ResetType
  <2> QED
    BY <1>24, <2>1 DEF DeleteIndex, Unindexed
<1>25. CASE UNCHANGED vars
  BY <1>25 DEF vars
<1> QED
  BY <1>1, <1>2, <1>3, <1>4, <1>5, <1>6, <1>7, <1>8, <1>9, <1>10, <1>11, <1>12, <1>13, <1>14, <1>15, <1>16, <1>17, <1>18, <1>19, <1>20, <1>21, <1>22, <1>23, <1>24, <1>25
     DEF Next, WorkerStep, HandlerStep, DetectorStep

\* No step touches an attempt that is not made yet.
LEMMA FutureStep ==
  ASSUME TypeOK, FutureInv, SentInv, HandlerInv, DetectorInv, [Next]_vars
  PROVE  FutureInv'
<1> USE DistributedRunAssumption DEF DistributedRunAssumption, TypeOK, Attempt, Unbegun, Live, Leaving, FutureInv, SentInv, Reports, HandlerInv, Budget
<1>1. CASE Enqueue
  BY <1>1 DEF Enqueue
<1>2. CASE DispatchQueued
  BY <1>2 DEF DispatchQueued
<1>3. CASE DispatchNew
  BY <1>3 DEF DispatchNew, Fault
<1>4. CASE DispatchDies
  BY <1>4 DEF DispatchDies, Fault
<1>5. CASE RequestCancel
  BY <1>5 DEF RequestCancel
<1>6. CASE Restart
  BY <1>6 DEF Restart, Fault, Answered
<1>7. ASSUME NEW a \in Attempt, AckTaskClaim(a) PROVE FutureInv'
  BY <1>7 DEF AckTaskClaim, Fault
<1>8. ASSUME NEW a \in Attempt, Preflight(a) PROVE FutureInv'
  BY <1>8 DEF Preflight, Fault, Touched, Cancelled
<1>9. ASSUME NEW a \in Attempt, RunHeartbeat(a) PROVE FutureInv'
  BY <1>9 DEF RunHeartbeat, Touched, Alive
<1>10. ASSUME NEW a \in Attempt, OwnerTimeout(a) PROVE FutureInv'
  BY <1>10 DEF OwnerTimeout, Fault
<1>11. ASSUME NEW a \in Attempt, PushProgress(a) PROVE FutureInv'
  BY <1>11 DEF PushProgress
<1>12. ASSUME NEW a \in Attempt, PushFinal(a) PROVE FutureInv'
  BY <1>12 DEF PushFinal
<1>13. ASSUME NEW a \in Attempt, WorkerDies(a) PROVE FutureInv'
  BY <1>13 DEF WorkerDies, Fault, Alive
<1>14. ASSUME NEW a \in Attempt, LeaseExpires(a) PROVE FutureInv'
  BY <1>14 DEF LeaseExpires, Reporting
<1>15. ASSUME NEW m \in sent, PushFails(m[1], m[2]) PROVE FutureInv'
  BY <1>15 DEF PushFails, Fault, Answered
<1>16. ASSUME NEW m \in sent, ReceiveReport(m[1], m[2]) PROVE FutureInv'
  BY <1>16 DEF ReceiveReport, Answered, StatusAccepted
<1>17. CASE WriteStatus
  BY <1>17 DEF WriteStatus
<1>18. CASE SyncLease
  BY <1>18 DEF SyncLease
<1>19. CASE SyncIndex
  BY <1>19 DEF SyncIndex, Answered
<1>20. CASE NextStage
  BY <1>20 DEF NextStage, StageAfter, Listed, RemoteRunning
<1>21. ASSUME NEW a \in detector.todo, Examine(a) PROVE FutureInv'
  BY <1>21 DEF Examine, RemoteRunning
<1>22. CASE SwapFailed
  BY <1>22 DEF SwapFailed, Failing
<1>23. CASE DeleteLease
  BY <1>23 DEF DeleteLease
<1>24. CASE DeleteIndex
  BY <1>24 DEF DeleteIndex, Unindexed
<1>25. CASE UNCHANGED vars
  BY <1>25 DEF vars
<1> QED
  BY <1>1, <1>2, <1>3, <1>4, <1>5, <1>6, <1>7, <1>8, <1>9, <1>10, <1>11, <1>12, <1>13, <1>14, <1>15, <1>16, <1>17, <1>18, <1>19, <1>20, <1>21, <1>22, <1>23, <1>24, <1>25
     DEF Next, WorkerStep, HandlerStep, DetectorStep

\* Every report that is sent is of a worker that has begun.
LEMMA SentStep ==
  ASSUME TypeOK, FutureInv, SentInv, HandlerInv, [Next]_vars
  PROVE  SentInv'
<1> USE DistributedRunAssumption DEF DistributedRunAssumption, TypeOK, Attempt, Unbegun, Live, Leaving, FutureInv, SentInv, Reports, HandlerInv
<1>1. CASE Enqueue
  BY <1>1 DEF Enqueue
<1>2. CASE DispatchQueued
  BY <1>2 DEF DispatchQueued
<1>3. CASE DispatchNew
  BY <1>3 DEF DispatchNew, Fault
<1>4. CASE DispatchDies
  BY <1>4 DEF DispatchDies, Fault
<1>5. CASE RequestCancel
  BY <1>5 DEF RequestCancel
<1>6. CASE Restart
  BY <1>6 DEF Restart, Fault, Answered
<1>7. ASSUME NEW a \in Attempt, AckTaskClaim(a) PROVE SentInv'
  BY <1>7 DEF AckTaskClaim, Fault
<1>8. ASSUME NEW a \in Attempt, Preflight(a) PROVE SentInv'
  BY <1>8 DEF Preflight, Fault, Touched, Cancelled
<1>9. ASSUME NEW a \in Attempt, RunHeartbeat(a) PROVE SentInv'
  BY <1>9 DEF RunHeartbeat, Touched, Alive
<1>10. ASSUME NEW a \in Attempt, OwnerTimeout(a) PROVE SentInv'
  BY <1>10 DEF OwnerTimeout, Fault
<1>11. ASSUME NEW a \in Attempt, PushProgress(a) PROVE SentInv'
  BY <1>11 DEF PushProgress
<1>12. ASSUME NEW a \in Attempt, PushFinal(a) PROVE SentInv'
  BY <1>12 DEF PushFinal
<1>13. ASSUME NEW a \in Attempt, WorkerDies(a) PROVE SentInv'
  BY <1>13 DEF WorkerDies, Fault, Alive
<1>14. ASSUME NEW a \in Attempt, LeaseExpires(a) PROVE SentInv'
  BY <1>14 DEF LeaseExpires, Reporting
<1>15. ASSUME NEW m \in sent, PushFails(m[1], m[2]) PROVE SentInv'
  BY <1>15 DEF PushFails, Fault, Answered
<1>16. ASSUME NEW m \in sent, ReceiveReport(m[1], m[2]) PROVE SentInv'
  BY <1>16 DEF ReceiveReport, Answered, StatusAccepted
<1>17. CASE WriteStatus
  BY <1>17 DEF WriteStatus
<1>18. CASE SyncLease
  BY <1>18 DEF SyncLease
<1>19. CASE SyncIndex
  BY <1>19 DEF SyncIndex, Answered
<1>20. CASE NextStage
  BY <1>20 DEF NextStage, StageAfter, Listed, RemoteRunning
<1>21. ASSUME NEW a \in detector.todo, Examine(a) PROVE SentInv'
  BY <1>21 DEF Examine, RemoteRunning
<1>22. CASE SwapFailed
  BY <1>22 DEF SwapFailed, Failing
<1>23. CASE DeleteLease
  BY <1>23 DEF DeleteLease
<1>24. CASE DeleteIndex
  BY <1>24 DEF DeleteIndex, Unindexed
<1>25. CASE UNCHANGED vars
  BY <1>25 DEF vars
<1> QED
  BY <1>1, <1>2, <1>3, <1>4, <1>5, <1>6, <1>7, <1>8, <1>9, <1>10, <1>11, <1>12, <1>13, <1>14, <1>15, <1>16, <1>17, <1>18, <1>19, <1>20, <1>21, <1>22, <1>23, <1>24, <1>25
     DEF Next, WorkerStep, HandlerStep, DetectorStep

\* The report being handled stays an accepted one.
LEMMA HandlerStepInv ==
  ASSUME TypeOK, FutureInv, SentInv, HandlerInv, LeaseInv, DetectorInv, NoForeignResult, [Next]_vars
  PROVE  HandlerInv'
<1> USE DistributedRunAssumption DEF DistributedRunAssumption, TypeOK, Attempt, Unbegun, Live, Leaving, FutureInv, SentInv, Reports, HandlerInv, NoReport
<1>1. CASE Enqueue
  BY <1>1 DEF Enqueue
<1>2. CASE DispatchQueued
  BY <1>2 DEF DispatchQueued
<1>3. CASE DispatchNew
  BY <1>3 DEF DispatchNew, Fault
<1>4. CASE DispatchDies
  BY <1>4 DEF DispatchDies, Fault
<1>5. CASE RequestCancel
  BY <1>5 DEF RequestCancel
<1>6. CASE Restart
  BY <1>6 DEF Restart, Fault, Answered
<1>7. ASSUME NEW a \in Attempt, AckTaskClaim(a) PROVE HandlerInv'
  BY <1>7 DEF AckTaskClaim, Fault
<1>8. ASSUME NEW a \in Attempt, Preflight(a) PROVE HandlerInv'
  BY <1>8 DEF Preflight, Fault, Touched, Cancelled
<1>9. ASSUME NEW a \in Attempt, RunHeartbeat(a) PROVE HandlerInv'
  BY <1>9 DEF RunHeartbeat, Touched, Alive
<1>10. ASSUME NEW a \in Attempt, OwnerTimeout(a) PROVE HandlerInv'
  BY <1>10 DEF OwnerTimeout, Fault
<1>11. ASSUME NEW a \in Attempt, PushProgress(a) PROVE HandlerInv'
  BY <1>11 DEF PushProgress
<1>12. ASSUME NEW a \in Attempt, PushFinal(a) PROVE HandlerInv'
  BY <1>12 DEF PushFinal
<1>13. ASSUME NEW a \in Attempt, WorkerDies(a) PROVE HandlerInv'
  BY <1>13 DEF WorkerDies, Fault, Alive
<1>14. ASSUME NEW a \in Attempt, LeaseExpires(a) PROVE HandlerInv'
  BY <1>14 DEF LeaseExpires, Reporting
<1>15. ASSUME NEW m \in sent, PushFails(m[1], m[2]) PROVE HandlerInv'
  BY <1>15 DEF PushFails, Fault, Answered
<1>16. ASSUME NEW m \in sent, ReceiveReport(m[1], m[2]) PROVE HandlerInv'
  BY <1>16 DEF ReceiveReport, Answered, StatusAccepted
<1>17. CASE WriteStatus
  BY <1>17 DEF WriteStatus
<1>18. CASE SyncLease
  BY <1>18 DEF SyncLease
<1>19. CASE SyncIndex
  BY <1>19 DEF SyncIndex, Answered
<1>20. CASE NextStage
  BY <1>20 DEF NextStage, StageAfter, Listed, RemoteRunning
<1>21. ASSUME NEW a \in detector.todo, Examine(a) PROVE HandlerInv'
  BY <1>21 DEF Examine, RemoteRunning
<1>22. CASE SwapFailed
  BY <1>22 DEF SwapFailed, Failing, DetectorInv, Doomed
<1>23. CASE DeleteLease
  BY <1>23 DEF DeleteLease
<1>24. CASE DeleteIndex
  BY <1>24 DEF DeleteIndex, Unindexed
<1>25. CASE UNCHANGED vars
  BY <1>25 DEF vars
<1> QED
  BY <1>1, <1>2, <1>3, <1>4, <1>5, <1>6, <1>7, <1>8, <1>9, <1>10, <1>11, <1>12, <1>13, <1>14, <1>15, <1>16, <1>17, <1>18, <1>19, <1>20, <1>21, <1>22, <1>23, <1>24, <1>25
     DEF Next, WorkerStep, HandlerStep, DetectorStep

\* A worker in touch keeps its lease.
LEMMA LeaseStep ==
  ASSUME TypeOK, FutureInv, SentInv, HandlerInv, LeaseInv, DetectorInv, [Next]_vars
  PROVE  LeaseInv'
<1> USE DistributedRunAssumption DEF DistributedRunAssumption, TypeOK, Attempt, Unbegun, Live, Leaving, FutureInv, SentInv, Reports, HandlerInv, LeaseInv
<1>1. CASE Enqueue
  BY <1>1 DEF Enqueue
<1>2. CASE DispatchQueued
  BY <1>2 DEF DispatchQueued
<1>3. CASE DispatchNew
  BY <1>3 DEF DispatchNew, Fault
<1>4. CASE DispatchDies
  BY <1>4 DEF DispatchDies, Fault
<1>5. CASE RequestCancel
  BY <1>5 DEF RequestCancel
<1>6. CASE Restart
  BY <1>6 DEF Restart, Fault, Answered
<1>7. ASSUME NEW a \in Attempt, AckTaskClaim(a) PROVE LeaseInv'
  BY <1>7 DEF AckTaskClaim, Fault
<1>8. ASSUME NEW a \in Attempt, Preflight(a) PROVE LeaseInv'
  BY <1>8 DEF Preflight, Fault, Touched, Cancelled
<1>9. ASSUME NEW a \in Attempt, RunHeartbeat(a) PROVE LeaseInv'
  BY <1>9 DEF RunHeartbeat, Touched, Alive
<1>10. ASSUME NEW a \in Attempt, OwnerTimeout(a) PROVE LeaseInv'
  BY <1>10 DEF OwnerTimeout, Fault
<1>11. ASSUME NEW a \in Attempt, PushProgress(a) PROVE LeaseInv'
  BY <1>11 DEF PushProgress
<1>12. ASSUME NEW a \in Attempt, PushFinal(a) PROVE LeaseInv'
  BY <1>12 DEF PushFinal
<1>13. ASSUME NEW a \in Attempt, WorkerDies(a) PROVE LeaseInv'
  BY <1>13 DEF WorkerDies, Fault, Alive
<1>14. ASSUME NEW a \in Attempt, LeaseExpires(a) PROVE LeaseInv'
  BY <1>14 DEF LeaseExpires, Reporting
<1>15. ASSUME NEW m \in sent, PushFails(m[1], m[2]) PROVE LeaseInv'
  BY <1>15 DEF PushFails, Fault, Answered
<1>16. ASSUME NEW m \in sent, ReceiveReport(m[1], m[2]) PROVE LeaseInv'
  BY <1>16 DEF ReceiveReport, Answered, StatusAccepted
<1>17. CASE WriteStatus
  BY <1>17 DEF WriteStatus
<1>18. CASE SyncLease
  BY <1>18 DEF SyncLease
<1>19. CASE SyncIndex
  BY <1>19 DEF SyncIndex, Answered
<1>20. CASE NextStage
  BY <1>20 DEF NextStage, StageAfter, Listed, RemoteRunning
<1>21. ASSUME NEW a \in detector.todo, Examine(a) PROVE LeaseInv'
  BY <1>21 DEF Examine, RemoteRunning
<1>22. CASE SwapFailed
  BY <1>22 DEF SwapFailed, Failing
<1>23. CASE DeleteLease
  BY <1>23 DEF DeleteLease, DetectorInv, Doomed
<1>24. CASE DeleteIndex
  BY <1>24 DEF DeleteIndex, Unindexed
<1>25. CASE UNCHANGED vars
  BY <1>25 DEF vars
<1> QED
  BY <1>1, <1>2, <1>3, <1>4, <1>5, <1>6, <1>7, <1>8, <1>9, <1>10, <1>11, <1>12, <1>13, <1>14, <1>15, <1>16, <1>17, <1>18, <1>19, <1>20, <1>21, <1>22, <1>23, <1>24, <1>25
     DEF Next, WorkerStep, HandlerStep, DetectorStep

\* No step gives a result to an attempt that has not begun.
LEMMA ForeignStep ==
  ASSUME TypeOK, FutureInv, SentInv, HandlerInv, LeaseInv, DetectorInv, NoForeignResult, [Next]_vars
  PROVE  NoForeignResult'
<1> USE DistributedRunAssumption DEF DistributedRunAssumption, TypeOK, Attempt, Unbegun, Live, Leaving, FutureInv, SentInv, Reports, HandlerInv, NoForeignResult
<1>1. CASE Enqueue
  BY <1>1 DEF Enqueue
<1>2. CASE DispatchQueued
  BY <1>2 DEF DispatchQueued
<1>3. CASE DispatchNew
  BY <1>3 DEF DispatchNew, Fault
<1>4. CASE DispatchDies
  BY <1>4 DEF DispatchDies, Fault
<1>5. CASE RequestCancel
  BY <1>5 DEF RequestCancel
<1>6. CASE Restart
  BY <1>6 DEF Restart, Fault, Answered
<1>7. ASSUME NEW a \in Attempt, AckTaskClaim(a) PROVE NoForeignResult'
  BY <1>7 DEF AckTaskClaim, Fault
<1>8. ASSUME NEW a \in Attempt, Preflight(a) PROVE NoForeignResult'
  BY <1>8 DEF Preflight, Fault, Touched, Cancelled
<1>9. ASSUME NEW a \in Attempt, RunHeartbeat(a) PROVE NoForeignResult'
  BY <1>9 DEF RunHeartbeat, Touched, Alive
<1>10. ASSUME NEW a \in Attempt, OwnerTimeout(a) PROVE NoForeignResult'
  BY <1>10 DEF OwnerTimeout, Fault
<1>11. ASSUME NEW a \in Attempt, PushProgress(a) PROVE NoForeignResult'
  BY <1>11 DEF PushProgress
<1>12. ASSUME NEW a \in Attempt, PushFinal(a) PROVE NoForeignResult'
  BY <1>12 DEF PushFinal
<1>13. ASSUME NEW a \in Attempt, WorkerDies(a) PROVE NoForeignResult'
  BY <1>13 DEF WorkerDies, Fault, Alive
<1>14. ASSUME NEW a \in Attempt, LeaseExpires(a) PROVE NoForeignResult'
  BY <1>14 DEF LeaseExpires, Reporting
<1>15. ASSUME NEW m \in sent, PushFails(m[1], m[2]) PROVE NoForeignResult'
  BY <1>15 DEF PushFails, Fault, Answered
<1>16. ASSUME NEW m \in sent, ReceiveReport(m[1], m[2]) PROVE NoForeignResult'
  BY <1>16 DEF ReceiveReport, Answered, StatusAccepted
<1>17. CASE WriteStatus
  BY <1>17 DEF WriteStatus
<1>18. CASE SyncLease
  BY <1>18 DEF SyncLease
<1>19. CASE SyncIndex
  BY <1>19 DEF SyncIndex, Answered
<1>20. CASE NextStage
  BY <1>20 DEF NextStage, StageAfter, Listed, RemoteRunning
<1>21. ASSUME NEW a \in detector.todo, Examine(a) PROVE NoForeignResult'
  BY <1>21 DEF Examine, RemoteRunning
<1>22. CASE SwapFailed
  BY <1>22 DEF SwapFailed, Failing, DetectorInv, Doomed
<1>23. CASE DeleteLease
  BY <1>23 DEF DeleteLease
<1>24. CASE DeleteIndex
  BY <1>24 DEF DeleteIndex, Unindexed
<1>25. CASE UNCHANGED vars
  BY <1>25 DEF vars
<1> QED
  BY <1>1, <1>2, <1>3, <1>4, <1>5, <1>6, <1>7, <1>8, <1>9, <1>10, <1>11, <1>12, <1>13, <1>14, <1>15, <1>16, <1>17, <1>18, <1>19, <1>20, <1>21, <1>22, <1>23, <1>24, <1>25
     DEF Next, WorkerStep, HandlerStep, DetectorStep

\* What the detector has read stays true enough.
LEMMA DetectorStepInv ==
  ASSUME TypeOK, FutureInv, SentInv, HandlerInv, LeaseInv, DetectorInv, NoForeignResult, [Next]_vars
  PROVE  DetectorInv'
<1> USE DistributedRunAssumption DEF DistributedRunAssumption, TypeOK, Attempt, Unbegun, Live, Leaving, FutureInv, SentInv, Reports, HandlerInv, NoForeignResult, DetectorInv, Tracked, Doomed, NewDetector
<1>1. CASE Enqueue
  BY <1>1 DEF Enqueue
<1>2. CASE DispatchQueued
  BY <1>2 DEF DispatchQueued
<1>3. CASE DispatchNew
  <2>1. latest' = latest + 1 /\ UNCHANGED <<index, detector>>
    BY <1>3 DEF DispatchNew
  <2>2. \A b \in Attempt : b # latest + 1 =>
          worker'[b] = worker[b] /\ persisted'[b] = persisted[b]
    BY <1>3 DEF DispatchNew
  <2>3. \A b \in Attempt : worker[b] \notin Unbegun => b <= latest
    OBVIOUS
  <2>4. \A b \in Attempt : worker[b] \notin Unbegun =>
          Tracked(b)' /\ worker'[b] = worker[b] /\ b < latest'
    BY <2>1, <2>2, <2>3
  <2> QED
    BY <2>1, <2>4
<1>4. CASE DispatchDies
  BY <1>4 DEF DispatchDies, Fault
<1>5. CASE RequestCancel
  BY <1>5 DEF RequestCancel
<1>6. CASE Restart
  BY <1>6 DEF Restart, Fault, Answered
<1>7. ASSUME NEW a \in Attempt, AckTaskClaim(a) PROVE DetectorInv'
  BY <1>7 DEF AckTaskClaim, Fault
<1>8. ASSUME NEW a \in Attempt, Preflight(a) PROVE DetectorInv'
  BY SMTT(30), <1>8 DEF Preflight, Fault, Touched, Cancelled
<1>9. ASSUME NEW a \in Attempt, RunHeartbeat(a) PROVE DetectorInv'
  BY <1>9 DEF RunHeartbeat, Touched, Alive
<1>10. ASSUME NEW a \in Attempt, OwnerTimeout(a) PROVE DetectorInv'
  BY <1>10 DEF OwnerTimeout, Fault
<1>11. ASSUME NEW a \in Attempt, PushProgress(a) PROVE DetectorInv'
  BY <1>11 DEF PushProgress
<1>12. ASSUME NEW a \in Attempt, PushFinal(a) PROVE DetectorInv'
  BY <1>12 DEF PushFinal
<1>13. ASSUME NEW a \in Attempt, WorkerDies(a) PROVE DetectorInv'
  BY <1>13 DEF WorkerDies, Fault, Alive
<1>14. ASSUME NEW a \in Attempt, LeaseExpires(a) PROVE DetectorInv'
  BY <1>14 DEF LeaseExpires, Reporting
<1>15. ASSUME NEW m \in sent, PushFails(m[1], m[2]) PROVE DetectorInv'
  BY <1>15 DEF PushFails, Fault, Answered
<1>16. ASSUME NEW m \in sent, ReceiveReport(m[1], m[2]) PROVE DetectorInv'
  BY SMTT(30), <1>16 DEF ReceiveReport, Answered, StatusAccepted
<1>17. CASE WriteStatus
  BY <1>17 DEF WriteStatus
<1>18. CASE SyncLease
  BY <1>18 DEF SyncLease
<1>19. CASE SyncIndex
  BY <1>19 DEF SyncIndex, Answered
<1>20. CASE NextStage
  BY ZenonT(60), <1>20 DEF NextStage, StageAfter, Listed, RemoteRunning, LeaseInv
<1>21. ASSUME NEW a \in detector.todo, Examine(a) PROVE DetectorInv'
  BY <1>21 DEF Examine, RemoteRunning, LeaseInv
<1>22. CASE SwapFailed
  BY <1>22 DEF SwapFailed, Failing
<1>23. CASE DeleteLease
  BY <1>23 DEF DeleteLease
<1>24. CASE DeleteIndex
  BY <1>24 DEF DeleteIndex, Unindexed
<1>25. CASE UNCHANGED vars
  BY <1>25 DEF vars
<1> QED
  BY <1>1, <1>2, <1>3, <1>4, <1>5, <1>6, <1>7, <1>8, <1>9, <1>10, <1>11, <1>12, <1>13, <1>14, <1>15, <1>16, <1>17, <1>18, <1>19, <1>20, <1>21, <1>22, <1>23, <1>24, <1>25
     DEF Next, WorkerStep, HandlerStep, DetectorStep

\* No step replaces a result.
LEMMA ResultStep ==
  ASSUME IInv, [Next]_vars
  PROVE  \A b \in Attempt : persisted[b] \in Terminal \ {"Failed"} => persisted'[b] = persisted[b]
<1> USE DistributedRunAssumption DEF DistributedRunAssumption, TypeOK, Attempt, Unbegun, Live, Leaving, IInv, FutureInv, HandlerInv, Terminal
<1>1. CASE Enqueue
  BY <1>1 DEF Enqueue
<1>2. CASE DispatchQueued
  BY <1>2 DEF DispatchQueued
<1>3. CASE DispatchNew
  BY <1>3 DEF DispatchNew, Fault
<1>4. CASE DispatchDies
  BY SMTT(30), <1>4 DEF DispatchDies, Fault
<1>5. CASE RequestCancel
  BY <1>5 DEF RequestCancel
<1>6. CASE Restart
  BY <1>6 DEF Restart, Fault, Answered
<1>7. ASSUME NEW a \in Attempt, AckTaskClaim(a) PROVE \A b \in Attempt : persisted[b] \in Terminal \ {"Failed"} => persisted'[b] = persisted[b]
  BY <1>7 DEF AckTaskClaim, Fault
<1>8. ASSUME NEW a \in Attempt, Preflight(a) PROVE \A b \in Attempt : persisted[b] \in Terminal \ {"Failed"} => persisted'[b] = persisted[b]
  BY <1>8 DEF Preflight, Fault, Touched, Cancelled
<1>9. ASSUME NEW a \in Attempt, RunHeartbeat(a) PROVE \A b \in Attempt : persisted[b] \in Terminal \ {"Failed"} => persisted'[b] = persisted[b]
  BY <1>9 DEF RunHeartbeat, Touched, Alive
<1>10. ASSUME NEW a \in Attempt, OwnerTimeout(a) PROVE \A b \in Attempt : persisted[b] \in Terminal \ {"Failed"} => persisted'[b] = persisted[b]
  BY <1>10 DEF OwnerTimeout, Fault
<1>11. ASSUME NEW a \in Attempt, PushProgress(a) PROVE \A b \in Attempt : persisted[b] \in Terminal \ {"Failed"} => persisted'[b] = persisted[b]
  BY <1>11 DEF PushProgress
<1>12. ASSUME NEW a \in Attempt, PushFinal(a) PROVE \A b \in Attempt : persisted[b] \in Terminal \ {"Failed"} => persisted'[b] = persisted[b]
  BY <1>12 DEF PushFinal
<1>13. ASSUME NEW a \in Attempt, WorkerDies(a) PROVE \A b \in Attempt : persisted[b] \in Terminal \ {"Failed"} => persisted'[b] = persisted[b]
  BY <1>13 DEF WorkerDies, Fault, Alive
<1>14. ASSUME NEW a \in Attempt, LeaseExpires(a) PROVE \A b \in Attempt : persisted[b] \in Terminal \ {"Failed"} => persisted'[b] = persisted[b]
  BY <1>14 DEF LeaseExpires, Reporting
<1>15. ASSUME NEW m \in sent, PushFails(m[1], m[2]) PROVE \A b \in Attempt : persisted[b] \in Terminal \ {"Failed"} => persisted'[b] = persisted[b]
  BY <1>15 DEF PushFails, Fault, Answered
<1>16. ASSUME NEW m \in sent, ReceiveReport(m[1], m[2]) PROVE \A b \in Attempt : persisted[b] \in Terminal \ {"Failed"} => persisted'[b] = persisted[b]
  BY <1>16 DEF ReceiveReport, Answered, StatusAccepted
<1>17. CASE WriteStatus
  BY <1>17 DEF WriteStatus
<1>18. CASE SyncLease
  BY <1>18 DEF SyncLease
<1>19. CASE SyncIndex
  BY <1>19 DEF SyncIndex, Answered
<1>20. CASE NextStage
  BY <1>20 DEF NextStage, StageAfter, Listed, RemoteRunning
<1>21. ASSUME NEW a \in detector.todo, Examine(a) PROVE \A b \in Attempt : persisted[b] \in Terminal \ {"Failed"} => persisted'[b] = persisted[b]
  BY <1>21 DEF Examine, RemoteRunning
<1>22. CASE SwapFailed
  BY ZenonT(60), <1>22 DEF SwapFailed, Failing
<1>23. CASE DeleteLease
  BY <1>23 DEF DeleteLease
<1>24. CASE DeleteIndex
  BY <1>24 DEF DeleteIndex, Unindexed
<1>25. CASE UNCHANGED vars
  BY <1>25 DEF vars
<1> QED
  BY <1>1, <1>2, <1>3, <1>4, <1>5, <1>6, <1>7, <1>8, <1>9, <1>10, <1>11, <1>12, <1>13, <1>14, <1>15, <1>16, <1>17, <1>18, <1>19, <1>20, <1>21, <1>22, <1>23, <1>24, <1>25
     DEF Next, WorkerStep, HandlerStep, DetectorStep

\* No step fails an attempt whose worker keeps in touch.
LEMMA AliveStep ==
  ASSUME IInv, [Next]_vars
  PROVE  \A b \in Attempt : worker[b] \in Live /\ persisted'[b] = "Failed" => persisted[b] = "Failed"
<1> USE DistributedRunAssumption DEF DistributedRunAssumption, TypeOK, Attempt, Unbegun, Live, Leaving, IInv, FutureInv, HandlerInv, Reports
<1>1. CASE Enqueue
  BY <1>1 DEF Enqueue
<1>2. CASE DispatchQueued
  BY <1>2 DEF DispatchQueued
<1>3. CASE DispatchNew
  BY <1>3 DEF DispatchNew, Fault
<1>4. CASE DispatchDies
  BY <1>4 DEF DispatchDies, Fault
<1>5. CASE RequestCancel
  BY <1>5 DEF RequestCancel
<1>6. CASE Restart
  BY <1>6 DEF Restart, Fault, Answered
<1>7. ASSUME NEW a \in Attempt, AckTaskClaim(a) PROVE \A b \in Attempt : worker[b] \in Live /\ persisted'[b] = "Failed" => persisted[b] = "Failed"
  BY <1>7 DEF AckTaskClaim, Fault
<1>8. ASSUME NEW a \in Attempt, Preflight(a) PROVE \A b \in Attempt : worker[b] \in Live /\ persisted'[b] = "Failed" => persisted[b] = "Failed"
  BY <1>8 DEF Preflight, Fault, Touched, Cancelled
<1>9. ASSUME NEW a \in Attempt, RunHeartbeat(a) PROVE \A b \in Attempt : worker[b] \in Live /\ persisted'[b] = "Failed" => persisted[b] = "Failed"
  BY <1>9 DEF RunHeartbeat, Touched, Alive
<1>10. ASSUME NEW a \in Attempt, OwnerTimeout(a) PROVE \A b \in Attempt : worker[b] \in Live /\ persisted'[b] = "Failed" => persisted[b] = "Failed"
  BY <1>10 DEF OwnerTimeout, Fault
<1>11. ASSUME NEW a \in Attempt, PushProgress(a) PROVE \A b \in Attempt : worker[b] \in Live /\ persisted'[b] = "Failed" => persisted[b] = "Failed"
  BY <1>11 DEF PushProgress
<1>12. ASSUME NEW a \in Attempt, PushFinal(a) PROVE \A b \in Attempt : worker[b] \in Live /\ persisted'[b] = "Failed" => persisted[b] = "Failed"
  BY <1>12 DEF PushFinal
<1>13. ASSUME NEW a \in Attempt, WorkerDies(a) PROVE \A b \in Attempt : worker[b] \in Live /\ persisted'[b] = "Failed" => persisted[b] = "Failed"
  BY <1>13 DEF WorkerDies, Fault, Alive
<1>14. ASSUME NEW a \in Attempt, LeaseExpires(a) PROVE \A b \in Attempt : worker[b] \in Live /\ persisted'[b] = "Failed" => persisted[b] = "Failed"
  BY <1>14 DEF LeaseExpires, Reporting
<1>15. ASSUME NEW m \in sent, PushFails(m[1], m[2]) PROVE \A b \in Attempt : worker[b] \in Live /\ persisted'[b] = "Failed" => persisted[b] = "Failed"
  BY <1>15 DEF PushFails, Fault, Answered
<1>16. ASSUME NEW m \in sent, ReceiveReport(m[1], m[2]) PROVE \A b \in Attempt : worker[b] \in Live /\ persisted'[b] = "Failed" => persisted[b] = "Failed"
  BY <1>16 DEF ReceiveReport, Answered, StatusAccepted
<1>17. CASE WriteStatus
  BY <1>17 DEF WriteStatus
<1>18. CASE SyncLease
  BY <1>18 DEF SyncLease
<1>19. CASE SyncIndex
  BY <1>19 DEF SyncIndex, Answered
<1>20. CASE NextStage
  BY <1>20 DEF NextStage, StageAfter, Listed, RemoteRunning
<1>21. ASSUME NEW a \in detector.todo, Examine(a) PROVE \A b \in Attempt : worker[b] \in Live /\ persisted'[b] = "Failed" => persisted[b] = "Failed"
  BY <1>21 DEF Examine, RemoteRunning
<1>22. CASE SwapFailed
  BY <1>22 DEF SwapFailed, Failing, DetectorInv, Doomed
<1>23. CASE DeleteLease
  BY <1>23 DEF DeleteLease
<1>24. CASE DeleteIndex
  BY <1>24 DEF DeleteIndex, Unindexed
<1>25. CASE UNCHANGED vars
  BY <1>25 DEF vars
<1> QED
  BY <1>1, <1>2, <1>3, <1>4, <1>5, <1>6, <1>7, <1>8, <1>9, <1>10, <1>11, <1>12, <1>13, <1>14, <1>15, <1>16, <1>17, <1>18, <1>19, <1>20, <1>21, <1>22, <1>23, <1>24, <1>25
     DEF Next, WorkerStep, HandlerStep, DetectorStep

-----------------------------------------------------------------------------
(* The theorems *)

\* The invariant holds before the first attempt.
LEMMA InitInv == Init => IInv
<1> SUFFICES ASSUME Init PROVE IInv
  OBVIOUS
<1> USE DistributedRunAssumption DEF DistributedRunAssumption, Init
<1>1. TypeOK
  <2>1. /\ persisted \in [Attempt -> {"none"}] /\ lease \in [Attempt -> {"none"}]
        /\ worker \in [Attempt -> {"none"}] /\ latest \in 0 .. MaxAttempts
        /\ budget \in Budget
    OBVIOUS
  <2> HIDE DEF Init
  <2>2. /\ index \subseteq Attempt /\ abort \subseteq Attempt
        /\ sent \subseteq Attempt \X RunStatus
        /\ handler = NoReport /\ detector = NewDetector
    BY DEF Init
  <2> QED
    BY <2>1, <2>2, ResetType DEF TypeOK, RunStatus
<1>2. FutureInv /\ SentInv /\ LeaseInv /\ NoForeignResult
  BY DEF FutureInv, SentInv, LeaseInv, NoForeignResult, Unbegun, Live
<1>3. HandlerInv /\ DetectorInv
  BY DEF HandlerInv, DetectorInv, NoReport, NewDetector
<1> QED
  BY <1>1, <1>2, <1>3 DEF IInv

\* It is inductive.
LEMMA StepInv == IInv /\ [Next]_vars => IInv'
BY TypeStep, FutureStep, SentStep, HandlerStepInv, LeaseStep, ForeignStep,
   DetectorStepInv DEF IInv

\* So it holds always.
LEMMA Invariant == Spec => []IInv
BY InitInv, StepInv, PTL DEF Spec

\* The coordinator, its files and its workers keep their types, for any number
\* of attempts, faults and endings.
THEOREM RunTypeCorrect == Spec => []TypeOK
<1>1. IInv => TypeOK
  BY DEF IInv
<1> QED
  BY <1>1, Invariant, PTL

\* An attempt nobody has begun never has a result, however many attempts
\* supersede one another and however late their reports arrive.
THEOREM ResultsAreOwn == Spec => []NoForeignResult
<1>1. IInv => NoForeignResult
  BY DEF IInv
<1> QED
  BY <1>1, Invariant, PTL

\* A result that a worker reported is never replaced.
THEOREM ResultsStay == Spec => ResultStays
<1>1. IInv /\ [Next]_vars =>
        [\A a \in Attempt : persisted[a] \in Terminal \ {"Failed"}
                              => persisted'[a] = persisted[a]]_vars
  BY ResultStep
<1> QED
  BY <1>1, Invariant, PTL DEF Spec, ResultStays

\* The zombie detector never fails an attempt whose worker keeps in touch,
\* although it acts on leases, index records and statuses it read before.
THEOREM AliveAreSpared == Spec => AliveNotFailed
<1>1. IInv /\ [Next]_vars =>
        [\A a \in Attempt :
           worker[a] \in {"acked", "starting", "running"} /\ persisted'[a] = "Failed"
             => persisted[a] = "Failed"]_vars
  BY AliveStep DEF Live
<1> QED
  BY <1>1, Invariant, PTL DEF Spec, AliveNotFailed

=============================================================================
