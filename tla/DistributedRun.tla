--------------------------- MODULE DistributedRun ---------------------------
(***************************************************************************)
(* One DAG run executed by remote workers, after its task was claimed: the *)
(* coordinator's Dispatch, AckTaskClaim, ReportStatus, RunHeartbeat,       *)
(* RequestCancel and zombie detector, and the worker that executes each    *)
(* attempt.  The run's history, the leases and the active index are files  *)
(* that outlive the coordinator.  ReportStatus and Dispatch hold the run's *)
(* mutex; the zombie detector only holds the history's lock during its     *)
(* compare-and-swap.  Clocks: a lease only expires once its owner has heard *)
(* nothing of the attempt, see Reporting.                                  *)
(***************************************************************************)
EXTENDS Integers, FiniteSets

CONSTANTS
  MaxAttempts,  \* the attempts of the run are 1 .. MaxAttempts
  Budgets       \* bounds: how many attempts there may be, the statuses a worker's
                \* run may end with, and how many crashes, lost messages and failed
                \* handoffs happen

Attempt == 1 .. MaxAttempts

\* core.Status, and "none" when the attempt does not exist.  "Running" is also
\* a NotStarted that a worker reports: the coordinator treats the two alike once
\* the status names a worker, and the NotStarted that Dispatch writes names none.
Terminal == {"Succeeded", "PartiallySucceeded", "Failed", "Aborted", "Rejected"}
RunStatus == Terminal \cup {"none", "Queued", "NotStarted", "Running", "Waiting"}

Budget == [attempts : 0 .. MaxAttempts, finals : SUBSET (Terminal \cup {"Waiting"}),
           faults : Nat]

ASSUME DistributedRunAssumption == MaxAttempts \in Nat /\ Budgets \subseteq Budget

VARIABLES
  latest,     \* the latest attempt; 0 before the first
  persisted,  \* the status in each attempt's history file
  lease,      \* each attempt's lease: "none", "fresh" or "stale"
  index,      \* attempts in the active distributed run index
  abort,      \* attempts with the abort flag
  worker,     \* what each attempt's worker does
  sent,       \* ReportStatus requests under way
  handler,    \* the ReportStatus that holds the run's mutex
  detector,   \* the zombie detector
  budget      \* the bounds, less the faults so far

vars == <<latest, persisted, lease, index, abort, worker, sent, handler, detector, budget>>

NoReport == [pc |-> "idle", attempt |-> 0, target |-> 0, status |-> "none"]

\* StartZombieDetector begins with backfillActiveDistributedRuns.
NewDetector == [stage |-> "start", step |-> "next", todo |-> {}, item |-> 0]

Init ==
  /\ latest = 0
  /\ persisted = [a \in Attempt |-> "none"]
  /\ lease = [a \in Attempt |-> "none"]
  /\ index = {} /\ abort = {}
  /\ worker = [a \in Attempt |-> "none"]
  /\ sent = {}
  /\ handler = NoReport
  /\ detector = NewDetector
  /\ budget \in Budgets

Fault == budget.faults > 0 /\ budget' = [budget EXCEPT !.faults = @ - 1]

-----------------------------------------------------------------------------
(* Dispatch, AckTaskClaim and RequestCancel.                               *)

\* EnqueueCatchupRun: the run begins in a queue.
Enqueue ==
  /\ latest = 0 /\ budget.attempts > 0
  /\ latest' = 1
  /\ persisted' = [persisted EXCEPT ![1] = "Queued"]
  /\ UNCHANGED <<lease, index, abort, worker, sent, handler, detector, budget>>

\* A queued attempt is dispatched as it is; when its task cannot be enqueued
\* it stays queued.  The queue processor asks for no second dispatch while the
\* first is outstanding.
DispatchQueued ==
  /\ handler.pc = "idle"
  /\ \E a \in Attempt :
       /\ a = latest /\ persisted[a] = "Queued" /\ worker[a] = "none"
       /\ worker' = [worker EXCEPT ![a] = "offered"]
  /\ UNCHANGED <<latest, persisted, lease, index, abort, sent, handler, detector, budget>>

\* Otherwise a new attempt supersedes the latest, whatever its status: the
\* first attempt or a retry.  When the task cannot be enqueued,
\* markPreparedAttemptDispatchFailed fails the attempt.
DispatchNew ==
  LET a == latest + 1 IN
  /\ handler.pc = "idle"
  /\ a <= budget.attempts
  /\ latest > 0 => persisted[latest] # "Queued"
  /\ latest' = a
  /\ \/ /\ persisted' = [persisted EXCEPT ![a] = "NotStarted"]
        /\ worker' = [worker EXCEPT ![a] = "offered"]
        /\ UNCHANGED budget
     \/ /\ Fault
        /\ persisted' = [persisted EXCEPT ![a] = "Failed"]
        /\ worker' = [worker EXCEPT ![a] = "gone"]
  /\ UNCHANGED <<lease, index, abort, sent, handler, detector>>

\* The coordinator dies between the two: the attempt is there, its task is not.
DispatchDies ==
  LET a == latest + 1 IN
  /\ handler.pc = "idle"
  /\ a <= budget.attempts
  /\ latest > 0 => persisted[latest] # "Queued"
  /\ Fault
  /\ latest' = a
  /\ persisted' = [persisted EXCEPT ![a] = "NotStarted"]
  /\ detector' = NewDetector
  /\ UNCHANGED <<lease, index, abort, worker, sent, handler>>

\* The lease exists before the worker knows that its claim is accepted; the
\* answer may be lost.
AckTaskClaim(a) ==
  /\ worker[a] = "offered"
  /\ lease' = [lease EXCEPT ![a] = "fresh"]
  /\ \/ worker' = [worker EXCEPT ![a] = "acked"] /\ UNCHANGED budget
     \/ Fault /\ worker' = [worker EXCEPT ![a] = "gone"]
  /\ UNCHANGED <<latest, persisted, index, abort, sent, handler, detector>>

\* The abort flag of the attempt that is the latest now.
RequestCancel ==
  /\ latest > 0 /\ latest \notin abort
  /\ abort' = abort \cup {latest}
  /\ UNCHANGED <<latest, persisted, lease, index, worker, sent, handler, detector, budget>>

-----------------------------------------------------------------------------
(* RunHeartbeat, from the preflight check and then every second.           *)

\* Mutant of Cancelled: neither a missing lease nor a later attempt is noticed.
CancelledByStatusOnly(a) == persisted[latest] \in Terminal \/ latest \in abort

\* Touch finds no lease, or isTaskCancelled.
Cancelled(a) ==
  \/ lease[a] = "none"
  \/ latest # a
  \/ persisted[latest] \in Terminal
  \/ latest \in abort

\* The task is registered with the worker.
Alive == {"starting", "running", "stopping", "severed"}

Touched(a) == [lease EXCEPT ![a] = IF @ = "none" THEN "none" ELSE "fresh"]

\* trackingHandler.Handle: a rejected claim is dropped without a report, a
\* heartbeat that fails lets the task run.  The agent pushes Running and waits
\* for the answer before it starts.
Preflight(a) ==
  /\ worker[a] = "acked"
  /\ \/ /\ ~Cancelled(a)
        /\ lease' = Touched(a)
        /\ worker' = [worker EXCEPT ![a] = "starting"]
        /\ sent' = sent \cup {<<a, "Running">>}
        /\ UNCHANGED budget
     \/ /\ Cancelled(a)
        /\ lease' = Touched(a)
        /\ worker' = [worker EXCEPT ![a] = "gone"]
        /\ UNCHANGED <<sent, budget>>
     \/ /\ Fault
        /\ worker' = [worker EXCEPT ![a] = "starting"]
        /\ sent' = sent \cup {<<a, "Running">>}
        /\ UNCHANGED lease
  /\ UNCHANGED <<latest, persisted, index, abort, handler, detector>>

\* processCancellations cancels the task's context.  A task that is stopping
\* keeps its heartbeat until it has ended.
RunHeartbeat(a) ==
  /\ worker[a] \in Alive
  /\ lease' = Touched(a)
  /\ worker' = [worker EXCEPT ![a] = IF Cancelled(a) \/ @ = "severed" THEN "stopping" ELSE @]
  /\ UNCHANGED <<latest, persisted, index, abort, sent, handler, detector, budget>>

\* cancelTasksForOwnerTimeout: the owner has not answered for 15 seconds, and
\* will not hear of the task before the connection is back.
OwnerTimeout(a) ==
  /\ worker[a] \in {"starting", "running"}
  /\ Fault
  /\ worker' = [worker EXCEPT ![a] = "severed"]
  /\ UNCHANGED <<latest, persisted, lease, index, abort, sent, handler, detector>>

-----------------------------------------------------------------------------
(* The worker's agent and its status pushes.                               *)

\* The statuses pushed before the final one.  A goroutine nobody waits for
\* pushes one, so it may be under way when the final status is sent.
PushProgress(a) ==
  /\ worker[a] \in {"running", "stopping", "severed"}
  /\ sent' = sent \cup {<<a, "Running">>}
  /\ UNCHANGED <<latest, persisted, lease, index, abort, worker, handler, detector, budget>>

\* runner.Run has returned; the final status is pushed and waited for.
PushFinal(a) ==
  /\ worker[a] \in {"running", "stopping", "severed"}
  /\ \E s \in budget.finals \cup (IF worker[a] = "running" THEN {} ELSE {"Aborted"}) :
       sent' = sent \cup {<<a, s>>}
  /\ worker' = [worker EXCEPT ![a] = "ended"]
  /\ UNCHANGED <<latest, persisted, lease, index, abort, handler, detector, budget>>

\* The answer to a push: a rejection stops a run that has not finished, and
\* any answer to the final push ends the task.
Answered(a, s, accepted) ==
  [worker EXCEPT ![a] =
     CASE @ \in {"starting", "running"} -> IF accepted THEN "running" ELSE "stopping"
       [] @ = "ended" /\ s # "Running"  -> "gone"
       [] OTHER                         -> @]

\* A request is lost, or its caller gives up on it and it arrives later.
PushFails(a, s) ==
  /\ Fault
  /\ sent' \in {sent, sent \ {<<a, s>>}}
  /\ worker' = Answered(a, s, TRUE)
  /\ UNCHANGED <<latest, persisted, lease, index, abort, handler, detector>>

WorkerDies(a) ==
  /\ worker[a] \in Alive \cup {"acked", "ended"}
  /\ Fault
  /\ worker' = [worker EXCEPT ![a] = "gone"]
  /\ UNCHANGED <<latest, persisted, lease, index, abort, sent, handler, detector>>

-----------------------------------------------------------------------------
(* ReportStatus, step by step.                                             *)

\* Mutant of StatusAccepted: the attempt is not compared with the latest one.
StatusAcceptedFromAny(a, s) == persisted[latest] \notin Terminal \/ persisted[latest] = s

\* remoteStatusDecision; the lease only decides the reason of a rejection.
StatusAccepted(a, s) ==
  /\ a = latest
  /\ persisted[latest] \notin Terminal \/ persisted[latest] = s

\* resolveLatestAttempt and the decision.
ReceiveReport(a, s) ==
  /\ handler.pc = "idle"
  /\ sent' = sent \ {<<a, s>>}
  /\ IF StatusAccepted(a, s)
       THEN /\ handler' = [pc |-> "write", attempt |-> a, target |-> latest, status |-> s]
            /\ UNCHANGED worker
       ELSE worker' = Answered(a, s, FALSE) /\ UNCHANGED handler
  /\ UNCHANGED <<latest, persisted, lease, index, abort, detector, budget>>

WriteStatus ==
  /\ handler.pc = "write"
  /\ persisted' = [persisted EXCEPT ![handler.target] = handler.status]
  /\ handler' = [handler EXCEPT !.pc = "lease"]
  /\ UNCHANGED <<latest, lease, index, abort, worker, sent, detector, budget>>

\* syncLeaseFromStatus.
SyncLease ==
  /\ handler.pc = "lease"
  /\ lease' = [lease EXCEPT ![handler.attempt] =
                 IF handler.status = "Running" THEN "fresh" ELSE "none"]
  /\ handler' = [handler EXCEPT !.pc = "index"]
  /\ UNCHANGED <<latest, persisted, index, abort, worker, sent, detector, budget>>

\* syncActiveDistributedRunFromStatus, and the answer.
SyncIndex ==
  /\ handler.pc = "index"
  /\ index' = IF handler.status = "Running" THEN index \cup {handler.attempt}
              ELSE index \ {handler.attempt}
  /\ worker' = Answered(handler.attempt, handler.status, TRUE)
  /\ handler' = NoReport
  /\ UNCHANGED <<latest, persisted, lease, abort, sent, detector, budget>>

-----------------------------------------------------------------------------
(* The zombie detector: stale leases, then the index, then the history.    *)

\* The latest status names a remote worker.
RemoteRunning == {a \in Attempt : a = latest /\ persisted[a] = "Running"}

StageAfter == [start |-> "backfill", backfill |-> "leases", leases |-> "index",
               index |-> "orphans", orphans |-> "leases"]

\* Mutant of Listed: the stale leases are not looked at.
ListedNoLeases(stage) ==
  CASE stage = "leases" -> {}
    [] stage = "index"  -> index
    [] OTHER            -> RemoteRunning

\* What a pass works through.
Listed(stage) ==
  CASE stage = "leases" -> {a \in Attempt : lease[a] = "stale"}
    [] stage = "index"  -> index
    [] OTHER            -> RemoteRunning

NextStage ==
  /\ detector.step = "next" /\ detector.todo = {}
  /\ LET s == StageAfter[detector.stage] IN
       detector' = [NewDetector EXCEPT !.stage = s, !.todo = Listed(s)]
  /\ UNCHANGED <<latest, persisted, lease, index, abort, worker, sent, handler, budget>>

\* Look at one of them: leave it, repair it, or drop its tracking.
Examine(a) ==
  LET superseded == detector.stage = "index" /\ a \notin RemoteRunning
      matches    == detector.stage # "leases" /\ ~superseded /\ lease[a] = "fresh"
  IN
  /\ detector.step = "next"
  /\ detector' = [detector EXCEPT
                    !.todo = @ \ {a}, !.item = IF matches THEN 0 ELSE a,
                    !.step = IF superseded THEN "untrack" ELSE IF matches THEN "next" ELSE "swap"]
  /\ index' = IF matches /\ detector.stage # "orphans" THEN index \cup {a} ELSE index
  /\ UNCHANGED <<latest, persisted, lease, abort, worker, sent, handler, budget>>

\* Mutant of Failing: the status is not compared before it is swapped.
FailingUnchecked(a) == a = latest

\* CompareAndSwapLatestAttemptStatus finds what is expected: the status the
\* pass read, or for a stale lease any that is active.
Failing(a) ==
  /\ a = latest
  /\ persisted[a] \in IF detector.stage = "leases" THEN {"Running", "NotStarted", "Queued"}
                      ELSE {"Running"}

\* failDistributedAttemptIfCurrent.
SwapFailed ==
  LET a == detector.item IN
  /\ detector.step = "swap"
  /\ persisted' = IF Failing(a) THEN [persisted EXCEPT ![a] = "Failed"] ELSE persisted
  /\ detector' = IF Failing(a) \/ a # latest \/ persisted[a] \in Terminal
                 THEN [detector EXCEPT !.step = "untrack"]
                 ELSE [detector EXCEPT !.step = "next", !.item = 0]
  /\ UNCHANGED <<latest, lease, index, abort, worker, sent, handler, budget>>

\* deleteDistributedTracking: the lease, then the index record.
DeleteLease ==
  /\ detector.step = "untrack"
  /\ lease' = [lease EXCEPT ![detector.item] = "none"]
  /\ detector' = [detector EXCEPT !.step = "unindex"]
  /\ UNCHANGED <<latest, persisted, index, abort, worker, sent, handler, budget>>

\* Mutant of Unindexed: the index record is left behind.
UnindexedNever(a) == index

Unindexed(a) == index \ {a}

DeleteIndex ==
  /\ detector.step = "unindex"
  /\ index' = Unindexed(detector.item)
  /\ detector' = [detector EXCEPT !.step = "next", !.item = 0]
  /\ UNCHANGED <<latest, persisted, lease, abort, worker, sent, handler, budget>>

-----------------------------------------------------------------------------
(* Time, and the coordinator's death.                                      *)

\* Mutant of Reporting: a run is only kept alive by its status reports.
ReportingNever(a) == FALSE

\* The owner hears of the attempt every second, or handles a report of it: in
\* less than the lease timeout, unless the worker has lost its owner.
Reporting(a) ==
  \/ worker[a] \in {"acked", "starting", "running", "stopping", "ended"}
  \/ \E m \in sent : m[1] = a /\ worker[a] # "severed"
  \/ handler.attempt = a

LeaseExpires(a) ==
  /\ lease[a] = "fresh" /\ ~Reporting(a)
  /\ lease' = [lease EXCEPT ![a] = "stale"]
  /\ UNCHANGED <<latest, persisted, index, abort, worker, sent, handler, detector, budget>>

\* The coordinator is restarted: the report it was handling fails.
Restart ==
  /\ Fault
  /\ handler' = NoReport
  /\ detector' = NewDetector
  /\ worker' = IF handler.pc = "idle" THEN worker
               ELSE Answered(handler.attempt, handler.status, TRUE)
  /\ UNCHANGED <<latest, persisted, lease, index, abort, sent>>

WorkerStep(a) ==
  \/ Preflight(a) \/ RunHeartbeat(a) \/ OwnerTimeout(a)
  \/ PushProgress(a) \/ PushFinal(a) \/ WorkerDies(a)

HandlerStep ==
  \/ \E m \in sent : ReceiveReport(m[1], m[2])
  \/ WriteStatus \/ SyncLease \/ SyncIndex

DetectorStep ==
  \/ NextStage \/ \E a \in detector.todo : Examine(a)
  \/ SwapFailed \/ DeleteLease \/ DeleteIndex

Next ==
  \/ Enqueue \/ DispatchQueued \/ DispatchNew \/ DispatchDies \/ RequestCancel \/ Restart
  \/ \E a \in Attempt : AckTaskClaim(a) \/ WorkerStep(a) \/ LeaseExpires(a)
  \/ \E m \in sent : PushFails(m[1], m[2])
  \/ HandlerStep
  \/ DetectorStep

Spec == Init /\ [][Next]_vars

\* The coordinator serves reports and its detector ticks; a worker sends its
\* heartbeats, and stops once it is told to.  Commands need never end, and
\* nobody need cancel or retry.
Fairness ==
  /\ WF_vars(WriteStatus \/ SyncLease \/ SyncIndex)
  /\ WF_vars(DetectorStep)
  /\ \A a \in Attempt :
       /\ WF_vars(LeaseExpires(a))
       /\ SF_vars(\E m \in sent : m[1] = a /\ m[2] = "Running" /\ ReceiveReport(a, m[2]))
       /\ SF_vars(\E m \in sent : m[1] = a /\ m[2] # "Running" /\ ReceiveReport(a, m[2]))
       /\ WF_vars(Preflight(a)) /\ WF_vars(RunHeartbeat(a))
       /\ WF_vars(worker[a] \in {"stopping", "severed"} /\ PushFinal(a))

FairSpec == Spec /\ Fairness

-----------------------------------------------------------------------------
(* Properties.                                                             *)

\* Every variable keeps its type; in particular the detector goes on from pass
\* to pass.
TypeOK ==
  /\ latest \in 0 .. MaxAttempts
  /\ persisted \in [Attempt -> RunStatus]
  /\ lease \in [Attempt -> {"none", "fresh", "stale"}]
  /\ index \subseteq Attempt /\ abort \subseteq Attempt
  /\ worker \in [Attempt -> {"none", "offered", "acked", "starting", "running",
                            "stopping", "severed", "ended", "gone"}]
  /\ sent \subseteq Attempt \X RunStatus
  /\ handler \in [pc : {"idle", "write", "lease", "index"}, attempt : 0 .. MaxAttempts,
                  target : 0 .. MaxAttempts, status : RunStatus]
  /\ detector \in [stage : {"start", "backfill", "leases", "index", "orphans"},
                   step : {"next", "swap", "untrack", "unindex"},
                   todo : SUBSET Attempt, item : 0 .. MaxAttempts]
  /\ budget \in Budget

\* A terminal status is final: neither a late report of a worker that was given
\* up nor a repair by the detector ever replaces it.
TerminalStays ==
  [][\A a \in Attempt : persisted[a] \in Terminal => persisted'[a] = persisted[a]]_vars

\* A result that a worker reported is never replaced, by another report, by the
\* detector or after a restart.  Failed is the coordinator's own verdict where
\* no worker ends with it.
ResultStays ==
  [][\A a \in Attempt : persisted[a] \in Terminal \ {"Failed"}
                          => persisted'[a] = persisted[a]]_vars

\* A worker that keeps in touch is never declared lost: the detector does not
\* fail an attempt that is being executed, whatever it read of lease and index.
AliveNotFailed ==
  [][\A a \in Attempt : worker[a] \in {"acked", "starting", "running"} /\ persisted'[a] = "Failed"
                          => persisted[a] = "Failed"]_vars

\* An attempt nobody has begun has no result: a report of an earlier attempt
\* never reaches its history.
NoForeignResult ==
  \A a \in Attempt :
    worker[a] \in {"none", "offered"} => persisted[a] \in {"none", "Queued", "NotStarted"}

\* The latest attempt does not stay active when its worker is lost.
LossNoticed ==
  \A a \in Attempt :
    worker[a] = "gone" ~> a # latest \/ persisted[a] \in Terminal \cup {"Waiting"}

\* The lease and the index record of an attempt that is over are removed, also
\* when the coordinator dies between writing the status and removing them.
TrackingCleared ==
  \A a \in Attempt :
    worker[a] = "gone" ~> \/ (lease[a] = "none" /\ a \notin index)
                          \/ (a = latest /\ persisted[a] = "Waiting")

\* A worker whose attempt is aborted or superseded stops.
CancelDelivered ==
  \A a \in Attempt : a \in abort \/ a < latest ~> worker[a] \in {"none", "offered", "gone"}
=============================================================================
