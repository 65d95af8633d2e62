------------------------- MODULE DispatchTaskStore -------------------------
(***************************************************************************)
(* The shared queue of distributed tasks: filedistributed.DispatchTaskStore *)
(* as the coordinators' Poll and AckTaskClaim and the scheduler's counts    *)
(* use it, down to single file operations.  pending/ and claims/ are        *)
(* directories on a shared file system; the store's mutex is per process,   *)
(* so the locked operations of two processes interleave, and AckTaskClaim   *)
(* takes no lock at all.                                                    *)
(***************************************************************************)
EXTENDS Integers, FiniteSets

CONSTANTS
  Task,       \* the tasks, numbered as their file names sort (by enqueue time)
  Proc,       \* processes with a store: coordinators and schedulers
  Worker,
  Token,      \* claim tokens: bound on the number of claims
  Matches,    \* the tasks each worker's labels match
  LateAcks,   \* a worker may take longer than the claim timeout to acknowledge
  MaxFaults,  \* bound: crashes, lost responses and failed writes
  NoTask, NoToken, NoWorker

ASSUME StoreAssumption ==
  /\ Task \subseteq Nat
  /\ Matches \in [Worker -> SUBSET Task]
  /\ LateAcks \in BOOLEAN
  /\ MaxFaults \in Nat
  /\ NoTask \notin Task /\ NoToken \notin Token /\ NoWorker \notin Worker

VARIABLES
  enqueued,    \* tasks Enqueue has written
  pending,     \* tasks with a file in pending/
  claim,       \* the task in the file claims/claim_<token>, or NoTask
  stamped,     \* tokens whose file carries the claim's token, time and worker
  oldPending,  \* tasks whose pending file is older than the claim timeout
  oldClaim,    \* tokens whose claim is older than the claim timeout
  used,        \* tokens handed out
  op,          \* the locked operation of each process
  work,        \* what each worker's poller does
  lease,       \* the worker named by a task's lease
  acked,       \* tasks whose claim AckTaskClaim has finalized
  accepts,     \* how often a worker was told that its claim is accepted
  faults       \* faults so far

files == <<pending, claim, stamped, oldPending, oldClaim>>
vars  == <<enqueued, files, used, op, work, lease, acked, accepts, faults>>

IdleOp   == [pc |-> "idle", worker |-> NoWorker, seen |-> {}, left |-> {},
             token |-> NoToken, task |-> NoTask]
IdleWork == [pc |-> "idle", proc |-> NoWorker, token |-> NoToken, task |-> NoTask]

Init ==
  /\ enqueued = {} /\ pending = {} /\ claim = [k \in Token |-> NoTask]
  /\ stamped = {} /\ oldPending = {} /\ oldClaim = {} /\ used = {}
  /\ op = [p \in Proc |-> IdleOp]
  /\ work = [w \in Worker |-> IdleWork]
  /\ lease = [t \in Task |-> NoWorker]
  /\ acked = {} /\ accepts = [t \in Task |-> 0] /\ faults = 0

Files == {k \in Token : claim[k] # NoTask}

Fault == faults < MaxFaults /\ faults' = faults + 1

-----------------------------------------------------------------------------
(* The locked operations: ClaimNext and snapshotOutstandingPaths.  Both     *)
(* recycle expired claims first.                                            *)

\* Dispatch enqueues each task once.
Enqueue(t) ==
  /\ t \notin enqueued
  /\ enqueued' = enqueued \cup {t} /\ pending' = pending \cup {t}
  /\ UNCHANGED <<claim, stamped, oldPending, oldClaim, used, op, work, lease, acked, accepts,
                 faults>>

\* Poll on behalf of a worker's poller; sortedFiles(claimsDir) is read once.
StartClaim(p, w) ==
  /\ op[p].pc = "idle" /\ work[w].pc = "idle"
  /\ op' = [op EXCEPT ![p] = [IdleOp EXCEPT !.pc = "recycle", !.worker = w, !.seen = Files]]
  /\ work' = [work EXCEPT ![w] = [IdleWork EXCEPT !.pc = "polling", !.proc = p]]
  /\ UNCHANGED <<enqueued, files, used, lease, acked, accepts, faults>>

\* CountOutstandingByQueue and HasOutstandingAttempt: the scheduler asks.
StartCount(p) ==
  /\ op[p].pc = "idle" /\ Files # {}
  /\ op' = [op EXCEPT ![p] = [IdleOp EXCEPT !.pc = "recycle", !.seen = Files]]
  /\ UNCHANGED <<enqueued, files, used, work, lease, acked, accepts, faults>>

\* ClaimedAt, or the file's modification time when the claim is not stamped.
Expired(k) == claim[k] # NoTask /\ k \in oldClaim

\* Read one claim file; skip it unless it has expired.
ReadClaim(p, k) ==
  /\ op[p].pc = "recycle" /\ k \in op[p].seen
  /\ op' = [op EXCEPT ![p].seen = @ \ {k},
                      ![p].pc = IF Expired(k) THEN "rewrite" ELSE "recycle",
                      ![p].token = IF Expired(k) THEN k ELSE NoToken,
                      ![p].task = IF Expired(k) THEN claim[k] ELSE NoTask]
  /\ UNCHANGED <<enqueued, files, used, work, lease, acked, accepts, faults>>

Cleared(k) == stamped \ {k}

\* writeJSONAtomic of the cleared record: it creates the file if it is gone.
RewriteClaim(p) ==
  /\ op[p].pc = "rewrite"
  /\ claim' = [claim EXCEPT ![op[p].token] = op[p].task]
  /\ stamped' = Cleared(op[p].token) /\ oldClaim' = oldClaim \ {op[p].token}
  /\ op' = [op EXCEPT ![p].pc = "requeue"]
  /\ UNCHANGED <<enqueued, pending, oldPending, used, work, lease, acked, accepts, faults>>

\* Mutant of Requeued: the rename to pending/ is lost.
RequeuedNowhere(k) == pending

Requeued(k) == pending \cup ({claim[k]} \ {NoTask})

\* The renamed file keeps its modification time.
RequeuedAge(k) ==
  IF k \in oldClaim THEN oldPending \cup {claim[k]} ELSE oldPending \ {claim[k]}

\* The rename to pending/; a claim file that is gone is no error.
RequeueClaim(p) ==
  LET k == op[p].token IN
  /\ op[p].pc = "requeue"
  /\ pending' = Requeued(k)
  /\ claim' = [claim EXCEPT ![k] = NoTask]
  /\ stamped' = Cleared(k) /\ oldClaim' = oldClaim \ {k}
  /\ oldPending' = RequeuedAge(k)
  /\ op' = [op EXCEPT ![p].pc = "recycle", ![p].token = NoToken, ![p].task = NoTask]
  /\ UNCHANGED <<enqueued, used, work, lease, acked, accepts, faults>>

\* All claims looked at: a count is done, a claim lists pending/.
EndRecycle(p) ==
  /\ op[p].pc = "recycle" /\ op[p].seen = {}
  /\ op' = [op EXCEPT ![p] = IF op[p].worker = NoWorker THEN IdleOp
                             ELSE [@ EXCEPT !.pc = "pick", !.left = pending]]
  /\ UNCHANGED <<enqueued, files, used, work, lease, acked, accepts, faults>>

\* Read the next pending file and rename it into claims/.  A file that is gone
\* or does not match is skipped; the file keeps its modification time.
NextPending(p, t) == op[p].pc = "pick" /\ t \in op[p].left /\ \A u \in op[p].left : t <= u

SkipPending(p, t) ==
  /\ NextPending(p, t)
  /\ t \notin pending \/ t \notin Matches[op[p].worker]
  /\ op' = [op EXCEPT ![p].left = @ \ {t}]
  /\ UNCHANGED <<enqueued, files, used, work, lease, acked, accepts, faults>>

\* Mutant of Taken: the file is copied into claims/ instead of renamed.
TakenByCopy(t) == pending

Taken(t) == pending \ {t}

TakePending(p, t, k) ==
  /\ NextPending(p, t)
  /\ t \in pending \cap Matches[op[p].worker]
  /\ k \in Token \ used
  /\ used' = used \cup {k}
  /\ pending' = Taken(t) /\ oldPending' = oldPending \ {t}
  /\ claim' = [claim EXCEPT ![k] = t]
  /\ oldClaim' = IF t \in oldPending THEN oldClaim \cup {k} ELSE oldClaim
  /\ op' = [op EXCEPT ![p].pc = "stamp", ![p].token = k, ![p].task = t]
  /\ UNCHANGED <<enqueued, stamped, work, lease, acked, accepts, faults>>

\* Chtimes; a file that is gone is no error.
StampClaim(p) ==
  /\ op[p].pc = "stamp"
  /\ oldClaim' = oldClaim \ {op[p].token}
  /\ op' = [op EXCEPT ![p].pc = "save"]
  /\ UNCHANGED <<enqueued, pending, claim, stamped, oldPending, used, work, lease, acked,
                 accepts, faults>>

\* writeJSONAtomic of the record with the claim; Poll answers the worker, or
\* the answer is lost.
SaveClaim(p) ==
  LET k == op[p].token
      w == op[p].worker
  IN
  /\ op[p].pc = "save"
  /\ claim' = [claim EXCEPT ![k] = op[p].task]
  /\ stamped' = stamped \cup {k}
  /\ \/ /\ work' = [work EXCEPT ![w] = [pc |-> "claimed", proc |-> p, token |-> k,
                                        task |-> op[p].task]]
        /\ UNCHANGED faults
     \/ Fault /\ work' = [work EXCEPT ![w] = IdleWork]
  /\ op' = [op EXCEPT ![p] = IdleOp]
  /\ UNCHANGED <<enqueued, pending, oldPending, oldClaim, used, lease, acked, accepts>>

\* The write fails: the file is renamed back and Poll returns an error.
SaveFails(p) ==
  LET k == op[p].token IN
  /\ op[p].pc = "save"
  /\ Fault
  /\ pending' = Requeued(k)
  /\ claim' = [claim EXCEPT ![k] = NoTask]
  /\ stamped' = Cleared(k) /\ oldClaim' = oldClaim \ {k}
  /\ oldPending' = RequeuedAge(k)
  /\ work' = [work EXCEPT ![op[p].worker] = IdleWork]
  /\ op' = [op EXCEPT ![p] = IdleOp]
  /\ UNCHANGED <<enqueued, used, lease, acked, accepts>>

\* Reading, rewriting or renaming a file fails before anything is claimed: the
\* operation stops where it is and its caller gets the error.
OpFails(p) ==
  /\ op[p].pc \in {"recycle", "rewrite", "requeue", "pick"}
  /\ Fault
  /\ work' = [w \in Worker |-> IF w = op[p].worker THEN IdleWork ELSE work[w]]
  /\ op' = [op EXCEPT ![p] = IdleOp]
  /\ UNCHANGED <<enqueued, files, used, lease, acked, accepts>>

\* Nothing to claim: Poll keeps the worker waiting and tries again later.
NothingPending(p) ==
  /\ op[p].pc = "pick" /\ op[p].left = {}
  /\ work' = [work EXCEPT ![op[p].worker] = IdleWork]
  /\ op' = [op EXCEPT ![p] = IdleOp]
  /\ UNCHANGED <<enqueued, files, used, lease, acked, accepts, faults>>

-----------------------------------------------------------------------------
(* AckTaskClaim, served by the coordinator that owns the claim.             *)

AckStep(w, from, to) == work[w].pc = from /\ work' = [work EXCEPT ![w].pc = to]

\* GetClaim: found, complete and this worker's, or the worker gives up.
GetClaim(w) ==
  LET k == work[w].token IN
  /\ work[w].pc = "claimed"
  /\ \/ claim[k] # NoTask /\ k \in stamped /\ AckStep(w, "claimed", "found")
     \/ (claim[k] = NoTask \/ k \notin stamped) /\ work' = [work EXCEPT ![w] = IdleWork]
  /\ UNCHANGED <<enqueued, files, used, op, lease, acked, accepts, faults>>

UpsertLease(w) ==
  /\ AckStep(w, "found", "leased")
  /\ lease' = [lease EXCEPT ![work[w].task] = w]
  /\ UNCHANGED <<enqueued, files, used, op, acked, accepts, faults>>

\* Mutant of ClaimFreed: DeleteClaim is forgotten.
ClaimFreedNever(k) == claim

ClaimFreed(k) == [claim EXCEPT ![k] = NoTask]

\* DeleteClaim and the answer, which may be lost; a claim file that is gone is
\* no error.
DeleteClaim(w) ==
  LET k == work[w].token
      t == work[w].task
  IN
  /\ work[w].pc = "leased"
  /\ claim' = ClaimFreed(k)
  /\ stamped' = Cleared(k) /\ oldClaim' = oldClaim \ {k}
  /\ acked' = acked \cup {t}
  /\ \/ /\ work' = [work EXCEPT ![w].pc = "running"]
        /\ accepts' = [accepts EXCEPT ![t] = @ + 1]
        /\ UNCHANGED faults
     \/ Fault /\ work' = [work EXCEPT ![w] = IdleWork] /\ UNCHANGED accepts
  /\ UNCHANGED <<enqueued, pending, oldPending, used, op, lease>>

Finish(w) ==
  /\ work[w].pc = "running"
  /\ work' = [work EXCEPT ![w] = IdleWork]
  /\ UNCHANGED <<enqueued, files, used, op, lease, acked, accepts, faults>>

-----------------------------------------------------------------------------
(* Time and faults.                                                         *)

AgePending(t) ==
  /\ t \in pending \ oldPending
  /\ oldPending' = oldPending \cup {t}
  /\ UNCHANGED <<enqueued, pending, claim, stamped, oldClaim, used, op, work, lease, acked,
                 accepts, faults>>

\* A claim some poller may still acknowledge: being made, or being acknowledged.
Held(k) ==
  \/ \E p \in Proc : op[p].token = k /\ op[p].pc \in {"stamp", "save"}
  \/ \E w \in Worker : work[w].token = k /\ work[w].pc \in {"claimed", "found", "leased"}

AgeClaim(k) ==
  /\ k \in Files \ oldClaim
  /\ LateAcks \/ ~Held(k)
  /\ oldClaim' = oldClaim \cup {k}
  /\ UNCHANGED <<enqueued, pending, claim, stamped, oldPending, used, op, work, lease, acked,
                 accepts, faults>>

\* A process dies with whatever it was doing; its clients get an error.
CrashProc(p) ==
  /\ Fault
  /\ op[p] # IdleOp \/ \E w \in Worker : work[w].proc = p /\ work[w].pc \in {"found", "leased"}
  /\ op' = [op EXCEPT ![p] = IdleOp]
  /\ work' = [w \in Worker |-> IF work[w].proc = p /\ work[w].pc \in {"polling", "found", "leased"}
                               THEN IdleWork ELSE work[w]]
  /\ UNCHANGED <<enqueued, files, used, lease, acked, accepts>>

\* A worker dies, or its acknowledgement never reaches the coordinator.  A Poll
\* or an acknowledgement under way goes on without the worker: that is one
\* whose answer is lost.
CrashWorker(w) ==
  /\ Fault
  /\ work[w].pc \in {"claimed", "running"}
  /\ work' = [work EXCEPT ![w] = IdleWork]
  /\ UNCHANGED <<enqueued, files, used, op, lease, acked, accepts>>

ProcStep(p) ==
  \/ \E k \in Token : ReadClaim(p, k)
  \/ RewriteClaim(p) \/ RequeueClaim(p) \/ EndRecycle(p)
  \/ \E t \in Task : SkipPending(p, t) \/ \E k \in Token : TakePending(p, t, k)
  \/ StampClaim(p) \/ SaveClaim(p) \/ SaveFails(p) \/ OpFails(p) \/ NothingPending(p)

AckWork(w) == GetClaim(w) \/ UpsertLease(w) \/ DeleteClaim(w) \/ Finish(w)

Next ==
  \/ \E t \in Task : Enqueue(t) \/ AgePending(t)
  \/ \E p \in Proc : ProcStep(p) \/ StartCount(p) \/ CrashProc(p)
  \/ \E p \in Proc, w \in Worker : StartClaim(p, w)
  \/ \E w \in Worker : AckWork(w) \/ CrashWorker(w)
  \/ \E k \in Token : AgeClaim(k)

Spec == Init /\ [][Next]_vars

\* Every worker keeps polling, the processes serve their requests, and time
\* passes for a claim nobody acknowledges.
Fairness ==
  /\ \A p \in Proc : WF_vars(ProcStep(p))
  /\ \A w \in Worker : SF_vars(\E p \in Proc : StartClaim(p, w)) /\ WF_vars(AckWork(w))
  /\ \A k \in Token : WF_vars(AgeClaim(k))

FairSpec == Spec /\ Fairness

-----------------------------------------------------------------------------
(* Properties.                                                              *)

TypeOK ==
  /\ enqueued \subseteq Task /\ pending \subseteq enqueued
  /\ claim \in [Token -> enqueued \cup {NoTask}]
  /\ stamped \subseteq Files /\ oldClaim \subseteq Files /\ Files \subseteq used
  /\ oldPending \subseteq pending
  /\ acked \subseteq enqueued
  /\ \A p \in Proc : op[p].pc \in {"rewrite", "requeue", "stamp", "save"} <=> op[p].token # NoToken
  /\ \A w \in Worker : work[w].pc \in {"claimed", "found", "leased", "running"}
                         <=> work[w].token # NoToken

\* An enqueued task that no worker has acknowledged has a file: no crash, lost
\* answer or race between recycling and claiming makes it disappear.
NoTaskLost ==
  \A t \in enqueued \ acked : t \in pending \/ \E k \in Token : claim[k] = t

\* A complete claim that has not expired hides its task from every poller.
ClaimHidesTask ==
  \A k \in stamped \ oldClaim :
    /\ claim[k] \notin pending
    /\ \A j \in Files \ {k} : claim[j] # claim[k]

\* No task is handed to a worker for execution twice.
AtMostOnce == \A t \in Task : accepts[t] <= 1

\* Every task is acknowledged in the end, whatever claims expire before.
EventuallyAcked == \A t \in Task : t \in enqueued ~> t \in acked

=============================================================================
