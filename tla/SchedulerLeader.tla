-------------------------- MODULE SchedulerLeader --------------------------
(***************************************************************************)
(* The life of scheduler processes that share a data directory: Start      *)
(* waits for the directory lock, the leader beats it and runs the cron     *)
(* loop, a failed heartbeat fences the leader, Stop gives the lock back.   *)
(* The lock is DirLock; what the cron loop does in a tick is TickPlanner.  *)
(***************************************************************************)
EXTENDS DirLock

CONSTANTS NoInst,        \* no instance
          StartAll       \* instances run by start-all, the others by scheduler

ASSUME LeaderAssumption == NoInst \notin Inst

VARIABLES
  phase,      \* how far Start has come
  lockHeld,   \* Scheduler.lockHeld
  quit,       \* Scheduler.quit is closed and Start's context is cancelled
  stop,       \* how far Stop has come
  cron,       \* the cron loop
  crashed     \* history: some process has died

leaderVars == <<phase, lockHeld, quit, stop, cron, crashed>>
vars == <<lockVars, leaderVars>>

TypeOK ==
  /\ LockTypeOK
  /\ phase \in [Inst -> {"down", "locking", "locked", "startup", "starting",
                         "running", "cleanup", "unlocking", "exited"}]
  /\ lockHeld \in [Inst -> BOOLEAN]
  /\ quit \in [Inst -> BOOLEAN]
  /\ stop \in [Inst -> {"none", "begun", "unlocking", "done"}]
  /\ cron \in [Inst -> {"off", "select", "tick"}]
  /\ crashed \in BOOLEAN
  /\ \A i \in Inst : res[i] # "none" => phase[i] = "locking"

Init ==
  /\ LockInit
  /\ phase = [i \in Inst |-> "down"]
  /\ lockHeld = [i \in Inst |-> FALSE]
  /\ quit = [i \in Inst |-> FALSE]
  /\ stop = [i \in Inst |-> "none"]
  /\ cron = [i \in Inst |-> "off"]
  /\ crashed = FALSE

To(i, p) == phase' = [phase EXCEPT ![i] = p]

-----------------------------------------------------------------------------
(* Start *)

Start(i) ==
  /\ phase[i] = "down"
  /\ To(i, "locking")
  /\ UNCHANGED <<lockVars, lockHeld, quit, stop, cron, crashed>>

\* dirLock.Lock tries until it has the lock, fails or is cancelled.
LockTry(i) ==
  /\ phase[i] = "locking"
  /\ TryLock(i)
  /\ UNCHANGED leaderVars

LockReturns(i) ==
  /\ phase[i] = "locking"
  /\ res[i] # "none"
  /\ res' = [res EXCEPT ![i] = "none"]
  /\ \/ res[i] = "ok" /\ To(i, "locked")
     \/ res[i] = "error" /\ To(i, "exited")
     \/ res[i] = "conflict" /\ ~quit[i] /\ UNCHANGED phase
     \/ res[i] = "conflict" /\ quit[i] /\ To(i, "exited")
  /\ UNCHANGED <<lockDir, pc, fenceToken, beat, takeover, faults,
                 lockHeld, quit, stop, cron, crashed>>

\* Stop may have run between Lock's return and this assignment.
LockHeldStore(i) ==
  /\ phase[i] = "locked"
  /\ lockHeld' = [lockHeld EXCEPT ![i] = TRUE]
  /\ To(i, "startup")
  /\ UNCHANGED <<lockVars, quit, stop, cron, crashed>>

\* Mutant of StartupChecks: the context is not looked at.
StartupUnchecked(i) ==
  /\ phase[i] = "startup"
  /\ To(i, "starting")
  /\ UNCHANGED <<lockVars, lockHeld, quit, stop, cron, crashed>>

\* A Stop that came while Start waited for the lock is noticed here; one that
\* comes later finds lockHeld set.
StartupChecks(i) ==
  /\ phase[i] = "startup"
  /\ To(i, IF quit[i] THEN "cleanup" ELSE "starting")
  /\ UNCHANGED <<lockVars, lockHeld, quit, stop, cron, crashed>>

\* The rest of Start runs through, or the queue watcher or the entry reader
\* does not start.
Started(i) ==
  /\ phase[i] = "starting"
  /\ To(i, "running")
  /\ cron' = [cron EXCEPT ![i] = "select"]
  /\ UNCHANGED <<lockVars, lockHeld, quit, stop, crashed>>

StartupFails(i) ==
  /\ phase[i] = "starting"
  /\ To(i, "cleanup")
  /\ UNCHANGED <<lockVars, lockHeld, quit, stop, cron, crashed>>

\* cleanupFailedStartup ends with releaseDirLock.
CleanupFailedStartup(i) ==
  /\ phase[i] = "cleanup"
  /\ \/ /\ lockHeld[i]
        /\ lockHeld' = [lockHeld EXCEPT ![i] = FALSE]
        /\ UnlockRead(i)
        /\ To(i, "unlocking")
     \/ /\ ~lockHeld[i]
        /\ To(i, "exited")
        /\ UNCHANGED <<lockVars, lockHeld>>
  /\ UNCHANGED <<quit, stop, cron, crashed>>

CleanupUnlocked(i) ==
  /\ phase[i] = "unlocking"
  /\ pc[i] = "idle"
  /\ To(i, "exited")
  /\ UNCHANGED <<lockVars, lockHeld, quit, stop, cron, crashed>>

\* Start returns when its goroutines have ended; the heartbeat's, the zombie
\* detector's and the entry reader's end with quit or the context only.
StartReturns(i) ==
  /\ phase[i] = "running"
  /\ quit[i] /\ cron[i] = "off" /\ beat[i] = "none" /\ pc[i] # "touch"
  /\ To(i, "exited")
  /\ UNCHANGED <<lockVars, lockHeld, quit, stop, cron, crashed>>

-----------------------------------------------------------------------------
(* The leader's goroutines *)

Beating(i) == phase[i] \in {"starting", "running"} /\ ~quit[i]

Heartbeat(i) ==
  /\ Beating(i)
  /\ HeartbeatRead(i)
  /\ UNCHANGED leaderVars

HeartbeatOk(i) ==
  /\ beat[i] = "ok"
  /\ beat' = [beat EXCEPT ![i] = "none"]
  /\ UNCHANGED <<lockDir, pc, fenceToken, res, takeover, faults, leaderVars>>

\* Self-fencing: lockHeld is cleared before Stop, which then leaves the lock
\* of whoever took over alone.
SelfFence(i) ==
  /\ beat[i] = "error"
  /\ beat' = [beat EXCEPT ![i] = "none"]
  /\ lockHeld' = [lockHeld EXCEPT ![i] = FALSE]
  /\ quit' = [quit EXCEPT ![i] = TRUE]
  /\ stop' = [stop EXCEPT ![i] = IF @ = "none" THEN "begun" ELSE @]
  /\ UNCHANGED <<lockDir, pc, fenceToken, res, takeover, faults,
                 phase, cron, crashed>>

\* When several channels of the loop's select are ready, any may be chosen:
\* a due tick even after quit.
CronTick(i) ==
  /\ cron[i] = "select"
  /\ cron' = [cron EXCEPT ![i] = "tick"]
  /\ UNCHANGED <<lockVars, phase, lockHeld, quit, stop, crashed>>

CronTickEnds(i) ==
  /\ cron[i] = "tick"
  /\ cron' = [cron EXCEPT ![i] = "select"]
  /\ UNCHANGED <<lockVars, phase, lockHeld, quit, stop, crashed>>

CronQuits(i) ==
  /\ cron[i] = "select"
  /\ quit[i]
  /\ cron' = [cron EXCEPT ![i] = "off"]
  /\ UNCHANGED <<lockVars, phase, lockHeld, quit, stop, crashed>>

-----------------------------------------------------------------------------
(* The end of a process *)

\* start-all calls Stop on a signal, whatever Start is doing.
StopBegins(i) ==
  /\ i \in StartAll
  /\ phase[i] \notin {"down", "exited"}
  /\ stop[i] = "none"
  /\ Fault
  /\ quit' = [quit EXCEPT ![i] = TRUE]
  /\ stop' = [stop EXCEPT ![i] = "begun"]
  /\ UNCHANGED <<lockDir, pc, fenceToken, res, beat, takeover,
                 phase, lockHeld, cron, crashed>>

\* The scheduler command only tells the cron loop of the signal.
Signal(i) ==
  /\ i \notin StartAll
  /\ phase[i] = "running" /\ cron[i] = "select"
  /\ Fault
  /\ cron' = [cron EXCEPT ![i] = "off"]
  /\ UNCHANGED <<lockDir, pc, fenceToken, res, beat, takeover,
                 phase, lockHeld, quit, stop, crashed>>

\* releaseDirLock, by compare-and-swap of lockHeld.
StopReleases(i) ==
  /\ stop[i] = "begun"
  /\ \/ /\ lockHeld[i]
        /\ lockHeld' = [lockHeld EXCEPT ![i] = FALSE]
        /\ UnlockRead(i)
        /\ stop' = [stop EXCEPT ![i] = "unlocking"]
     \/ /\ ~lockHeld[i]
        /\ stop' = [stop EXCEPT ![i] = "done"]
        /\ UNCHANGED <<lockVars, lockHeld>>
  /\ UNCHANGED <<phase, quit, cron, crashed>>

StopReturns(i) ==
  /\ stop[i] = "unlocking"
  /\ pc[i] = "idle"
  /\ stop' = [stop EXCEPT ![i] = "done"]
  /\ UNCHANGED <<lockVars, phase, lockHeld, quit, cron, crashed>>

\* The process dies and is started again.
Crash(i) ==
  /\ phase[i] \notin {"down", "exited"}
  /\ Die(i)
  /\ To(i, "down")
  /\ lockHeld' = [lockHeld EXCEPT ![i] = FALSE]
  /\ quit' = [quit EXCEPT ![i] = FALSE]
  /\ stop' = [stop EXCEPT ![i] = "none"]
  /\ cron' = [cron EXCEPT ![i] = "off"]
  /\ crashed' = TRUE

\* Every process has ended.
Finished ==
  /\ \A i \in Inst : phase[i] = "exited" /\ stop[i] \in {"none", "done"}
  /\ UNCHANGED vars

-----------------------------------------------------------------------------
\* The goroutine of Start, the heartbeat's, and the one that calls Stop.
StartStep(i) ==
  \/ Start(i) \/ LockTry(i) \/ LockReturns(i) \/ LockHeldStore(i)
  \/ StartupChecks(i) \/ Started(i)
  \/ CleanupFailedStartup(i) \/ CleanupUnlocked(i) \/ StartReturns(i)

BeatStep(i) == Heartbeat(i) \/ HeartbeatOk(i) \/ SelfFence(i)

StopStep(i) == StopReleases(i) \/ StopReturns(i)

Next ==
  \/ Age /\ UNCHANGED leaderVars
  \/ \E i \in Inst :
       \/ CallStep(i) /\ UNCHANGED leaderVars
       \/ StartStep(i) \/ StartupFails(i)
       \/ BeatStep(i)
       \/ CronTick(i) \/ CronTickEnds(i) \/ CronQuits(i)
       \/ StopStep(i)
       \/ StopBegins(i) \/ Signal(i) \/ Crash(i)
  \/ Finished

Spec == Init /\ [][Next]_vars

(***************************************************************************)
(* Go runs every goroutine that can run, so a call under way and a step    *)
(* of a process happen eventually; the heartbeat is a ticker's, and a loop *)
(* whose quit is closed finds it.  An abandoned lock grows old.            *)
(***************************************************************************)
FairSpec ==
  /\ Spec
  /\ WF_vars(Age /\ ~OwnerAlive /\ UNCHANGED leaderVars)
  /\ \A i \in Inst :
       /\ WF_vars(CallStep(i) /\ UNCHANGED leaderVars)
       /\ WF_vars(StartStep(i))
       /\ WF_vars(BeatStep(i))
       /\ WF_vars(StopStep(i))
       /\ WF_vars(CronTickEnds(i))
       /\ SF_vars(CronQuits(i))

-----------------------------------------------------------------------------
(* Properties *)

\* The directory lock, driven by the schedulers, implements the fenced lock:
\* a scheduler whose token is gone only ever notices (dirlock.go:162 "The
\* fence token lets us detect ownership loss").
Owner == IF \E i \in Inst : Owns(i) THEN CHOOSE i \in Inst : Owns(i) ELSE NoInst

Fenced == INSTANCE FencedLock WITH owner <- Owner,
                                   claimants <- {i \in Inst : IsHeld(i)}

ImplementsFencedLock == Fenced!Spec

\* Two schedulers believe in the lock at once only after one of them took
\* over a lock it had found stale: Mkdir alone never lets two in.
TwoHoldersMeansTakeover ==
  \A i, j \in Inst : i # j /\ IsHeld(i) /\ IsHeld(j) => takeover

\* Start or Stop has not returned.
Alive(i) == phase[i] # "exited" \/ stop[i] \in {"begun", "unlocking"}

\* As long as no process dies, every lock directory is somebody's: of a
\* scheduler that has not ended and believes in it, or of a call under way.
\* Stop and the cleanup of a failed start leave none behind, in whatever
\* moment of Start they come.
NoOrphanLock ==
  ~crashed /\ lockDir # NoDir =>
    \E i \in Inst : \/ Alive(i) /\ Owns(i)
                    \/ pc[i] # "idle"

Leads(i) == phase[i] = "running" /\ Owns(i)

\* Two schedulers plan and dispatch at the same moment only after a takeover,
\* or when one of them is on its way out: Stop gives the lock back without
\* waiting for the tick its cron loop is in (scheduler.go:43 "File-based lock
\* to prevent multiple scheduler instances").
TwoTicksExplained ==
  \A i, j \in Inst :
    i # j /\ cron[i] = "tick" /\ cron[j] = "tick" => takeover \/ quit[i] \/ quit[j]

\* Failover: while somebody waits for the lock, somebody leads, sooner or
\* later, however the leader before ended.
Failover ==
  (\E i \in Inst : phase[i] = "locking")
    ~> \/ \E j \in Inst : Leads(j)
       \/ \A i \in Inst : phase[i] # "locking"

\* Two schedulers that both believe in the lock do not go on doing so: the
\* one that lost it finds out at its next heartbeat and ends.
Believes(i) == IsHeld(i) /\ Alive(i)

TwoHoldersEnd ==
  \A i, j \in Inst : i # j =>
    (Believes(i) /\ Believes(j) ~> ~(Believes(i) /\ Believes(j)))
=============================================================================
