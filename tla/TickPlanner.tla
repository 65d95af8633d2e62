----------------------------- MODULE TickPlanner -----------------------------
(***************************************************************************)
(* The scheduler's tick planner for one DAG: the cron loop that plans,     *)
(* dispatches and advances the watermark minute by minute, the catch-up    *)
(* buffer, one-off schedules, DAG change events, the flusher, and the file *)
(* the watermark is kept in between two lives of the scheduler.  Time is   *)
(* counted in minutes; minute 0 is Go's zero time and MaxTime stands for   *)
(* every later minute, which has no schedule.  Queue and processes are     *)
(* what the planner sees of them.                                          *)
(***************************************************************************)
EXTENDS Integers, Sequences, SequencesExt, FiniteSetsExt

CONSTANTS
  MaxTime,    \* bound: minutes
  DAGs,       \* the DAG definitions to look at
  MaxMissed,  \* MaxMissedRuns and DefaultMaxBufferItems
  MaxFaults   \* bound: failures, delays, stops, edits and suspensions

Time == 0 .. MaxTime
Minutes == 1 .. MaxTime - 1

\* What the planner reads of a DAG: the minutes of its start, stop and restart
\* schedules, the minute of its one-off (0 for none), the catch-up window (0
\* for none), OverlapPolicy and SkipIfSuccessful.
DAG == [start : SUBSET Minutes, stop : SUBSET Minutes, restart : SUBSET Minutes,
        oneOff : 0 .. MaxTime - 1, window : Nat,
        policy : {"skip", "all", "latest"}, skipIfSuccessful : BOOLEAN]

ASSUME TickPlannerAssumption ==
  /\ MaxTime \in Nat \ {0} /\ MaxMissed \in Nat \ {0} /\ MaxFaults \in Nat
  /\ DAGs \subseteq DAG

\* SchedulerState, with the DAGWatermark of the one DAG.
State == [lastTick : Time, last : Time, oneOff : {"none", "pending", "consumed"}]
NoState == [lastTick |-> 0, last |-> 0, oneOff |-> "none"]

\* Catch-up runs have the id of their slot, the one-off run has id 0.
OneOff == 0
RunId == Minutes \cup {OneOff}

\* PlannedRun: what and for which minute.
Run == [kind : {"catchup", "live", "oneoff", "stop", "restart"}, slot : Time]
Planned(k, s) == [kind |-> k, slot |-> s]

VARIABLES
  clock,      \* the wall clock
  phase,      \* "down", "up", "stopping" in Stop, "stopped" after its flush
  dag,        \* the DAG's definition
  entry,      \* the DAG's file exists; when up, the planner has its entry
  suspended,  \* the suspension flag
  wm,         \* watermarkState
  dirty,      \* watermarkDirty
  saves,      \* Flush calls under way: who, what they save, how far
  disk,       \* the state file
  buffer,     \* the catch-up buffer
  tickTime,   \* the tick the cron loop waits for or works on
  cron,       \* the cron loop
  plan,       \* lastPlanResult
  gos,        \* goroutines that dispatch a run: what, in which tick, how far
  rec,        \* history records of catch-up runs and of the one-off
  queue,      \* catch-up runs in the queue
  starting,   \* processes spawned that have not registered yet
  procs,      \* processes alive
  latest,     \* the latest attempt: run, minute queued and started, success
  spawned,    \* history: how often a live or one-off run was spawned
  upset,      \* history: a tick, a plan or an attempt was cut short or straddled,
              \* two saves overlapped, or an update came while ticks were late
  suspendedAt,\* history: the last tick that found the DAG suspended
  faults

vars == <<clock, phase, dag, entry, suspended, wm, dirty, saves, disk, buffer,
          tickTime, cron, plan, gos, rec, queue, starting, procs, latest, spawned,
          upset, suspendedAt, faults>>
input == <<clock, dag, entry, suspended>>
runtime == <<rec, queue, starting, procs, latest>>
history == <<spawned, upset, suspendedAt>>

NoLatest == [run |-> Planned("live", 0), queued |-> 0, at |-> 0, ok |-> FALSE]

Init ==
  /\ clock = 1 /\ phase = "down"
  /\ dag \in DAGs
  /\ entry = TRUE /\ suspended = FALSE
  /\ wm = NoState /\ dirty = FALSE /\ saves = {}
  /\ disk = NoState
  /\ buffer = <<>> /\ tickTime = 0 /\ cron = "select" /\ plan = {}
  /\ gos = {}
  /\ rec = [r \in RunId |-> "none"]
  /\ queue = {} /\ starting = {} /\ procs = {}
  /\ latest = NoLatest
  /\ spawned = [r \in RunId |-> 0]
  /\ upset = {} /\ suspendedAt = 0
  /\ faults = 0

\* Suspending and deleting are bounded, what undoes them is free.
Fault == faults < MaxFaults /\ faults' = faults + 1
Alive == phase # "down"

\* Plan and events exclude each other: drainEvents holds entryMu while it
\* flushes, Plan while it evaluates the DAG.
EntryMuFree == cron # "live" /\ \A f \in saves : f.by # "event"

-----------------------------------------------------------------------------
(* The watermark *)

\* advanceDAGWatermark, wherever the state comes from.
AdvanceDAGWatermark(w, t) == [w EXCEPT !.last = t]

\* reconcileOneOffState: a one-off that is new is pending only when its time
\* has not come.
ReconcileOneOff(w) ==
  [w EXCEPT !.oneOff =
     IF dag.oneOff = 0 THEN "none"
     ELSE IF @ # "none" THEN @
     ELSE IF dag.oneOff > clock THEN "pending" ELSE "consumed"]

ComputeReplayFrom(w) == Max({clock - dag.window, w.lastTick, w.last})

Chronological(S) ==
  CHOOSE q \in [1 .. Cardinality(S) -> S] : \A i, j \in DOMAIN q : i < j => q[i] < q[j]

\* Mutant of ComputeMissedIntervals: the start of the interval counts.
ComputeMissedInclusive(from, to) ==
  LET due == Chronological({s \in dag.start : from <= s /\ s <= to})
  IN  IF Len(due) > MaxMissed THEN SubSeq(due, Len(due) - MaxMissed + 1, Len(due)) ELSE due

\* The slots of the interval in order, the most recent ones when too many.
ComputeMissedIntervals(from, to) ==
  LET due == Chronological({s \in dag.start : from < s /\ s <= to})
  IN  IF Len(due) > MaxMissed THEN SubSeq(due, Len(due) - MaxMissed + 1, Len(due)) ELSE due

\* DropAllButLast for policy latest: the buffer that remains and the
\* watermark moved past what was dropped.
Collapse(w, b) ==
  IF dag.policy = "latest" /\ Len(b) > 1
  THEN [wm |-> AdvanceDAGWatermark(w, b[Len(b) - 1]), buffer |-> <<Last(b)>>]
  ELSE [wm |-> w, buffer |-> b]

\* initBuffers and recomputeBuffer.
Recompute(w) ==
  IF dag.window = 0 THEN [wm |-> w, buffer |-> <<>>]
  ELSE Collapse(w, ComputeMissedIntervals(ComputeReplayFrom(w), clock))

\* What every writer of the state does with it.
SetWatermark(w) == wm' = w /\ dirty' = (dirty \/ w # wm)

-----------------------------------------------------------------------------
(* Flush takes a snapshot under the lock and saves it after *)

FlushBegins(who, w, d) == saves' = IF d THEN saves \cup {[by |-> who, state |-> w]} ELSE saves

\* The ticker's flush.  Stop cancels the ticker.
FlushTimer ==
  /\ phase = "up" /\ dirty
  /\ \A f \in saves : f.by # "timer"
  /\ dirty' = FALSE
  /\ FlushBegins("timer", wm, TRUE)
  /\ UNCHANGED <<input, phase, wm, disk, buffer, tickTime, cron, plan, gos, runtime, history, faults>>

\* Nothing orders the writes of two Flush calls: the older snapshot may be the
\* one that stays.
Save(f) ==
  /\ f \in saves
  /\ saves' = saves \ {f}
  /\ disk' = f.state
  /\ upset' = upset \cup (IF \E h \in saves : h.state # f.state THEN {"save"} ELSE {})
  /\ UNCHANGED <<input, phase, wm, dirty, buffer, tickTime, cron, plan, gos, runtime,
                 spawned, suspendedAt, faults>>

SaveFails(f) ==
  /\ f \in saves
  /\ Fault
  /\ saves' = saves \ {f}
  /\ dirty' = TRUE
  /\ UNCHANGED <<input, phase, wm, disk, buffer, tickTime, cron, plan, gos, runtime, history>>

-----------------------------------------------------------------------------
(* The life of the scheduler *)

\* Scheduler.Start and TickPlanner.Init: load, reconcile, fill the buffer; the
\* first tick is the current minute.
Start ==
  /\ phase = "down"
  /\ LET loaded == IF entry THEN ReconcileOneOff(disk)
                   ELSE [disk EXCEPT !.last = 0, !.oneOff = "none"]
         init == IF entry THEN Recompute(loaded) ELSE [wm |-> loaded, buffer |-> <<>>]
     IN  /\ wm' = init.wm /\ buffer' = init.buffer
         /\ dirty' = (loaded = disk /\ init.wm # loaded)
         /\ disk' = IF loaded # disk THEN init.wm ELSE disk
  /\ phase' = "up"
  /\ tickTime' = clock
  /\ UNCHANGED <<input, saves, cron, plan, gos, runtime, history, faults>>

\* Stop ends the flusher and the event loop and flushes a last time.  It does
\* not wait for the tick the cron loop is in.
StopBegins ==
  /\ phase = "up"
  /\ Fault
  /\ phase' = "stopping"
  /\ UNCHANGED <<input, wm, dirty, saves, disk, buffer, tickTime, cron, plan, gos, runtime, history>>

StopFlushes ==
  /\ phase = "stopping"
  /\ \A f \in saves : f.by \notin {"timer", "event"}
  /\ phase' = "stopped"
  /\ dirty' = FALSE
  /\ FlushBegins("final", wm, dirty)
  /\ UNCHANGED <<input, wm, disk, buffer, tickTime, cron, plan, gos, runtime, history, faults>>

\* What is in memory is gone.
Forget ==
  /\ phase' = "down"
  /\ wm' = NoState /\ dirty' = FALSE /\ saves' = {}
  /\ buffer' = <<>> /\ tickTime' = 0 /\ cron' = "select" /\ plan' = {} /\ gos' = {}

\* The process ends once Start has returned, which waits for the cron loop.  A
\* tick that ended after the final flush is forgotten, and a process that was
\* spawned may not have registered yet.
Exit ==
  /\ phase = "stopped" /\ cron = "select"
  /\ saves = {}
  /\ Forget
  /\ upset' = upset \cup (IF dirty \/ starting # {} THEN {"tick"} ELSE {})
  /\ UNCHANGED <<input, disk, runtime, spawned, suspendedAt, faults>>

\* The scheduler dies.  An attempt it was creating remains as it is.
Crash ==
  /\ Alive
  /\ Fault
  /\ Forget
  /\ upset' = upset \cup {"tick"} \cup (IF cron \in {"created", "queued"} THEN {"attempt"} ELSE {})
  /\ latest' = IF cron \in {"created", "queued"}
               THEN [NoLatest EXCEPT !.run = CHOOSE r \in plan : TRUE, !.queued = clock] ELSE latest
  /\ UNCHANGED <<input, disk, rec, queue, starting, procs, spawned, suspendedAt>>

-----------------------------------------------------------------------------
(* Plan *)

Busy == procs # {} \/ queue # {}

TickDue ==
  /\ Alive /\ cron = "select"
  /\ tickTime <= clock
  /\ EntryMuFree

\* Plan leaves the catch-up buffer b, plans p and goes on at pc.
Planning(pc, w, b, p) ==
  /\ cron' = pc /\ plan' = p /\ buffer' = b
  /\ SetWatermark(w)
  /\ UNCHANGED <<input, phase, saves, disk, tickTime, gos, runtime, spawned, upset, faults>>

PlanNothing ==
  /\ TickDue /\ ~entry
  /\ Planning("dispatch", wm, buffer, {})
  /\ UNCHANGED suspendedAt

\* Mutant of PlanSuspended: the buffer is kept.
PlanSuspendedKeeps ==
  /\ TickDue /\ entry /\ suspended
  /\ Planning("dispatch", wm, buffer, {})
  /\ suspendedAt' = tickTime

\* dropSuspendedCatchupState.
PlanSuspended ==
  /\ TickDue /\ entry /\ suspended
  /\ Planning("dispatch",
              IF buffer # <<>> \/ dag.window > 0 THEN AdvanceDAGWatermark(wm, tickTime) ELSE wm,
              <<>>, {})
  /\ suspendedAt' = tickTime

\* Mutant of PlanCatchup: the item is looked at, not taken.
PlanCatchupPeeks ==
  /\ TickDue /\ entry /\ ~suspended
  /\ buffer # <<>> /\ ~Busy
  /\ Planning("dispatch", wm, buffer, {Planned("catchup", Head(buffer))})
  /\ UNCHANGED suspendedAt

\* The front item becomes a run; live schedules wait for the next tick.
PlanCatchup ==
  /\ TickDue /\ entry /\ ~suspended
  /\ buffer # <<>> /\ ~Busy
  /\ LET c == Collapse(wm, buffer)
     IN  Planning("dispatch", c.wm, Tail(c.buffer), {Planned("catchup", Head(c.buffer))})
  /\ UNCHANGED suspendedAt

\* IsRunning fails, which counts as not running.
PlanCatchupBlind ==
  /\ TickDue /\ entry /\ ~suspended
  /\ buffer # <<>> /\ procs # {} /\ queue = {}
  /\ Fault
  /\ LET c == Collapse(wm, buffer)
     IN  /\ buffer' = Tail(c.buffer) /\ SetWatermark(c.wm)
         /\ plan' = {Planned("catchup", Head(c.buffer))}
  /\ cron' = "dispatch"
  /\ UNCHANGED <<input, phase, saves, disk, tickTime, gos, runtime, history>>

\* The DAG is busy: skip drops the item, all keeps it, latest keeps the last.
PlanBusy ==
  /\ TickDue /\ entry /\ ~suspended
  /\ buffer # <<>> /\ Busy
  /\ LET c == Collapse(wm, buffer)
     IN  IF dag.policy = "skip"
         THEN Planning("live", AdvanceDAGWatermark(wm, Head(buffer)), Tail(buffer), {})
         ELSE Planning("live", c.wm, c.buffer, {})
  /\ UNCHANGED suspendedAt

PlanNoCatchup ==
  /\ TickDue /\ entry /\ ~suspended
  /\ buffer = <<>>
  /\ Planning("live", wm, buffer, {})
  /\ UNCHANGED suspendedAt

\* IsQueued fails: the item and the live schedules wait for the next tick.
PlanDeferred ==
  /\ TickDue /\ entry /\ ~suspended /\ buffer # <<>>
  /\ Fault
  /\ cron' = "dispatch" /\ plan' = {}
  /\ UNCHANGED <<input, phase, wm, dirty, saves, disk, buffer, tickTime, gos, runtime, history>>

Restarts == {Planned("restart", s) : s \in {tickTime} \cap dag.restart}

\* A check of the live half fails: nothing is started or stopped.
PlanLiveFails ==
  /\ Alive /\ cron = "live"
  /\ Fault
  /\ plan' = Restarts
  /\ cron' = "dispatch"
  /\ UNCHANGED <<input, phase, wm, dirty, saves, disk, buffer, tickTime, gos, runtime, history>>

PrevExecTime(s) == Max({0} \cup {t \in dag.start : t < s})

ShouldRunOneOff == procs = {} /\ queue = {}

\* Not running, not queued, and no later run has started; a success since the
\* schedule before counts when the DAG says so.
ShouldRun(s) ==
  /\ procs = {} /\ queue = {}
  /\ latest.at < s
  /\ ~(dag.skipIfSuccessful /\ latest.ok /\ PrevExecTime(s) <= latest.at)

OneOffDue == wm.oneOff = "pending" /\ dag.oneOff <= tickTime /\ ShouldRunOneOff

\* shouldPreferStartCandidate: a due one-off is never later than the slot.
StartCandidates ==
  IF OneOffDue THEN {Planned("oneoff", dag.oneOff)}
  ELSE IF tickTime \in dag.start /\ ShouldRun(tickTime) THEN {Planned("live", tickTime)}
  ELSE {}

\* The live half of Plan.
PlanLive ==
  /\ Alive /\ cron = "live"
  /\ plan' = StartCandidates
             \cup {Planned("stop", s) : s \in {tickTime} \cap {t \in dag.stop : procs # {}}}
             \cup Restarts
  /\ cron' = "dispatch"
  /\ upset' = upset \cup (IF buffer # <<>> /\ ~Busy THEN {"plan"} ELSE {})
  /\ UNCHANGED <<input, phase, wm, dirty, saves, disk, buffer, tickTime, gos, runtime, spawned, suspendedAt, faults>>

-----------------------------------------------------------------------------
(* Dispatching and advancing *)

InPlan(k) == {r \in plan : r.kind = k}
CatchupSlot == (CHOOSE r \in InPlan("catchup") : TRUE).slot

\* Runs that are no catch-ups are dispatched by goroutines.
DispatchRuns ==
  /\ Alive /\ cron = "dispatch" /\ InPlan("catchup") = {}
  /\ gos' = gos \cup {[run |-> r, tick |-> tickTime, pc |-> "begin"] : r \in plan}
  /\ cron' = "advance"
  /\ UNCHANGED <<input, phase, wm, dirty, saves, disk, buffer, tickTime, plan, runtime, history, faults>>

\* DispatchRun of a catch-up: it is dropped when the DAG is suspended by now,
\* and nothing is done when FindAttempt finds it.
DispatchCatchup ==
  /\ Alive /\ cron = "dispatch" /\ InPlan("catchup") # {}
  /\ \/ /\ suspended \/ rec[CatchupSlot] \notin {"none", "created"}
        /\ SetWatermark(AdvanceDAGWatermark(wm, CatchupSlot))
        /\ cron' = "advance"
     \/ /\ ~suspended /\ rec[CatchupSlot] \in {"none", "created"}
        /\ cron' = "create"
        /\ UNCHANGED <<wm, dirty>>
  /\ UNCHANGED <<input, phase, saves, disk, buffer, tickTime, plan, gos, runtime, history, faults>>

\* EnqueueCatchupRun creates the attempt, writes its status and queues it.
CreateAttempt ==
  /\ cron = "create" /\ rec[CatchupSlot] = "none"
  /\ rec' = [rec EXCEPT ![CatchupSlot] = "created"]
  /\ cron' = "created"
  /\ UNCHANGED <<input, phase, wm, dirty, saves, disk, buffer, tickTime, plan, gos,
                 queue, starting, procs, latest, history, faults>>

WriteQueued ==
  /\ cron = "created"
  /\ rec' = [rec EXCEPT ![CatchupSlot] = "queued"]
  /\ cron' = "queued"
  /\ UNCHANGED <<input, phase, wm, dirty, saves, disk, buffer, tickTime, plan, gos,
                 queue, starting, procs, latest, history, faults>>

Enqueue ==
  /\ cron = "queued"
  /\ queue' = queue \cup {CatchupSlot}
  /\ latest' = [NoLatest EXCEPT !.run = Planned("catchup", CatchupSlot), !.queued = clock]
  /\ SetWatermark(AdvanceDAGWatermark(wm, CatchupSlot))
  /\ cron' = "advance"
  /\ UNCHANGED <<input, phase, saves, disk, buffer, tickTime, plan, gos,
                 rec, starting, procs, history, faults>>

\* Mutant of Rollback: the attempt stays.
RollbackNot == UNCHANGED rec

\* RemoveDAGRun: the attempt is taken back.
Rollback == rec' = [rec EXCEPT ![CatchupSlot] = "none"]

\* Mutant of Reinsert: at the back.
ReinsertLast(b, s) == IF Len(b) < MaxMissed THEN Append(b, s) ELSE b

\* reinsertCatchupItem: at the front, unless the buffer is full.
Reinsert(b, s) == IF Len(b) < MaxMissed THEN <<s>> \o b ELSE b

\* CreateAttempt finds the directory of an attempt without a status, which
\* FindAttempt does not count.
EnqueueExists ==
  /\ cron = "create" /\ rec[CatchupSlot] = "created"
  /\ EntryMuFree
  /\ buffer' = Reinsert(buffer, CatchupSlot)
  /\ cron' = "advance"
  /\ UNCHANGED <<input, phase, wm, dirty, saves, disk, tickTime, plan, gos, runtime, history, faults>>

EnqueueFails ==
  /\ cron \in {"create", "created", "queued"}
  /\ cron = "create" => rec[CatchupSlot] = "none"
  /\ EntryMuFree
  /\ Fault
  /\ Rollback
  /\ buffer' = Reinsert(buffer, CatchupSlot)
  /\ cron' = "advance"
  /\ UNCHANGED <<input, phase, wm, dirty, saves, disk, tickTime, plan, gos,
                 queue, starting, procs, latest, history>>

Advance ==
  /\ Alive /\ cron = "advance"
  /\ wm' = [wm EXCEPT !.lastTick = tickTime,
                      !.last = IF InPlan("live") # {} THEN tickTime ELSE @]
  /\ dirty' = TRUE
  /\ plan' = {}
  /\ tickTime' = IF tickTime < MaxTime THEN tickTime + 1 ELSE tickTime
  /\ cron' = "select"
  /\ UNCHANGED <<input, phase, saves, disk, buffer, gos, runtime, history, faults>>

-----------------------------------------------------------------------------
(* Goroutines that dispatch: DispatchRun for live, one-off, stop, restart *)

IdOf(r) == IF r.kind = "oneoff" THEN OneOff ELSE r.slot

GoTo(g, pc) == gos' = (gos \ {g}) \cup {[g EXCEPT !.pc = pc]}

Managed(r) == r.kind \in {"live", "oneoff"}

\* A run the scheduler manages is not dispatched when its DAG is suspended.
GoEnds(g) ==
  /\ g \in gos /\ g.pc = "begin"
  /\ Managed(g.run) /\ suspended
  /\ gos' = gos \ {g}
  /\ UNCHANGED <<input, phase, wm, dirty, saves, disk, buffer, tickTime, cron, plan, runtime, history, faults>>

\* A one-off whose run exists is only marked.
GoExists(g) ==
  /\ g \in gos /\ g.pc = "begin"
  /\ g.run.kind = "oneoff" /\ ~suspended /\ rec[OneOff] # "none"
  /\ GoTo(g, "mark")
  /\ UNCHANGED <<input, phase, wm, dirty, saves, disk, buffer, tickTime, cron, plan, runtime, history, faults>>

\* The process is spawned; its record appears later.
GoSpawns(g) ==
  /\ g \in gos /\ g.pc = "begin"
  /\ Managed(g.run) /\ ~suspended
  /\ g.run.kind = "oneoff" => rec[OneOff] = "none"
  /\ starting' = starting \cup {g.run}
  /\ spawned' = [spawned EXCEPT ![IdOf(g.run)] = IF @ < 2 THEN @ + 1 ELSE @]
  /\ IF g.run.kind = "oneoff" THEN GoTo(g, "mark") ELSE gos' = gos \ {g}
  /\ UNCHANGED <<input, phase, wm, dirty, saves, disk, buffer, tickTime, cron, plan,
                 rec, queue, procs, latest, upset, suspendedAt, faults>>

\* Mutant of GoFails: a one-off is consumed although nothing was spawned.
GoFailsConsumed(g) ==
  /\ g \in gos /\ g.pc = "begin" /\ ~(Managed(g.run) /\ suspended)
  /\ Fault
  /\ IF g.run.kind = "oneoff" THEN GoTo(g, "mark") ELSE gos' = gos \ {g}
  /\ UNCHANGED <<input, phase, wm, dirty, saves, disk, buffer, tickTime, cron, plan, runtime, history>>

\* A check or the dispatch fails: a live slot is lost, a one-off stays pending.
GoFails(g) ==
  /\ g \in gos /\ g.pc = "begin" /\ ~(Managed(g.run) /\ suspended)
  /\ Fault
  /\ gos' = gos \ {g}
  /\ UNCHANGED <<input, phase, wm, dirty, saves, disk, buffer, tickTime, cron, plan, runtime, history>>

\* markOneOffConsumed and a flush.
GoMarks(g) ==
  /\ g \in gos /\ g.pc = "mark"
  /\ gos' = gos \ {g}
  /\ wm' = [wm EXCEPT !.oneOff = "consumed"]
  /\ LET marked == wm.oneOff # "consumed"
     IN  /\ dirty' = (dirty /\ ~marked)
         /\ FlushBegins("dispatch", wm', marked)
  /\ UNCHANGED <<input, phase, disk, buffer, tickTime, cron, plan, runtime, history, faults>>

\* Manager.Stop ends every run of the DAG that is alive; the restart command
\* ends the running one and starts another.
GoStops(g) ==
  /\ g \in gos /\ g.run.kind \in {"stop", "restart"}
  /\ gos' = gos \ {g}
  /\ procs' = {}
  /\ starting' = IF g.run.kind = "restart" /\ procs # {} THEN starting \cup {g.run} ELSE starting
  /\ rec' = [r \in RunId |-> IF rec[r] = "running" THEN "ended" ELSE rec[r]]
  /\ UNCHANGED <<input, phase, wm, dirty, saves, disk, buffer, tickTime, cron, plan,
                 queue, latest, history, faults>>

-----------------------------------------------------------------------------
(* DAG files *)

\* The events the entry reader sends for a file, and what handleEvent does.
Event(w, b, e, flush) ==
  /\ phase = "up" /\ EntryMuFree
  /\ IF entry THEN Fault ELSE UNCHANGED faults
  /\ entry' = e /\ wm' = w /\ buffer' = b
  /\ LET d == dirty \/ w # wm
     IN  /\ dirty' = (d /\ ~flush)
         /\ FlushBegins("event", w, flush /\ d)
  /\ UNCHANGED <<clock, phase, dag, suspended, disk, tickTime, cron, plan, gos, runtime, spawned, suspendedAt>>

DAGAdded ==
  /\ ~entry
  /\ Event(ReconcileOneOff(AdvanceDAGWatermark(wm, clock)), buffer, TRUE, TRUE)
  /\ UNCHANGED upset

\* An update while a tick is under way finds the old watermark; one that comes
\* while the loop is behind the clock buffers minutes the loop has yet to reach.
DAGUpdated ==
  /\ entry
  /\ LET r == Recompute(wm)
     IN  Event(ReconcileOneOff(r.wm), r.buffer, TRUE, ReconcileOneOff(r.wm) # wm)
  /\ upset' = upset \cup (IF cron # "select" THEN {"tick"} ELSE {})
                    \cup (IF tickTime < clock THEN {"late"} ELSE {})

DAGDeleted ==
  /\ entry
  /\ Event([wm EXCEPT !.last = 0, !.oneOff = "none"], <<>>, FALSE, TRUE)
  /\ UNCHANGED upset

\* The file comes or goes while no scheduler runs.
FileChanges ==
  /\ phase = "down"
  /\ IF entry THEN Fault ELSE UNCHANGED faults
  /\ entry' = ~entry
  /\ UNCHANGED <<clock, phase, dag, suspended, wm, dirty, saves, disk, buffer, tickTime,
                 cron, plan, gos, runtime, history>>

ToggleSuspended ==
  /\ IF suspended THEN UNCHANGED faults ELSE Fault
  /\ suspended' = ~suspended
  /\ UNCHANGED <<clock, phase, dag, entry, wm, dirty, saves, disk, buffer, tickTime,
                 cron, plan, gos, runtime, history>>

-----------------------------------------------------------------------------
(* What the planner sees of the rest of the system *)

\* A minute suffices for a tick, its dispatches and a flush; when it does not,
\* the scheduler was held up.
Settled ==
  Alive => cron = "select" /\ tickTime > clock /\ ~dirty /\ saves = {} /\ gos = {}

TimePasses ==
  /\ clock < MaxTime
  /\ clock' = clock + 1
  /\ IF Settled THEN UNCHANGED faults ELSE Fault
  /\ UNCHANGED <<phase, dag, entry, suspended, wm, dirty, saves, disk, buffer, tickTime,
                 cron, plan, gos, runtime, history>>

\* The process registers and writes its record; a second one-off of the same
\* id finds the record and gives up.
ProcessStarts(r) ==
  /\ r \in starting
  /\ starting' = starting \ {r}
  /\ IF r.kind = "oneoff" /\ rec[OneOff] # "none"
     THEN UNCHANGED <<procs, rec, latest>>
     ELSE /\ procs' = procs \cup {r}
          /\ rec' = IF r.kind = "oneoff" THEN [rec EXCEPT ![OneOff] = "running"] ELSE rec
          /\ latest' = [run |-> r, queued |-> clock, at |-> clock, ok |-> FALSE]
  /\ UNCHANGED <<input, phase, wm, dirty, saves, disk, buffer, tickTime, cron, plan, gos,
                 queue, history, faults>>

\* The queue processor starts the first run when nothing runs.
QueueStarts(s) ==
  /\ s \in queue /\ procs = {}
  /\ queue' = queue \ {s}
  /\ procs' = procs \cup {Planned("catchup", s)}
  /\ rec' = [rec EXCEPT ![s] = "running"]
  /\ latest' = IF latest.run = Planned("catchup", s)
               THEN [latest EXCEPT !.at = latest.queued] ELSE latest
  /\ UNCHANGED <<input, phase, wm, dirty, saves, disk, buffer, tickTime, cron, plan, gos,
                 starting, history, faults>>

\* The outcome matters to SkipIfSuccessful only.
ProcessEnds(r) ==
  /\ r \in procs
  /\ procs' = procs \ {r}
  /\ rec' = IF r.kind \in {"catchup", "oneoff"} THEN [rec EXCEPT ![IdOf(r)] = "ended"] ELSE rec
  /\ \E ok \in {dag.skipIfSuccessful, FALSE} :
       latest' = IF latest.run = r THEN [latest EXCEPT !.ok = ok] ELSE latest
  /\ UNCHANGED <<input, phase, wm, dirty, saves, disk, buffer, tickTime, cron, plan, gos,
                 queue, starting, history, faults>>

-----------------------------------------------------------------------------
EnqueueStep == CreateAttempt \/ WriteQueued \/ Enqueue \/ EnqueueExists

CronStep ==
  \/ PlanNothing \/ PlanSuspended \/ PlanCatchup \/ PlanBusy \/ PlanNoCatchup \/ PlanLive
  \/ DispatchRuns \/ DispatchCatchup \/ EnqueueStep \/ Advance

GoStep(g) == GoEnds(g) \/ GoExists(g) \/ GoSpawns(g) \/ GoMarks(g) \/ GoStops(g)

SaveStep == \E f \in saves : Save(f)

ProcessStep ==
  \/ \E r \in starting : ProcessStarts(r)
  \/ \E s \in queue : QueueStarts(s)
  \/ \E r \in procs : ProcessEnds(r)

Next ==
  \/ TimePasses \/ ToggleSuspended \/ FileChanges
  \/ Start \/ StopBegins \/ StopFlushes \/ Exit \/ Crash
  \/ FlushTimer \/ SaveStep \/ \E f \in saves : SaveFails(f)
  \/ CronStep \/ PlanDeferred \/ PlanCatchupBlind \/ PlanLiveFails \/ EnqueueFails
  \/ \E g \in gos : GoStep(g) \/ GoFails(g)
  \/ DAGAdded \/ DAGUpdated \/ DAGDeleted
  \/ ProcessStep

Spec == Init /\ [][Next]_vars

(***************************************************************************)
(* Go runs every goroutine that can run, a scheduler that ended is started *)
(* again, minutes pass, and the runs of the DAG end.                       *)
(***************************************************************************)
FairSpec ==
  /\ Spec
  /\ WF_vars(TimePasses) /\ WF_vars(Start)
  /\ WF_vars(StopFlushes) /\ WF_vars(Exit)
  /\ WF_vars(CronStep) /\ WF_vars(FlushTimer) /\ WF_vars(SaveStep) /\ WF_vars(ProcessStep)
  /\ WF_vars(\E g \in gos : GoStep(g))

-----------------------------------------------------------------------------
(* Properties *)

\* The values of the variables; the buffer never holds more than the cap and
\* only slots of the schedule.
TypeOK ==
  /\ clock \in Time /\ tickTime \in Time
  /\ phase \in {"down", "up", "stopping", "stopped"}
  /\ dag \in DAGs
  /\ {entry, suspended, dirty} \subseteq BOOLEAN
  /\ {wm, disk} \subseteq State
  /\ Len(buffer) <= MaxMissed /\ ToSet(buffer) \subseteq dag.start
  /\ cron \in {"select", "live", "dispatch", "create", "created", "queued", "advance"}
  /\ plan \cup starting \cup procs \subseteq Run
  /\ rec \in [RunId -> {"none", "created", "queued", "running", "ended"}]
  /\ queue \subseteq dag.start
  /\ spawned \in [RunId -> 0 .. 2]
  /\ upset \subseteq {"tick", "plan", "attempt", "save", "late"} /\ suspendedAt \in Time

\* A slot is not run twice, live or as a catch-up, unless a tick was cut
\* short: the scheduler died or stopped in it, or the DAG was updated between
\* Plan and Advance (recomputeBuffer uses the old watermark), or the DAG's run
\* ended between the catch-up and the live half of Plan, or two flushes
\* overlapped and left the older watermark on disk.
DuplicateExplained ==
  \A s \in dag.start :
    spawned[s] + (IF rec[s] = "none" THEN 0 ELSE 1) > 1
      => upset \cap {"tick", "plan", "save"} # {}

Enqueueing(s) == cron \in {"created", "queued"} /\ Planned("catchup", s) \in plan

Stranded(s) == rec[s] \in {"created", "queued"} /\ s \notin queue /\ ~Enqueueing(s)

\* An attempt that is neither queued nor run is left by a crash only: a failed
\* enqueue takes it back, whatever step failed.
StrandedOnlyByCrash ==
  (\E s \in dag.start : Stranded(s)) => "attempt" \in upset

\* Missed intervals are created in chronological order, across failed
\* enqueues and updates (overlap_policy.go:18), unless the watermark was lost or
\* moved back: an interval dropped because the DAG was busy or suspended is then
\* missed again.  It is moved back when an update buffered minutes the loop had
\* yet to reach and a later tick sets it to its own minute.
CatchUpInOrder ==
  [][\A s, t \in dag.start :
       s < t /\ rec[s] = "none" /\ rec'[s] = "created"
         => rec[t] = "none" \/ upset \cap {"tick", "save", "late"} # {}]_vars

\* What was missed up to a tick that found the DAG suspended is not replayed
\* when it is resumed, by the same scheduler or by the next.
ResumeDoesNotReplay ==
  [][\A s \in dag.start : rec[s] = "none" /\ rec'[s] = "created"
       => s > suspendedAt \/ upset \cap {"tick", "save"} # {}]_vars

Blocked == \E s \in dag.start : rec[s] = "created" /\ Stranded(s)

\* The buffer drains, and with it the live schedules come back.
CatchUpDrains == buffer # <<>> ~> buffer = <<>> \/ Blocked

\* A pending one-off gets its run, through crashes, lost flushes and failed
\* dispatches.
OneOffNotLost ==
  wm.oneOff = "pending" ~> rec[OneOff] # "none" \/ ~entry \/ suspended \/ Blocked

\* The same without a way out: an attempt that a crash left without a status
\* must not stop the DAG's catch-up.
CatchUpNeverBlocks == buffer # <<>> ~> buffer = <<>>
=============================================================================
