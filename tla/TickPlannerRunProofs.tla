------------------------ MODULE TickPlannerRunProofs ------------------------
(***************************************************************************)
(* Proofs about the runs TickPlanner starts, for every DAG, every cap of   *)
(* the buffer and any number of minutes and faults: a slot is not run      *)
(* twice, and missed intervals are created in chronological order, unless  *)
(* what is noted in upset explains it.                                     *)
(***************************************************************************)
EXTENDS TickPlannerProofs

-----------------------------------------------------------------------------
(* The slots of a buffer, and what the planner's operators make of them.   *)

Slots(b) == {b[i] : i \in 1 .. Len(b)}
Catchup(s) == Planned("catchup", s)
Live(s) == Planned("live", s)

\* A planned run is its kind and its slot.
LEMMA PlannedFacts ==
  /\ \A k, s : Planned(k, s).kind = k /\ Planned(k, s).slot = s
  /\ \A k, s, l, t : Planned(k, s) = Planned(l, t) <=> k = l /\ s = t
  /\ \A r \in Run : r = Planned(r.kind, r.slot)
<1>1. \A k, s : Planned(k, s).kind = k /\ Planned(k, s).slot = s
  BY DEF Planned
<1>2. \A k, s, l, t : Planned(k, s) = Planned(l, t) <=> k = l /\ s = t
  BY DEF Planned
<1>3. \A r \in Run : r = Planned(r.kind, r.slot)
  BY DEF Run, Planned
<1> QED
  BY <1>1, <1>2, <1>3

\* An empty buffer.
LEMMA EmptySlots == Slots(<<>>) = {} /\ Sorted(<<>>)
BY DEF Slots, Sorted

\* DropAllButLast keeps no more than there was.
LEMMA CollapseSlots ==
  ASSUME NEW T, NEW w, NEW b \in Seq(T)
  PROVE  LET c == Collapse(w, b)
         IN  Slots(c.buffer) \subseteq Slots(b) /\ (Sorted(b) => Sorted(c.buffer))
<1> PICK e : e = Collapse(w, b)
  OBVIOUS
<1>1. CASE dag.policy = "latest" /\ Len(b) > 1
  <2>1. PICK l : l = b[Len(b)]
    OBVIOUS
  <2>2. e.buffer = <<l>>
    BY <1>1, <2>1 DEF Collapse, Last
  <2>3. Len(<<l>>) = 1 /\ <<l>>[1] = l /\ DOMAIN <<l>> = 1 .. 1
    OBVIOUS
  <2>4. Len(b) \in 1 .. Len(b)
    BY <1>1
  <2>5. Slots(e.buffer) = {l} /\ l \in Slots(b)
    BY <2>1, <2>2, <2>3, <2>4 DEF Slots
  <2>6. Sorted(e.buffer)
    BY <2>2, <2>3 DEF Sorted
  <2> QED
    BY <2>5, <2>6
<1>2. CASE ~(dag.policy = "latest" /\ Len(b) > 1)
  <2>1. e.buffer = b
    BY <1>2 DEF Collapse
  <2> QED
    BY <2>1
<1> QED
  BY <1>1, <1>2

\* Taking the front item.
LEMMA TailSlots ==
  ASSUME NEW T, NEW b \in Seq(T), b # <<>>
  PROVE  /\ Head(b) \in Slots(b) /\ Slots(Tail(b)) \subseteq Slots(b)
         /\ Sorted(b) => Sorted(Tail(b)) /\ \A x \in Slots(Tail(b)) : Head(b) < x
<1>1. /\ Len(b) \in Nat /\ Len(b) >= 1 /\ Head(b) = b[1] /\ DOMAIN b = 1 .. Len(b)
      /\ Len(Tail(b)) = Len(b) - 1 /\ DOMAIN Tail(b) = 1 .. Len(b) - 1
  OBVIOUS
<1>2. \A i \in 1 .. Len(b) - 1 : Tail(b)[i] = b[i + 1] /\ i + 1 \in 1 .. Len(b)
  BY <1>1
<1>3. 1 \in 1 .. Len(b)
  BY <1>1
<1>4. Head(b) \in Slots(b) /\ Slots(Tail(b)) \subseteq Slots(b)
  BY <1>1, <1>2, <1>3 DEF Slots
<1>5. ASSUME Sorted(b), NEW i \in 1 .. Len(b) - 1, NEW j \in 1 .. Len(b) - 1, i < j
      PROVE  Tail(b)[i] < Tail(b)[j]
  <2>1. i + 1 < j + 1
    BY <1>1, <1>5
  <2> QED
    BY <1>1, <1>2, <1>5, <2>1 DEF Sorted
<1>6. Sorted(b) => Sorted(Tail(b))
  BY <1>1, <1>5 DEF Sorted
<1>7. ASSUME Sorted(b), NEW i \in 1 .. Len(b) - 1 PROVE Head(b) < Tail(b)[i]
  <2>1. 1 < i + 1
    BY <1>1
  <2> QED
    BY <1>1, <1>2, <1>3, <1>7, <2>1 DEF Sorted
<1>8. Sorted(b) => \A x \in Slots(Tail(b)) : Head(b) < x
  BY <1>1, <1>7 DEF Slots
<1> QED
  BY <1>4, <1>6, <1>8

\* Putting an item back.
LEMMA ReinsertSlots ==
  ASSUME NEW T, NEW b \in Seq(T), NEW s \in T
  PROVE  /\ Slots(Reinsert(b, s)) \subseteq Slots(b) \cup {s}
         /\ Sorted(b) /\ (\A x \in Slots(b) : s < x) => Sorted(Reinsert(b, s))
<1>1. PICK r : r = <<s>> \o b
  OBVIOUS
<1>2. /\ Len(b) \in Nat /\ Len(r) = Len(b) + 1 /\ r[1] = s
      /\ DOMAIN r = 1 .. Len(b) + 1 /\ DOMAIN b = 1 .. Len(b)
  BY <1>1
<1>3. \A i \in 1 .. Len(b) + 1 : i # 1 => r[i] = b[i - 1] /\ i - 1 \in 1 .. Len(b)
  BY <1>1, <1>2
<1>4. Slots(r) \subseteq Slots(b) \cup {s}
  BY <1>2, <1>3 DEF Slots
<1>5. ASSUME Sorted(b), \A x \in Slots(b) : s < x,
             NEW i \in 1 .. Len(b) + 1, NEW j \in 1 .. Len(b) + 1, i < j
      PROVE  r[i] < r[j]
  <2>1. j # 1 /\ r[j] = b[j - 1] /\ j - 1 \in 1 .. Len(b)
    BY <1>2, <1>3, <1>5
  <2>2. CASE i = 1
    BY <1>2, <1>5, <2>1, <2>2 DEF Slots
  <2>3. CASE i # 1
    <3>1. r[i] = b[i - 1] /\ i - 1 \in 1 .. Len(b) /\ i - 1 < j - 1
      BY <1>2, <1>3, <1>5, <2>3
    <3> QED
      BY <1>2, <1>5, <2>1, <3>1 DEF Sorted
  <2> QED
    BY <2>2, <2>3
<1>6. Sorted(b) /\ (\A x \in Slots(b) : s < x) => Sorted(r)
  BY <1>2, <1>5 DEF Sorted
<1>7. Reinsert(b, s) = r \/ Reinsert(b, s) = b
  BY <1>1 DEF Reinsert
<1> QED
  BY <1>4, <1>6, <1>7

\* initBuffers and recomputeBuffer find slots after the last tick and up to
\* now, in order.
LEMMA RecomputeSlots ==
  ASSUME dag \in DAGs, clock \in Time, NEW w \in State
  PROVE  LET c == Recompute(w)
         IN  /\ \A x \in Slots(c.buffer) : w.lastTick < x /\ x <= clock
             /\ Sorted(c.buffer)
<1> PICK e : e = Recompute(w)
  OBVIOUS
<1>0. /\ dag.start \subseteq Time /\ dag.window \in Nat /\ clock \in Int
      /\ w.lastTick \in Int /\ w.last \in Int
  BY TickPlannerAssumption DEF DAG, Minutes, Time, State
<1>1. Above(e.buffer, w.lastTick)
  BY RecomputeFacts
<1>2. CASE dag.window = 0
  <2>1. e.buffer = <<>>
    BY <1>2 DEF Recompute
  <2> QED
    BY <2>1, EmptySlots
<1>3. CASE dag.window # 0
  <2>1. PICK f : f = ComputeReplayFrom(w)
    OBVIOUS
  <2>2. f \in Int
    <3>1. PICK a \in Int : a = clock - dag.window
      BY <1>0
    <3>2. \E x \in {a, w.lastTick, w.last} : \A y \in {a, w.lastTick, w.last} : x >= y
      BY <1>0
    <3>3. f = CHOOSE x \in {a, w.lastTick, w.last} : \A y \in {a, w.lastTick, w.last} : x >= y
      BY <2>1, <3>1 DEF ComputeReplayFrom, Max
    <3>4. f \in {a, w.lastTick, w.last}
      BY <3>2, <3>3
    <3> QED
      BY <1>0, <3>4
  <2>3. PICK q : q = ComputeMissedIntervals(f, clock)
    OBVIOUS
  <2>4. q \in Seq(dag.start) /\ Sorted(q) /\ \A i \in 1 .. Len(q) : q[i] <= clock
    BY <1>0, <2>2, <2>3, MissedFacts
  <2>5. e = Collapse(w, q)
    BY <1>3, <2>1, <2>3 DEF Recompute
  <2>6. Slots(e.buffer) \subseteq Slots(q) /\ Sorted(e.buffer)
    BY <2>4, <2>5, CollapseSlots
  <2>7. \A x \in Slots(q) : x <= clock
    BY <2>4 DEF Slots
  <2>8. \A x \in Slots(e.buffer) : w.lastTick < x
    <3>1. e.buffer \in Seq(dag.start)
      BY RecomputeFacts
    <3>2. \A i \in 1 .. Len(e.buffer) : e.buffer[i] \in Int
      BY <1>0, <3>1 DEF Time
    <3> QED
      BY <1>0, <1>1, <3>2 DEF Slots, Above
  <2> QED
    BY <2>6, <2>7, <2>8
<1> QED
  BY <1>2, <1>3

-----------------------------------------------------------------------------
(* The invariants.  RInv says what the loop, the queue, the processes and   *)
(* the dispatching goroutines may hold; OnceInv and LivedInv, that a slot's *)
(* live run and its catch-up exclude each other; OrderInv, that what was    *)
(* created is earlier than what may still be.                               *)

Go == [run : Run, tick : Time, pc : {"begin", "mark"}]
Latest == [run : Run, queued : Time, at : Time, ok : BOOLEAN]
Cron == {"select", "live", "dispatch", "create", "created", "queued", "advance"}
Upsets == {"tick", "plan", "attempt", "save", "late"}

\* The types that IInv and PInv do not give.
KindInv ==
  /\ entry \in BOOLEAN /\ suspended \in BOOLEAN /\ cron \in Cron /\ upset \subseteq Upsets
  /\ plan \subseteq Run /\ starting \subseteq Run /\ procs \subseteq Run /\ gos \subseteq Go
  /\ queue \subseteq dag.start /\ spawned \in [RunId -> 0 .. 2]
  /\ latest \in Latest /\ latest.at <= latest.queued

\* What the planner has is not ahead of the clock, and a live run is planned
\* for the minute of its tick.
ClockInv ==
  /\ tickTime <= clock + 1 /\ (cron # "select" => tickTime <= clock)
  /\ cron \in {"select", "live"} => plan = {}
  /\ \A x \in Slots(buffer) : x <= clock
  /\ \A r \in plan : /\ r.kind = "catchup" => r.slot <= clock
                     /\ r.kind = "live" => r.slot = tickTime /\ r.slot \in dag.start
  /\ \A s \in dag.start : spawned[s] > 0 \/ rec[s] # "none" => s <= clock

\* One run of the DAG is enqueued at a time, and its attempt tells how far.
QueueInv ==
  /\ \A s \in dag.start : Catchup(s) \in plan =>
       /\ cron # "advance" => queue = {}
       /\ cron = "created" => rec[s] = "created"
       /\ cron = "queued" => rec[s] = "queued"
  /\ \A t, u \in queue : t = u
  /\ \A t \in queue : rec[t] = "queued"
  /\ \A r \in starting : r.kind # "catchup"
  /\ \A r \in procs : r.kind = "catchup"
                        => r.slot \in dag.start /\ rec[r.slot] \in {"running", "ended"}

\* The loop is done with the live schedules of minute s.
Passed(s) == s < tickTime \/ (s = tickTime /\ cron = "advance")

\* A live run is dispatched by one goroutine, after its tick has passed.
GoInv ==
  \A g \in gos : g.run.kind = "live" =>
    g.pc = "begin" /\ g.tick = g.run.slot /\ g.run.slot \in dag.start /\ Passed(g.run.slot)

RInv == KindInv /\ ClockInv /\ QueueInv /\ GoInv

\* No tick was cut short, no save overtaken, no end of a run straddled by Plan.
Smooth == upset \cap {"tick", "plan", "save"} = {}

\* The latest attempt tells shouldRun that slot s has had its run.
Covered(s) == \/ s <= latest.at
              \/ \E t \in queue : latest.run = Catchup(t) /\ s <= latest.queued

CoverInv ==
  Smooth => \A s \in dag.start :
    /\ spawned[s] > 0 => Covered(s) \/ (Alive /\ Live(s) \in starting /\ Passed(s))
    /\ rec[s] # "none" => Covered(s) \/ Enqueueing(s)

Pending(s) == (cron = "dispatch" /\ Live(s) \in plan) \/ \E g \in gos : g.run = Live(s)

OnceInv ==
  Smooth => \A s \in dag.start :
    /\ Pending(s) => spawned[s] = 0 /\ rec[s] = "none"
    /\ spawned[s] <= 1 /\ (spawned[s] = 0 \/ rec[s] = "none")

\* Slot s was run or is to be run by its own tick.
Lived(s) == spawned[s] > 0 \/ Live(s) \in plan \/ \E g \in gos : g.run = Live(s)

\* Such a slot is not caught up on: it is not buffered or planned, and the
\* watermark, in memory or on disk, excludes it.
LivedInv ==
  Smooth => \A s \in dag.start : Lived(s) =>
    /\ s \notin Slots(buffer) /\ Catchup(s) \notin plan
    /\ Alive => s <= tickTime /\ (s <= wm.lastTick \/ Live(s) \in plan)
    /\ ~Alive => s <= disk.lastTick

\* No watermark was lost and none was moved back.
Orderly == upset \cap {"tick", "save", "late"} = {}

\* What is buffered is in order and not before what was created; what is
\* planned is before what is buffered and not before what was created.
BufferOrder == Sorted(buffer) /\ (Alive => \A x \in Slots(buffer) : x <= tickTime)

PlanOrder ==
  \A c \in dag.start : Catchup(c) \in plan /\ cron # "advance" =>
    /\ c <= tickTime /\ \A x \in Slots(buffer) : c < x
    /\ \A t \in dag.start : rec[t] # "none" => t <= c

RecOrder ==
  \A t \in dag.start : rec[t] # "none" =>
    /\ \A x \in Slots(buffer) : t <= x
    /\ Alive => t <= tickTime /\ (t <= wm.lastTick \/ Catchup(t) \in plan)
    /\ ~Alive => t <= disk.lastTick

OrderInv == Orderly => BufferOrder /\ PlanOrder /\ RecOrder

Base == IInv /\ PInv /\ RInv

\* What the proofs use of IInv and PInv.
LEMMA BaseFacts ==
  ASSUME Base
  PROVE  /\ dag \in DAGs /\ dag.start \subseteq Time /\ Time \subseteq Nat /\ dag.start \subseteq RunId
         /\ \A s \in dag.start : s \in Nat /\ s < MaxTime /\ s # OneOff
         /\ clock \in Nat /\ tickTime \in Nat /\ tickTime \in Time /\ clock \in Time
         /\ MaxTime \in Nat /\ MaxMissed \in Nat
         /\ wm \in State /\ disk \in State /\ wm.lastTick \in Nat /\ disk.lastTick \in Nat
         /\ dirty \in BOOLEAN /\ rec \in [RunId -> RecStatus] /\ spawned \in [RunId -> 0 .. 2]
         /\ buffer \in Seq(dag.start) /\ Len(buffer) <= MaxMissed /\ Slots(buffer) \subseteq dag.start
         /\ \A r \in plan : r.kind = "catchup" => r.slot \in dag.start
<1>1. RecInv /\ TimeInv /\ StateInv /\ BufferInv /\ KindInv
  BY DEF Base, IInv, PInv, RInv
<1>2. MaxTime \in Nat /\ MaxMissed \in Nat /\ Time \subseteq Nat /\ dag.start \subseteq Time
  BY <1>1, StartTimes, TickPlannerAssumption DEF TimeInv
<1>3. dag.start \subseteq RunId /\ \A s \in dag.start : s # OneOff
  BY <1>1, StartSlots
<1>4. \A s \in dag.start : s < MaxTime
  <2>1. dag.start \subseteq Minutes
    BY <1>1, TickPlannerAssumption DEF RecInv, DAG
  <2> QED
    BY <1>2, <2>1 DEF Minutes
<1>5. Slots(buffer) \subseteq dag.start
  BY <1>1 DEF BufferInv, Slots
<1>6. wm.lastTick \in Time /\ disk.lastTick \in Time
  BY <1>1 DEF StateInv, State
<1> QED
  BY <1>1, <1>2, <1>3, <1>4, <1>5, <1>6 DEF RecInv, TimeInv, StateInv, BufferInv, KindInv

-----------------------------------------------------------------------------
(* Steps by what they do                                                   *)

\* A step that leaves ticks and plan alone and starts or creates nothing.
Mild ==
  /\ UNCHANGED <<dag, tickTime, cron, plan, spawned>>
  /\ clock' \in {clock, clock + 1} /\ upset \subseteq upset'
  /\ buffer' = buffer \/ buffer' = <<>>
  /\ \A g \in gos' : g \in gos \/ g.run.kind # "live"
  /\ (Alive <=> Alive') /\ wm'.lastTick = wm.lastTick
  /\ Alive \/ disk' = disk
  /\ \A s \in dag.start : rec'[s] = "none" <=> rec[s] = "none"

\* A step that leaves the attempts, the queue and the processes alone too.
Quiet == Mild /\ UNCHANGED runtime

\* The first half of Plan.
Picks ==
  /\ Alive /\ Alive' /\ cron = "select" /\ tickTime <= clock
  /\ UNCHANGED <<clock, dag, tickTime, gos, runtime, spawned, upset>>
  /\ wm'.lastTick = wm.lastTick
  /\ Slots(buffer') \subseteq Slots(buffer) /\ (Sorted(buffer) => Sorted(buffer'))
  /\ \/ cron' \in {"live", "dispatch"} /\ plan' = {}
     \/ /\ cron' = "dispatch" /\ queue = {}
        /\ \E h \in Slots(buffer) :
             plan' = {Catchup(h)} /\ (Sorted(buffer) => \A x \in Slots(buffer') : h < x)

\* The second half.
Lives ==
  /\ Alive /\ Alive' /\ cron = "live" /\ cron' = "dispatch"
  /\ UNCHANGED <<clock, dag, tickTime, gos, runtime, spawned, buffer, wm, disk>>
  /\ upset \subseteq upset'
  /\ \A r \in plan' :
       /\ r \in Run /\ r.kind # "catchup"
       /\ r.kind = "live" =>
            /\ r.slot = tickTime /\ r.slot \in dag.start
            /\ procs = {} /\ queue = {} /\ latest.at < r.slot
            /\ buffer = <<>> \/ "plan" \in upset'

\* Events keep the tick the watermark stands at.
LEMMA EventTick ==
  ASSUME Base, DAGAdded \/ DAGUpdated \/ DAGDeleted
  PROVE  wm'.lastTick = wm.lastTick
<1>0. wm \in State /\ clock \in Time /\ dag \in DAGs
  BY BaseFacts
<1>1. \A v \in State : ReconcileOneOff(v).lastTick = v.lastTick
  BY DEF ReconcileOneOff, State
<1>2. CASE DAGAdded
  <2>1. PICK v : v = AdvanceDAGWatermark(wm, clock)
    OBVIOUS
  <2>2. v \in State /\ v.lastTick = wm.lastTick
    BY <1>0, <2>1 DEF AdvanceDAGWatermark, State
  <2>3. wm' = ReconcileOneOff(v)
    BY <1>2, <2>1 DEF DAGAdded, Event
  <2> QED
    BY <1>1, <2>2, <2>3
<1>3. CASE DAGUpdated
  <2>1. PICK c : c = Recompute(wm)
    OBVIOUS
  <2>2. c.wm \in State /\ c.wm.lastTick = wm.lastTick
    BY <1>0, <2>1, RecomputeFacts
  <2>3. wm' = ReconcileOneOff(c.wm)
    BY <1>3, <2>1 DEF DAGUpdated, Event
  <2> QED
    BY <1>1, <2>2, <2>3
<1>4. CASE DAGDeleted
  <2>1. wm' = [wm EXCEPT !.last = 0, !.oneOff = "none"]
    BY <1>4 DEF DAGDeleted, Event
  <2>2. PICK v : v = [wm EXCEPT !.last = 0]
    OBVIOUS
  <2>3. /\ wm' = [v EXCEPT !.oneOff = "none"]
        /\ v \in [lastTick : Time, last : Nat, oneOff : {"none", "pending", "consumed"}]
    BY <1>0, <2>1, <2>2 DEF State
  <2> QED
    BY <1>0, <2>2, <2>3 DEF State
<1> QED
  BY <1>2, <1>3, <1>4

\* The steps around the planner are quiet.
LEMMA QuietSteps ==
  ASSUME Base,
         \/ TimePasses \/ ToggleSuspended \/ FileChanges \/ StopBegins \/ StopFlushes
         \/ FlushTimer \/ SaveStep \/ (\E f \in saves : SaveFails(f))
         \/ \E g \in gos : GoEnds(g) \/ GoExists(g) \/ GoFails(g) \/ GoMarks(g)
         \/ DAGAdded \/ DAGDeleted \/ UNCHANGED vars
  PROVE  Quiet
<1>0. wm \in State /\ gos \subseteq Go /\ (saves # {} => Alive) /\ (gos # {} => Alive)
  BY BaseFacts DEF Base, RInv, KindInv, PInv, DownInv
<1>1. ASSUME UNCHANGED <<clock, dag, phase, tickTime, cron, plan, spawned, runtime, upset,
                         buffer, gos, wm, disk>>
      PROVE  Quiet
  BY <1>1 DEF Quiet, Mild, runtime, Alive
<1>2. CASE TimePasses
  BY <1>2 DEF TimePasses, Quiet, Mild, runtime, history, Alive
<1>3. CASE ToggleSuspended \/ FileChanges \/ FlushTimer \/ UNCHANGED vars
  BY <1>1, <1>3 DEF ToggleSuspended, FileChanges, FlushTimer, vars, input, history, runtime
<1>4. CASE StopBegins \/ StopFlushes
  BY <1>4 DEF StopBegins, StopFlushes, Quiet, Mild, input, runtime, history, Alive
<1>5. CASE SaveStep \/ \E f \in saves : SaveFails(f)
  BY <1>0, <1>5 DEF SaveStep, Save, SaveFails, Quiet, Mild, input, runtime, history, Alive
<1>6. CASE \E g \in gos : GoEnds(g) \/ GoFails(g)
  BY <1>0, <1>6 DEF GoEnds, GoFails, Quiet, Mild, input, runtime, history, Alive
<1>7. ASSUME NEW g \in gos, GoExists(g) PROVE Quiet
  <2>1. PICK h : h = [g EXCEPT !.pc = "mark"]
    OBVIOUS
  <2>2. h.run = g.run
    BY <1>0, <2>1 DEF Go
  <2>3. gos' = (gos \ {g}) \cup {h} /\ g.run.kind = "oneoff"
    BY <1>7, <2>1 DEF GoExists, GoTo
  <2>4. \A i \in gos' : i \in gos \/ i.run.kind # "live"
    BY <2>2, <2>3
  <2> QED
    BY <1>7, <2>4 DEF GoExists, Quiet, Mild, input, runtime, history, Alive
<1>8. ASSUME NEW g \in gos, GoMarks(g) PROVE Quiet
  <2>1. wm'.lastTick = wm.lastTick
    BY <1>0, <1>8 DEF GoMarks, State
  <2> QED
    BY <1>0, <1>8, <2>1 DEF GoMarks, Quiet, Mild, input, runtime, history, Alive
<1>9. CASE DAGAdded \/ DAGDeleted
  <2>1. wm'.lastTick = wm.lastTick
    BY <1>9, EventTick
  <2> QED
    BY <1>9, <2>1 DEF DAGAdded, DAGDeleted, Event, Quiet, Mild, runtime, Alive
<1> QED
  BY <1>2, <1>3, <1>4, <1>5, <1>6, <1>7, <1>8, <1>9

\* The first half of Plan, in each of its ways.
LEMMA PickSteps ==
  ASSUME Base,
         PlanNothing \/ PlanSuspended \/ PlanCatchup \/ PlanCatchupBlind \/ PlanBusy
           \/ PlanNoCatchup \/ PlanDeferred
  PROVE  Picks
<1>0. wm \in State /\ buffer \in Seq(dag.start) /\ dag.start \subseteq Time /\ tickTime \in Time
  BY BaseFacts
<1>1. /\ Alive /\ Alive' /\ cron = "select" /\ tickTime <= clock
      /\ UNCHANGED <<clock, dag, tickTime, gos, runtime, spawned, upset>>
  BY DEF PlanNothing, PlanSuspended, PlanCatchup, PlanCatchupBlind, PlanBusy, PlanNoCatchup,
         PlanDeferred, Planning, TickDue, input, history, Alive
<1>2. \A x \in Time : [wm EXCEPT !.last = x].lastTick = wm.lastTick
  BY <1>0 DEF State
<1>3. CASE PlanNothing \/ PlanNoCatchup \/ PlanDeferred
  <2>1. wm' = wm /\ buffer' = buffer /\ plan' = {} /\ cron' \in {"live", "dispatch"}
    BY <1>3 DEF PlanNothing, PlanNoCatchup, PlanDeferred, Planning, SetWatermark
  <2> QED
    BY <1>1, <2>1 DEF Picks
<1>4. CASE PlanSuspended
  <2>1. /\ wm' = wm \/ wm' = [wm EXCEPT !.last = tickTime]
        /\ buffer' = <<>> /\ plan' = {} /\ cron' = "dispatch"
    BY <1>4 DEF PlanSuspended, Planning, SetWatermark, AdvanceDAGWatermark
  <2>2. wm'.lastTick = wm.lastTick
    BY <1>0, <2>1 DEF State
  <2>3. Slots(buffer') \subseteq Slots(buffer) /\ Sorted(buffer')
    BY <2>1, EmptySlots
  <2> QED
    BY <1>1, <2>1, <2>2, <2>3 DEF Picks
<1>5. PICK c : c = Collapse(wm, buffer)
  OBVIOUS
<1>6. /\ c.wm.lastTick = wm.lastTick /\ c.buffer \in Seq(dag.start)
      /\ buffer # <<>> => c.buffer # <<>>
      /\ Slots(c.buffer) \subseteq Slots(buffer) /\ (Sorted(buffer) => Sorted(c.buffer))
  BY <1>0, <1>5, CollapseFacts, CollapseSlots
<1>7. CASE PlanCatchup \/ PlanCatchupBlind
  <2>1. PICK h : h = Head(c.buffer)
    OBVIOUS
  <2>2. /\ wm' = c.wm /\ buffer' = Tail(c.buffer) /\ plan' = {Catchup(h)}
        /\ cron' = "dispatch" /\ queue = {} /\ c.buffer # <<>>
    BY <1>5, <1>6, <1>7, <2>1
       DEF PlanCatchup, PlanCatchupBlind, Planning, SetWatermark, Busy, Catchup
  <2>3. /\ h \in Slots(c.buffer) /\ Slots(buffer') \subseteq Slots(c.buffer)
        /\ Sorted(c.buffer) => Sorted(buffer') /\ \A x \in Slots(buffer') : h < x
    BY <1>6, <2>1, <2>2, TailSlots
  <2> QED
    BY <1>1, <1>6, <2>2, <2>3 DEF Picks
<1>8. CASE PlanBusy /\ dag.policy = "skip"
  <2>1. PICK h : h = Head(buffer)
    OBVIOUS
  <2>2. /\ wm' = [wm EXCEPT !.last = h] /\ buffer' = Tail(buffer) /\ plan' = {}
        /\ cron' = "live" /\ buffer # <<>>
    BY <1>8, <2>1 DEF PlanBusy, Planning, SetWatermark, AdvanceDAGWatermark
  <2>3. h \in Time
    BY <1>0, <2>1, <2>2, BufferFacts
  <2>4. Slots(buffer') \subseteq Slots(buffer) /\ (Sorted(buffer) => Sorted(buffer'))
    BY <1>0, <2>2, TailSlots
  <2> QED
    BY <1>1, <1>2, <2>2, <2>3, <2>4 DEF Picks
<1>9. CASE PlanBusy /\ dag.policy # "skip"
  <2>1. wm' = c.wm /\ buffer' = c.buffer /\ plan' = {} /\ cron' = "live"
    BY <1>5, <1>9 DEF PlanBusy, Planning, SetWatermark
  <2> QED
    BY <1>1, <1>6, <2>1 DEF Picks
<1> QED
  BY <1>3, <1>4, <1>7, <1>8, <1>9

\* The second half of Plan: a live run is planned when nothing is running or
\* queued and no later run has started.
LEMMA LiveSteps ==
  ASSUME Base, PlanLive \/ PlanLiveFails
  PROVE  Lives
<1>0. /\ dag \in DAGs /\ dag.oneOff \in Time /\ tickTime \in Time
      /\ \A k, s : Planned(k, s).kind = k /\ Planned(k, s).slot = s
  BY BaseFacts, PlannedFacts, TickPlannerAssumption DEF DAG, Time
<1>1. /\ Alive /\ Alive' /\ cron = "live" /\ cron' = "dispatch"
      /\ UNCHANGED <<clock, dag, tickTime, gos, runtime, spawned, buffer, wm, disk>>
      /\ upset \subseteq upset'
  BY DEF PlanLive, PlanLiveFails, input, history, Alive
<1>2. \A s \in Time : \A k \in {"live", "oneoff", "stop", "restart"} : Planned(k, s) \in Run
  BY DEF Planned, Run
<1>3. \A r \in Restarts : r \in Run /\ r.kind = "restart"
  BY <1>0, <1>2 DEF Restarts
<1>4. CASE PlanLiveFails
  <2>1. plan' = Restarts
    BY <1>4 DEF PlanLiveFails
  <2> QED
    BY <1>1, <1>3, <2>1 DEF Lives
<1>5. CASE PlanLive
  <2>1. \A r \in StartCandidates :
          /\ r \in Run /\ r.kind \in {"live", "oneoff"}
          /\ r.kind = "live" => r.slot = tickTime /\ tickTime \in dag.start /\ ShouldRun(tickTime)
    BY <1>0, <1>2 DEF StartCandidates
  <2>2. PICK S : S = {tickTime} \cap {t \in dag.stop : procs # {}}
    OBVIOUS
  <2>3. plan' = StartCandidates \cup {Planned("stop", s) : s \in S} \cup Restarts
    BY <1>5, <2>2 DEF PlanLive
  <2>4. \A s \in S : Planned("stop", s) \in Run /\ Planned("stop", s).kind = "stop"
    BY <1>0, <1>2, <2>2
  <2>5. \A r \in plan' :
          /\ r \in Run /\ r.kind # "catchup"
          /\ r.kind = "live" => r.slot = tickTime /\ tickTime \in dag.start /\ ShouldRun(tickTime)
    BY <1>3, <2>1, <2>3, <2>4
  <2>6. ShouldRun(tickTime) => procs = {} /\ queue = {} /\ latest.at < tickTime
    BY DEF ShouldRun
  <2>7. procs = {} /\ queue = {} => buffer = <<>> \/ "plan" \in upset'
    BY <1>5 DEF PlanLive, Busy
  <2> QED
    BY <1>1, <2>5, <2>6, <2>7 DEF Lives
<1> QED
  BY <1>4, <1>5

\* DispatchRun of catch-up c, from Plan to the end of EnqueueCatchupRun.
Enqueues(c) ==
  /\ c \in dag.start /\ plan = {Catchup(c)} /\ Alive /\ Alive' /\ queue = {}
  /\ UNCHANGED <<clock, dag, tickTime, plan, gos, starting, procs, spawned, upset>>
  /\ wm'.lastTick = wm.lastTick
  /\ \/ /\ cron = "dispatch" /\ cron' \in {"create", "advance"}
        /\ UNCHANGED <<rec, queue, latest, buffer>>
     \/ /\ cron = "create" /\ cron' = "created" /\ rec[c] = "none"
        /\ rec' = [rec EXCEPT ![c] = "created"] /\ UNCHANGED <<queue, latest, buffer>>
     \/ /\ cron = "created" /\ cron' = "queued" /\ rec[c] = "created"
        /\ rec' = [rec EXCEPT ![c] = "queued"] /\ UNCHANGED <<queue, latest, buffer>>
     \/ /\ cron = "queued" /\ cron' = "advance" /\ rec[c] = "queued" /\ queue' = {c}
        /\ latest' = [run |-> Catchup(c), queued |-> clock, at |-> 0, ok |-> FALSE]
        /\ UNCHANGED <<rec, buffer>>
     \/ /\ cron \in {"create", "created", "queued"} /\ cron' = "advance"
        /\ buffer' = Reinsert(buffer, c) /\ UNCHANGED <<queue, latest>>
        /\ \/ cron = "create" /\ rec' = rec
           \/ /\ rec' = [rec EXCEPT ![c] = "none"]
              /\ rec[c] \in {"none", "created", "queued"}

\* The steps of EnqueueCatchupRun are those.
LEMMA EnqueueSteps ==
  ASSUME Base, DispatchCatchup \/ EnqueueStep \/ EnqueueFails
  PROVE  \E c \in dag.start : Enqueues(c)
<1>0. /\ wm \in State /\ PlanInv /\ QueueInv /\ Time \subseteq Nat /\ dag.start \subseteq Time
      /\ \A r \in plan : r.kind = "catchup" => r.slot \in dag.start
  BY BaseFacts DEF Base, IInv, RInv
<1>1. /\ UNCHANGED <<clock, dag, tickTime, phase, plan, gos, starting, procs, spawned, upset>>
      /\ cron \in {"dispatch", "create", "created", "queued"}
      /\ cron = "dispatch" => InPlan("catchup") # {}
  BY DEF DispatchCatchup, EnqueueStep, CreateAttempt, WriteQueued, Enqueue, EnqueueExists,
         EnqueueFails, input, runtime, history
<1>2. Alive /\ Alive'
  BY <1>1 DEF Base, PInv, DownInv, Alive
<1>3. PlansCatchup(plan)
  BY <1>0, <1>1 DEF PlanInv, InPlan, InEnqueue
<1>4. PICK c : c = CatchupSlot
  OBVIOUS
<1>5. plan = {Catchup(c)}
  BY <1>3, <1>4, SlotOfPlan DEF Catchup
<1>6. c \in dag.start
  BY <1>0, <1>5, PlannedFacts DEF Catchup
<1>7. /\ queue = {}
      /\ cron = "created" => rec[c] = "created"
      /\ cron = "queued" => rec[c] = "queued"
  BY <1>0, <1>1, <1>5, <1>6 DEF QueueInv
<1>8. [wm EXCEPT !.last = c].lastTick = wm.lastTick
  BY <1>0, <1>6 DEF State
<1>9. CASE DispatchCatchup
  <2>1. /\ cron = "dispatch" /\ cron' \in {"create", "advance"}
        /\ UNCHANGED <<rec, queue, latest, buffer>>
        /\ wm' = wm \/ wm' = [wm EXCEPT !.last = c]
    BY <1>4, <1>9 DEF DispatchCatchup, SetWatermark, AdvanceDAGWatermark, runtime
  <2>2. wm'.lastTick = wm.lastTick
    BY <1>0, <1>6, <2>1 DEF State
  <2> QED
    BY <1>1, <1>2, <1>5, <1>6, <1>7, <2>1, <2>2 DEF Enqueues
<1>10. CASE CreateAttempt
  BY <1>1, <1>2, <1>4, <1>5, <1>6, <1>7, <1>10 DEF CreateAttempt, Enqueues
<1>11. CASE WriteQueued
  BY <1>1, <1>2, <1>4, <1>5, <1>6, <1>7, <1>11 DEF WriteQueued, Enqueues
<1>12. CASE Enqueue
  <2>1. /\ wm' = [wm EXCEPT !.last = c] /\ cron = "queued" /\ cron' = "advance" /\ queue' = {c}
        /\ latest' = [NoLatest EXCEPT !.run = Catchup(c), !.queued = clock]
        /\ UNCHANGED <<rec, buffer>>
    BY <1>4, <1>7, <1>12 DEF Enqueue, SetWatermark, AdvanceDAGWatermark, Catchup
  <2>2. wm'.lastTick = wm.lastTick
    BY <1>0, <1>6, <2>1 DEF State
  <2>3. latest' = [run |-> Catchup(c), queued |-> clock, at |-> 0, ok |-> FALSE]
    BY <2>1 DEF NoLatest
  <2> QED
    BY <1>1, <1>2, <1>5, <1>6, <1>7, <2>1, <2>2, <2>3 DEF Enqueues
<1>13. CASE EnqueueExists
  BY <1>1, <1>2, <1>4, <1>5, <1>6, <1>7, <1>13 DEF EnqueueExists, Enqueues, runtime
<1>14. CASE EnqueueFails
  <2>1. /\ cron \in {"create", "created", "queued"} /\ cron' = "advance"
        /\ buffer' = Reinsert(buffer, c) /\ UNCHANGED <<queue, latest, wm>>
        /\ rec' = [rec EXCEPT ![c] = "none"]
        /\ cron = "create" => rec[c] = "none"
    BY <1>4, <1>14 DEF EnqueueFails, Rollback
  <2>2. rec[c] \in {"none", "created", "queued"}
    BY <1>7, <2>1
  <2> QED
    BY <1>1, <1>2, <1>5, <1>6, <1>7, <2>1, <2>2 DEF Enqueues
<1> QED
  BY <1>6, <1>9, <1>10, <1>11, <1>12, <1>13, <1>14 DEF EnqueueStep

-----------------------------------------------------------------------------
(* RInv                                                                    *)

\* The initial state.
LEMMA InitRInv == Init => RInv
<1> SUFFICES ASSUME Init PROVE RInv
  OBVIOUS
<1>0. MaxTime \in Nat /\ 1 <= MaxTime /\ DAGs \subseteq DAG /\ 0 \in Time
  BY TickPlannerAssumption DEF Time
<1>1. dag.start \subseteq RunId
  BY <1>0 DEF Init, DAG, RunId
<1>2. KindInv
  <2>1. NoLatest \in Latest /\ NoLatest.at <= NoLatest.queued
    BY <1>0 DEF NoLatest, Latest, Run, Planned
  <2>2. spawned \in [RunId -> 0 .. 2]
    BY DEF Init
  <2> QED
    BY <2>1, <2>2 DEF Init, KindInv, Cron, Upsets
<1>3. ClockInv
  BY <1>1, EmptySlots DEF Init, ClockInv
<1>4. QueueInv
  BY DEF Init, QueueInv
<1>5. GoInv
  BY DEF Init, GoInv
<1> QED
  BY <1>2, <1>3, <1>4, <1>5 DEF RInv

\* The flags, the noted upsets and the DAG.
LEMMA FlagsKeep ==
  ASSUME Base, [Next]_vars
  PROVE  /\ dag' = dag /\ entry' \in BOOLEAN /\ suspended' \in BOOLEAN
         /\ upset' \subseteq Upsets /\ upset \subseteq upset'
<1>0. entry \in BOOLEAN /\ suspended \in BOOLEAN /\ upset \subseteq Upsets
  BY DEF Base, RInv, KindInv
<1>1. CASE UNCHANGED <<dag, entry, suspended, upset>>
  BY <1>0, <1>1
<1>2. CASE TimePasses \/ ToggleSuspended \/ FileChanges \/ UNCHANGED vars
  BY <1>0, <1>2 DEF TimePasses, ToggleSuspended, FileChanges, vars, history
<1>3. CASE Start \/ StopBegins \/ StopFlushes \/ FlushTimer \/ \E f \in saves : SaveFails(f)
  BY <1>1, <1>3 DEF Start, StopBegins, StopFlushes, FlushTimer, SaveFails, input, history
<1>4. CASE Exit \/ Crash \/ SaveStep \/ PlanLive
  BY <1>0, <1>4 DEF Exit, Crash, SaveStep, Save, PlanLive, input, Upsets
<1>5. CASE PlanNothing \/ PlanSuspended \/ PlanCatchup \/ PlanBusy \/ PlanNoCatchup
             \/ PlanDeferred \/ PlanCatchupBlind \/ PlanLiveFails
  BY <1>1, <1>5 DEF PlanNothing, PlanSuspended, PlanCatchup, PlanBusy, PlanNoCatchup,
       PlanDeferred, PlanCatchupBlind, PlanLiveFails, Planning, input, history
<1>6. CASE DispatchRuns \/ DispatchCatchup \/ EnqueueStep \/ EnqueueFails \/ Advance
  BY <1>1, <1>6 DEF DispatchRuns, DispatchCatchup, EnqueueStep, CreateAttempt, WriteQueued,
       Enqueue, EnqueueExists, EnqueueFails, Advance, input, history
<1>7. CASE \E g \in gos : GoStep(g) \/ GoFails(g)
  BY <1>1, <1>7 DEF GoStep, GoEnds, GoExists, GoSpawns, GoMarks, GoStops, GoFails, input, history
<1>8. CASE ProcessStep
  BY <1>1, <1>8 DEF ProcessStep, ProcessStarts, QueueStarts, ProcessEnds, input, history
<1>9. CASE DAGAdded \/ DAGUpdated \/ DAGDeleted
  BY <1>0, <1>9 DEF DAGAdded, DAGUpdated, DAGDeleted, Event, Upsets
<1> QED
  BY <1>2, <1>3, <1>4, <1>5, <1>6, <1>7, <1>8, <1>9 DEF Next, CronStep

\* The goroutines, and those that dispatch a live run: only DispatchRuns makes
\* one.
LEMMA GoesKeep ==
  ASSUME Base, [Next]_vars
  PROVE  /\ gos' \subseteq Go
         /\ \A g \in gos' : g \in gos \/ g.run.kind # "live" \/ DispatchRuns
<1>0. gos \subseteq Go /\ plan \subseteq Run /\ tickTime \in Time
  BY BaseFacts DEF Base, RInv, KindInv
<1>1. CASE gos' \subseteq gos
  BY <1>0, <1>1
<1>2. CASE DispatchRuns
  <2>1. gos' = gos \cup {[run |-> r, tick |-> tickTime, pc |-> "begin"] : r \in plan}
    BY <1>2 DEF DispatchRuns
  <2>2. \A r \in plan : [run |-> r, tick |-> tickTime, pc |-> "begin"] \in Go
    BY <1>0 DEF Go
  <2> QED
    BY <1>0, <1>2, <2>1, <2>2
<1>3. ASSUME NEW g \in gos, GoExists(g) \/ GoSpawns(g)
      PROVE  /\ gos' \subseteq Go
             /\ \A h \in gos' : h \in gos \/ h.run.kind # "live"
  <2>1. PICK m : m = [g EXCEPT !.pc = "mark"]
    OBVIOUS
  <2>2. m \in Go /\ m.run = g.run
    BY <1>0, <2>1 DEF Go
  <2>3. gos' \subseteq gos \/ (gos' = (gos \ {g}) \cup {m} /\ g.run.kind = "oneoff")
    BY <1>3, <2>1 DEF GoExists, GoSpawns, GoTo
  <2> QED
    BY <1>0, <2>2, <2>3
<1>4. CASE \E g \in gos : GoEnds(g) \/ GoMarks(g) \/ GoStops(g) \/ GoFails(g)
  BY <1>1, <1>4 DEF GoEnds, GoMarks, GoStops, GoFails
<1>5. CASE TimePasses \/ ToggleSuspended \/ FileChanges \/ Start \/ StopBegins \/ StopFlushes
             \/ Exit \/ Crash \/ FlushTimer \/ SaveStep \/ (\E f \in saves : SaveFails(f))
             \/ DAGAdded \/ DAGUpdated \/ DAGDeleted \/ UNCHANGED vars
  BY <1>1, <1>5 DEF TimePasses, ToggleSuspended, FileChanges, Start, StopBegins, StopFlushes,
       Exit, Crash, Forget, FlushTimer, SaveStep, Save, SaveFails, DAGAdded, DAGUpdated,
       DAGDeleted, Event, vars
<1>6. CASE PlanNothing \/ PlanSuspended \/ PlanCatchup \/ PlanBusy \/ PlanNoCatchup \/ PlanLive
             \/ PlanDeferred \/ PlanCatchupBlind \/ PlanLiveFails
  BY <1>1, <1>6 DEF PlanNothing, PlanSuspended, PlanCatchup, PlanBusy, PlanNoCatchup, PlanLive,
       PlanDeferred, PlanCatchupBlind, PlanLiveFails, Planning
<1>7. CASE DispatchCatchup \/ EnqueueStep \/ EnqueueFails \/ Advance \/ ProcessStep
  BY <1>1, <1>7 DEF DispatchCatchup, EnqueueStep, CreateAttempt, WriteQueued,
       Enqueue, EnqueueExists, EnqueueFails, Advance, ProcessStep, ProcessStarts, QueueStarts,
       ProcessEnds
<1> QED
  BY <1>2, <1>3, <1>4, <1>5, <1>6, <1>7 DEF Next, CronStep, GoStep

\* The steps of Next, by what they do.
LEMMA StepKinds ==
  ASSUME Base, [Next]_vars
  PROVE  \/ Quiet \/ Picks \/ Lives \/ DispatchRuns \/ Advance
         \/ \E c \in dag.start : Enqueues(c)
         \/ \E g \in gos : GoSpawns(g) \/ GoStops(g)
         \/ ProcessStep \/ Start \/ Exit \/ Crash \/ DAGUpdated
BY QuietSteps, PickSteps, LiveSteps, EnqueueSteps DEF Next, CronStep, GoStep

\* The types.
LEMMA KindKeeps ==
  ASSUME Base, [Next]_vars
  PROVE  KindInv'
<1> DEFINE Rest == /\ cron' \in Cron /\ plan' \subseteq Run /\ starting' \subseteq Run
                   /\ procs' \subseteq Run /\ queue' \subseteq dag.start
                   /\ spawned' \in [RunId -> 0 .. 2]
           Recent == latest' \in Latest /\ latest'.at <= latest'.queued
<1>0. /\ KindInv /\ dag \in DAGs /\ dag.start \subseteq Time /\ Time \subseteq Nat
      /\ clock \in Time /\ clock \in Nat /\ 0 \in Time
  BY BaseFacts, TickPlannerAssumption DEF Base, RInv, Time
<1>1. /\ dag' = dag /\ entry' \in BOOLEAN /\ suspended' \in BOOLEAN
      /\ upset' \subseteq Upsets /\ gos' \subseteq Go
  BY FlagsKeep, GoesKeep
<1>2. SUFFICES Rest /\ Recent
  BY <1>1, <1>2 DEF KindInv
<1>3. latest' = latest => Recent
  BY <1>0 DEF KindInv
<1>4. \A s \in dag.start : Catchup(s) \in Run
  BY <1>0 DEF Catchup, Planned, Run
<1>5. CASE Quiet \/ Start \/ DAGUpdated
  <2>1. UNCHANGED <<cron, plan, runtime, spawned>>
    BY <1>5 DEF Quiet, Mild, Start, DAGUpdated, Event, history
  <2> QED
    BY <1>0, <1>3, <2>1 DEF KindInv, runtime
<1>6. CASE Picks
  <2>1. Slots(buffer) \subseteq dag.start
    BY BaseFacts
  <2>2. plan' \subseteq Run
    BY <1>4, <1>6, <2>1 DEF Picks
  <2> QED
    BY <1>0, <1>3, <1>6, <2>2 DEF KindInv, Picks, runtime, Cron
<1>7. CASE Lives
  BY <1>0, <1>3, <1>7 DEF KindInv, Lives, runtime, Cron
<1>8. CASE DispatchRuns \/ Advance
  BY <1>0, <1>3, <1>8 DEF KindInv, DispatchRuns, Advance, runtime, history, Cron
<1>9. ASSUME NEW c \in dag.start, Enqueues(c) PROVE Rest /\ Recent
  <2>1. Rest
    BY <1>0, <1>9 DEF KindInv, Enqueues, Cron
  <2>2. latest' = latest \/ latest' = [run |-> Catchup(c), queued |-> clock, at |-> 0, ok |-> FALSE]
    BY <1>9 DEF Enqueues
  <2>3. CASE latest' = [run |-> Catchup(c), queued |-> clock, at |-> 0, ok |-> FALSE]
    <3>1. latest' \in Latest
      BY <1>0, <1>4, <2>3 DEF Latest
    <3>2. latest'.at = 0 /\ latest'.queued = clock /\ 0 <= clock
      BY <1>0, <2>3
    <3> QED
      BY <2>1, <3>1, <3>2
  <2> QED
    BY <1>3, <2>1, <2>2, <2>3
<1>10. ASSUME NEW g \in gos, GoSpawns(g) PROVE Rest /\ Recent
  <2>1. g.run \in Run
    BY <1>0 DEF KindInv, Go
  <2>2. UNCHANGED <<cron, plan, procs, queue, latest>> /\ starting' = starting \cup {g.run}
    BY <1>10 DEF GoSpawns
  <2>3. spawned' \in [RunId -> 0 .. 2]
    <3>1. PICK i : spawned' = [spawned EXCEPT ![i] = IF @ < 2 THEN @ + 1 ELSE @]
      BY <1>10 DEF GoSpawns
    <3>2. \A j \in RunId : spawned[j] \in 0 .. 2
      BY <1>0 DEF KindInv
    <3>3. \A n \in 0 .. 2 : (IF n < 2 THEN n + 1 ELSE n) \in 0 .. 2
      OBVIOUS
    <3> QED
      BY <1>0, <3>1, <3>2, <3>3 DEF KindInv
  <2> QED
    BY <1>0, <1>3, <2>1, <2>2, <2>3 DEF KindInv
<1>11. ASSUME NEW g \in gos, GoStops(g) PROVE Rest /\ Recent
  <2>1. g.run \in Run
    BY <1>0 DEF KindInv, Go
  <2>2. /\ UNCHANGED <<cron, plan, queue, latest, spawned>> /\ procs' = {}
        /\ starting' \subseteq starting \cup {g.run}
    BY <1>11 DEF GoStops, history
  <2> QED
    BY <1>0, <1>3, <2>1, <2>2 DEF KindInv
<1>12. ASSUME NEW r \in starting, ProcessStarts(r) PROVE Rest /\ Recent
  <2>1. /\ UNCHANGED <<cron, plan, queue, spawned>> /\ starting' \subseteq starting
        /\ procs' \subseteq procs \cup {r}
        /\ latest' = latest \/ latest' = [run |-> r, queued |-> clock, at |-> clock, ok |-> FALSE]
    BY <1>12 DEF ProcessStarts, history
  <2>2. CASE latest' = [run |-> r, queued |-> clock, at |-> clock, ok |-> FALSE]
    <3>1. Recent
      <4>1. latest' \in Latest
        BY <1>0, <2>2 DEF KindInv, Latest
      <4>2. latest'.at = clock /\ latest'.queued = clock
        BY <2>2
      <4> QED
        BY <1>0, <4>1, <4>2
    <3> QED
      BY <1>0, <2>1, <3>1 DEF KindInv
  <2> QED
    BY <1>0, <1>3, <2>1, <2>2 DEF KindInv
<1>13. ASSUME NEW s \in queue, QueueStarts(s) PROVE Rest /\ Recent
  <2>1. /\ UNCHANGED <<cron, plan, starting, spawned>> /\ queue' \subseteq queue
        /\ procs' = procs \cup {Catchup(s)}
        /\ latest' = latest \/ latest' = [latest EXCEPT !.at = latest.queued]
    BY <1>13 DEF QueueStarts, history, Catchup
  <2>2. [latest EXCEPT !.at = latest.queued] \in Latest
    BY <1>0 DEF KindInv, Latest
  <2>3. Recent
    BY <1>0, <2>1, <2>2 DEF KindInv, Latest
  <2> QED
    BY <1>0, <1>4, <2>1, <2>3 DEF KindInv
<1>14. ASSUME NEW r \in procs, ProcessEnds(r) PROVE Rest /\ Recent
  <2>1. dag.skipIfSuccessful \in BOOLEAN
    BY <1>0, TickPlannerAssumption DEF DAG
  <2>2. PICK ok \in BOOLEAN :
          /\ UNCHANGED <<cron, plan, starting, queue, spawned>> /\ procs' \subseteq procs
          /\ latest' = latest \/ latest' = [latest EXCEPT !.ok = ok]
    BY <1>14, <2>1 DEF ProcessEnds, history
  <2>3. Recent
    BY <1>0, <2>2 DEF KindInv, Latest
  <2> QED
    BY <1>0, <2>2, <2>3 DEF KindInv
<1>15. CASE Exit \/ Crash
  <2>1. /\ cron' = "select" /\ plan' = {}
        /\ UNCHANGED <<starting, procs, queue, spawned>>
    BY <1>15 DEF Exit, Crash, Forget, runtime
  <2>2. Rest
    BY <1>0, <2>1 DEF KindInv, Cron
  <2>3. CASE latest' = latest
    BY <1>3, <2>2, <2>3
  <2>4. CASE latest' # latest
    <3>1. PICK r : r = CHOOSE q \in plan : TRUE
      OBVIOUS
    <3>2. Crash /\ cron \in {"created", "queued"}
      BY <1>15, <2>4 DEF Exit, Crash, runtime
    <3>3. plan # {}
      BY <3>2 DEF Base, IInv, PlanInv, PlansCatchup, InEnqueue
    <3>4. r \in Run
      BY <1>0, <3>1, <3>3 DEF KindInv
    <3>5. latest' = [NoLatest EXCEPT !.run = r, !.queued = clock]
      BY <3>1, <3>2 DEF Crash
    <3>6. latest' = [run |-> r, queued |-> clock, at |-> 0, ok |-> FALSE]
      BY <3>5 DEF NoLatest
    <3>7. Recent
      <4>1. latest' \in Latest
        BY <1>0, <3>4, <3>6 DEF Latest
      <4>2. latest'.at = 0 /\ latest'.queued = clock
        BY <3>6
      <4> QED
        BY <1>0, <4>1, <4>2
    <3> QED
      BY <2>2, <3>7
  <2> QED
    BY <2>3, <2>4
<1> QED
  BY <1>5, <1>6, <1>7, <1>8, <1>9, <1>10, <1>11, <1>12, <1>13, <1>14, <1>15, StepKinds
     DEF ProcessStep

\* Processes and the queue processor move attempts on.
LEMMA RuntimeMild ==
  ASSUME Base, (\E g \in gos : GoStops(g)) \/ ProcessStep
  PROVE  Mild
<1>0. /\ rec \in [RunId -> RecStatus] /\ dag.start \subseteq RunId
      /\ \A s \in dag.start : s # OneOff
  BY BaseFacts
<1>1. /\ \A t \in queue : rec[t] = "queued"
      /\ \A r \in procs : r.kind = "catchup"
                            => r.slot \in dag.start /\ rec[r.slot] \in {"running", "ended"}
  BY DEF Base, RInv, QueueInv
<1>2. UNCHANGED <<clock, phase, dag, wm, disk, buffer, tickTime, cron, plan, spawned, upset>>
  BY DEF ProcessStep, GoStops, ProcessStarts, QueueStarts, ProcessEnds, input, history
<1>3. gos' \subseteq gos
  BY DEF ProcessStep, GoStops, ProcessStarts, QueueStarts, ProcessEnds
<1>4. SUFFICES \A s \in dag.start : rec'[s] = "none" <=> rec[s] = "none"
  BY <1>2, <1>3, <1>4 DEF Mild, Alive
<1>5. CASE \E g \in gos : GoStops(g)
  <2>1. rec' = [r \in RunId |-> IF rec[r] = "running" THEN "ended" ELSE rec[r]]
    BY <1>5 DEF GoStops
  <2> QED
    BY <1>0, <2>1
<1>6. CASE \E r \in starting : ProcessStarts(r)
  <2>1. rec' = rec \/ rec' = [rec EXCEPT ![OneOff] = "running"]
    BY <1>6 DEF ProcessStarts
  <2> QED
    BY <1>0, <2>1
<1>7. CASE \E s \in queue : QueueStarts(s)
  <2>1. PICK t \in queue : rec' = [rec EXCEPT ![t] = "running"]
    BY <1>7 DEF QueueStarts
  <2>2. rec[t] # "none"
    BY <1>1
  <2> QED
    BY <1>0, <2>1, <2>2
<1>8. CASE \E r \in procs : ProcessEnds(r)
  <2>1. PICK r \in procs :
          rec' = IF r.kind \in {"catchup", "oneoff"} THEN [rec EXCEPT ![IdOf(r)] = "ended"] ELSE rec
    BY <1>8 DEF ProcessEnds
  <2>2. PICK i : i = IdOf(r)
    OBVIOUS
  <2>3. r.kind = "oneoff" => i = OneOff
    BY <2>2 DEF IdOf
  <2>4. r.kind = "catchup" => i = r.slot
    BY <2>2 DEF IdOf
  <2>5. CASE r.kind = "catchup"
    <3>1. rec' = [rec EXCEPT ![i] = "ended"] /\ rec[i] # "none"
      BY <1>1, <2>1, <2>2, <2>4, <2>5
    <3> QED
      BY <1>0, <3>1
  <2>6. CASE r.kind # "catchup"
    <3>1. rec' = rec \/ rec' = [rec EXCEPT ![OneOff] = "ended"]
      BY <2>1, <2>2, <2>3, <2>6
    <3> QED
      BY <1>0, <3>1
  <2> QED
    BY <2>5, <2>6
<1> QED
  BY <1>5, <1>6, <1>7, <1>8 DEF ProcessStep

\* A goroutine spawns a run: a live one once, and no other goroutine has it.
LEMMA SpawnFacts ==
  ASSUME Base, NEW g \in gos, GoSpawns(g)
  PROVE  /\ UNCHANGED <<clock, phase, dag, wm, disk, buffer, tickTime, cron, plan, upset>>
         /\ UNCHANGED <<rec, queue, procs, latest>> /\ starting' = starting \cup {g.run} /\ Alive
         /\ \A s \in dag.start : g.run # Live(s) => spawned'[s] = spawned[s]
         /\ \A s \in dag.start : g.run = Live(s) =>
              /\ Passed(s) /\ s <= clock
              /\ spawned'[s] = IF spawned[s] < 2 THEN spawned[s] + 1 ELSE spawned[s]
              /\ \A h \in gos' : h.run # Live(s)
<1>0. /\ gos \subseteq Go /\ spawned \in [RunId -> 0 .. 2] /\ dag.start \subseteq RunId
      /\ \A s \in dag.start : s # OneOff /\ s \in Nat
      /\ GoInv /\ ClockInv /\ tickTime \in Nat /\ clock \in Nat
  BY BaseFacts DEF Base, RInv, KindInv
<1>1. /\ UNCHANGED <<clock, phase, dag, wm, disk, buffer, tickTime, cron, plan, upset>>
      /\ UNCHANGED <<rec, queue, procs, latest>> /\ starting' = starting \cup {g.run} /\ Alive
  BY DEF GoSpawns, input, Base, PInv, DownInv
<1>2. PICK i : i = IdOf(g.run)
  OBVIOUS
<1>3. spawned' = [spawned EXCEPT ![i] = IF @ < 2 THEN @ + 1 ELSE @]
  BY <1>2 DEF GoSpawns
<1>4. \A s : Live(s).kind = "live" /\ Live(s).slot = s
  BY PlannedFacts DEF Live
<1>5. g.run \in Run /\ g.run.kind \in {"live", "oneoff"}
  BY <1>0 DEF GoSpawns, Managed, Go
<1>6. g.run.kind = "live" => g.run = Live(g.run.slot) /\ i = g.run.slot
  BY <1>2, <1>5, PlannedFacts DEF IdOf, Live
<1>7. g.run.kind = "oneoff" => i = OneOff
  BY <1>2 DEF IdOf
<1>8. ASSUME NEW s \in dag.start, g.run # Live(s) PROVE spawned'[s] = spawned[s]
  <2>1. s # i
    BY <1>0, <1>5, <1>6, <1>7, <1>8
  <2> QED
    BY <1>0, <1>3, <2>1
<1>9. ASSUME NEW s \in dag.start, g.run = Live(s)
      PROVE  /\ Passed(s) /\ s <= clock
             /\ spawned'[s] = IF spawned[s] < 2 THEN spawned[s] + 1 ELSE spawned[s]
             /\ \A h \in gos' : h.run # Live(s)
  <2>1. g.run.kind = "live" /\ g.run.slot = s /\ i = s
    BY <1>4, <1>6, <1>9
  <2>2. Passed(s) /\ g.pc = "begin" /\ g.tick = s
    BY <1>0, <2>1 DEF GoInv
  <2>3. s <= clock
    BY <1>0, <2>2 DEF Passed, ClockInv
  <2>4. spawned'[s] = IF spawned[s] < 2 THEN spawned[s] + 1 ELSE spawned[s]
    BY <1>0, <1>3, <2>1
  <2>5. gos' = gos \ {g}
    BY <2>1 DEF GoSpawns
  <2>6. ASSUME NEW h \in gos, h.run = Live(s) PROVE h = g
    <3>1. h.run = g.run /\ h.pc = g.pc /\ h.tick = g.tick
      BY <1>0, <1>4, <1>9, <2>2, <2>6 DEF GoInv
    <3>2. h \in Go /\ g \in Go
      BY <1>0
    <3> QED
      BY <3>1, <3>2 DEF Go
  <2> QED
    BY <2>2, <2>3, <2>4, <2>5, <2>6
<1> QED
  BY <1>1, <1>8, <1>9

\* DAGUpdated outside a tick recomputes the buffer.
LEMMA UpdateFacts ==
  ASSUME Base, DAGUpdated
  PROVE  /\ UNCHANGED <<clock, phase, dag, disk, tickTime, cron, plan, gos, runtime, spawned>>
         /\ Alive /\ wm'.lastTick = wm.lastTick /\ upset \subseteq upset'
         /\ cron # "select" => "tick" \in upset'
         /\ tickTime < clock => "late" \in upset'
         /\ \A x \in Slots(buffer') : wm.lastTick < x /\ x <= clock
         /\ Sorted(buffer')
<1>1. wm \in State /\ clock \in Time /\ dag \in DAGs
  BY BaseFacts
<1>2. buffer' = Recompute(wm).buffer
  BY DEF DAGUpdated, Event
<1>3. /\ \A x \in Slots(buffer') : wm.lastTick < x /\ x <= clock
      /\ Sorted(buffer')
  BY <1>1, <1>2, RecomputeSlots
<1> QED
  BY <1>3, EventTick DEF DAGUpdated, Event, Alive

\* Start fills the buffer from the disk; nothing else is under way.
LEMMA StartFacts ==
  ASSUME Base, Start
  PROVE  /\ UNCHANGED <<clock, dag, cron, plan, gos, runtime, spawned, upset>>
         /\ ~Alive /\ Alive' /\ cron = "select" /\ plan = {} /\ gos = {}
         /\ tickTime' = clock /\ wm'.lastTick = disk.lastTick
         /\ \A x \in Slots(buffer') : disk.lastTick < x /\ x <= clock
         /\ Sorted(buffer')
<1>1. disk \in State /\ clock \in Time /\ dag \in DAGs /\ MaxTime \in Nat
  BY BaseFacts
<1>2. PICK l : l = IF entry THEN ReconcileOneOff(disk)
                   ELSE [disk EXCEPT !.last = 0, !.oneOff = "none"]
  OBVIOUS
<1>3. l \in State /\ l.lastTick = disk.lastTick
  <2>1. ReconcileOneOff(disk) \in State /\ ReconcileOneOff(disk).lastTick = disk.lastTick
    BY <1>1 DEF ReconcileOneOff, State
  <2>2. 0 \in Time
    BY <1>1 DEF Time
  <2>3. PICK v : v = [disk EXCEPT !.last = 0]
    OBVIOUS
  <2>4. v \in State /\ v.lastTick = disk.lastTick
    BY <1>1, <2>2, <2>3 DEF State
  <2>5. /\ [v EXCEPT !.oneOff = "none"] \in State
        /\ [v EXCEPT !.oneOff = "none"].lastTick = v.lastTick
    BY <2>4 DEF State
  <2>6. l = ReconcileOneOff(disk) \/ l = [v EXCEPT !.oneOff = "none"]
    BY <1>2, <2>3
  <2> QED
    BY <2>1, <2>4, <2>5, <2>6
<1>4. PICK c : c = IF entry THEN Recompute(l) ELSE [wm |-> l, buffer |-> <<>>]
  OBVIOUS
<1>5. wm' = c.wm /\ buffer' = c.buffer
  BY <1>2, <1>4 DEF Start
<1>6. /\ c.wm.lastTick = disk.lastTick /\ Sorted(c.buffer)
      /\ \A x \in Slots(c.buffer) : disk.lastTick < x /\ x <= clock
  <2>1. CASE entry
    BY <1>1, <1>3, <1>4, <2>1, RecomputeFacts, RecomputeSlots
  <2>2. CASE ~entry
    <3>1. c.wm = l /\ c.buffer = <<>>
      BY <1>4, <2>2
    <3> QED
      BY <1>3, <3>1, EmptySlots
  <2> QED
    BY <2>1, <2>2
<1>7. /\ UNCHANGED <<clock, dag, cron, plan, gos, runtime, spawned, upset>>
      /\ ~Alive /\ Alive' /\ tickTime' = clock
  BY DEF Start, input, history, Alive
<1>8. cron = "select" /\ plan = {} /\ gos = {}
  BY <1>7 DEF Base, PInv, DownInv
<1> QED
  BY <1>5, <1>6, <1>7, <1>8

\* Exit and Crash forget; after an Exit that cut nothing short the watermark is
\* on disk and nothing is starting.
LEMMA EndFacts ==
  ASSUME Base, Exit \/ Crash
  PROVE  /\ UNCHANGED <<clock, dag, disk, rec, queue, starting, procs, spawned>>
         /\ Alive /\ ~Alive' /\ tickTime' = 0 /\ cron' = "select" /\ plan' = {} /\ gos' = {}
         /\ buffer' = <<>> /\ upset \subseteq upset'
         /\ "tick" \notin upset' => /\ cron = "select" /\ plan = {} /\ starting = {}
                                    /\ latest' = latest
                                    /\ upset' = upset /\ (Clean => disk = wm)
<1>1. /\ UNCHANGED <<clock, dag, disk, rec, queue, starting, procs, spawned>>
      /\ Alive /\ ~Alive' /\ tickTime' = 0 /\ cron' = "select" /\ plan' = {} /\ gos' = {}
      /\ buffer' = <<>> /\ upset \subseteq upset'
  BY DEF Exit, Crash, Forget, Alive, input, runtime
<1>2. ASSUME "tick" \notin upset'
      PROVE  /\ cron = "select" /\ plan = {} /\ starting = {} /\ latest' = latest
             /\ upset' = upset /\ (Clean => disk = wm)
  <2>1. /\ Exit /\ cron = "select" /\ starting = {} /\ latest' = latest /\ upset' = upset
        /\ ~dirty /\ saves = {}
    BY <1>2 DEF Exit, Crash, runtime
  <2>2. plan = {}
    BY <2>1 DEF Base, RInv, ClockInv
  <2>3. Clean => disk = wm
    BY <1>1, <2>1 DEF Base, PInv, ResumeInv, Saved
  <2> QED
    BY <2>1, <2>2, <2>3
<1> QED
  BY <1>1, <1>2

\* Nothing gets ahead of the clock.
LEMMA ClockKeeps ==
  ASSUME Base, [Next]_vars
  PROVE  ClockInv'
<1>0. /\ ClockInv /\ clock \in Nat /\ tickTime \in Nat /\ dag.start \subseteq RunId
      /\ \A s \in dag.start : s \in Nat
      /\ rec \in [RunId -> RecStatus] /\ Slots(buffer) \subseteq dag.start
      /\ buffer \in Seq(dag.start) /\ MaxTime \in Nat
  BY BaseFacts DEF Base, RInv
<1>1. /\ tickTime <= clock + 1 /\ (cron # "select" => tickTime <= clock)
      /\ cron \in {"select", "live"} => plan = {}
      /\ \A x \in Slots(buffer) : x <= clock
      /\ \A r \in plan : /\ r.kind = "catchup" => r.slot <= clock
                         /\ r.kind = "live" => r.slot = tickTime /\ r.slot \in dag.start
      /\ \A s \in dag.start : spawned[s] > 0 \/ rec[s] # "none" => s <= clock
  BY <1>0 DEF ClockInv
<1>2. \A s : Catchup(s).kind = "catchup" /\ Catchup(s).slot = s
  BY PlannedFacts DEF Catchup
<1>3. CASE Mild
  <2>1. /\ UNCHANGED <<dag, tickTime, cron, plan, spawned>> /\ clock' \in {clock, clock + 1}
        /\ \A s \in dag.start : rec'[s] = "none" <=> rec[s] = "none"
    BY <1>3 DEF Mild
  <2>2. Slots(buffer)' \subseteq Slots(buffer)
    BY <1>3, EmptySlots DEF Mild
  <2>3. \A x \in Slots(buffer)' : x <= clock'
    BY <1>0, <1>1, <2>1, <2>2
  <2>4. \A r \in plan' : /\ r.kind = "catchup" => r.slot <= clock'
                         /\ r.kind = "live" => r.slot = tickTime' /\ r.slot \in dag'.start
    <3>1. \A r \in plan : r.kind = "catchup" => r.slot \in dag.start
      BY BaseFacts
    <3> QED
      BY <1>0, <1>1, <2>1, <3>1
  <2>5. \A s \in dag'.start : spawned'[s] > 0 \/ rec'[s] # "none" => s <= clock'
    BY <1>0, <1>1, <2>1
  <2>6. /\ tickTime' <= clock' + 1 /\ (cron' # "select" => tickTime' <= clock')
        /\ cron' \in {"select", "live"} => plan' = {}
    <3>1. tickTime <= clock + 1 /\ (clock' = clock \/ clock' = clock + 1)
      BY <1>1, <2>1
    <3>2. tickTime \in Nat /\ clock \in Nat
      BY <1>0
    <3>3. tickTime <= clock' + 1 /\ (tickTime <= clock => tickTime <= clock')
      BY <3>1, <3>2
    <3> QED
      BY <1>1, <2>1, <3>3
  <2> QED
    BY <2>3, <2>4, <2>5, <2>6 DEF ClockInv
<1>4. CASE Picks
  <2>1. /\ UNCHANGED <<clock, dag, tickTime, spawned, rec>> /\ tickTime <= clock
        /\ cron' \in {"live", "dispatch"} /\ (cron' = "live" => plan' = {})
        /\ Slots(buffer)' \subseteq Slots(buffer)
        /\ plan' = {} \/ \E h \in Slots(buffer) : plan' = {Catchup(h)}
    BY <1>4 DEF Picks, runtime
  <2>2. \A r \in plan' : r.kind = "catchup" /\ r.slot <= clock
    BY <1>1, <1>2, <2>1
  <2> QED
    BY <1>0, <1>1, <2>1, <2>2 DEF ClockInv
<1>5. CASE Lives
  BY <1>1, <1>5 DEF Lives, ClockInv, runtime
<1>6. CASE DispatchRuns
  BY <1>1, <1>6 DEF DispatchRuns, ClockInv, input, runtime, history
<1>7. CASE Advance
  <2>1. /\ UNCHANGED <<clock, dag, buffer, spawned, rec>> /\ cron = "advance"
        /\ plan' = {} /\ cron' = "select"
        /\ tickTime' = IF tickTime < MaxTime THEN tickTime + 1 ELSE tickTime
    BY <1>7 DEF Advance, input, runtime, history
  <2>2. tickTime' <= clock + 1
    BY <1>0, <1>1, <2>1
  <2> QED
    BY <1>1, <2>1, <2>2 DEF ClockInv
<1>8. ASSUME NEW c \in dag.start, Enqueues(c) PROVE ClockInv'
  <2>1. /\ UNCHANGED <<clock, dag, tickTime, plan, spawned>> /\ plan = {Catchup(c)}
        /\ cron \notin {"select", "live"} /\ cron' \notin {"select", "live"}
        /\ rec' = rec \/ \E x : rec' = [rec EXCEPT ![c] = x]
        /\ buffer' = buffer \/ buffer' = Reinsert(buffer, c)
    BY <1>8 DEF Enqueues
  <2>2. c <= clock
    BY <1>1, <1>2, <2>1
  <2>3. Slots(buffer)' \subseteq Slots(buffer) \cup {c}
    BY <1>0, <2>1, ReinsertSlots
  <2>4. \A x \in Slots(buffer)' : x <= clock
    BY <1>1, <2>2, <2>3
  <2>5. \A s \in dag.start : spawned[s] > 0 \/ rec'[s] # "none" => s <= clock
    BY <1>0, <1>1, <2>1, <2>2
  <2> QED
    BY <1>1, <2>1, <2>4, <2>5 DEF ClockInv
<1>9. ASSUME NEW g \in gos, GoSpawns(g) PROVE ClockInv'
  <2>1. /\ UNCHANGED <<clock, dag, buffer, tickTime, cron, plan, rec>>
        /\ \A s \in dag.start : s <= clock \/ spawned'[s] = spawned[s]
    BY <1>9, SpawnFacts
  <2> QED
    BY <1>1, <2>1 DEF ClockInv
<1>10. CASE Start
  <2>1. /\ UNCHANGED <<clock, dag, cron, plan, runtime, spawned>> /\ tickTime' = clock
        /\ cron = "select" /\ plan = {} /\ \A x \in Slots(buffer)' : x <= clock
    BY <1>10, StartFacts
  <2> QED
    BY <1>0, <1>1, <2>1 DEF ClockInv, runtime
<1>11. CASE Exit \/ Crash
  <2>1. /\ UNCHANGED <<clock, dag, rec, spawned>> /\ tickTime' = 0 /\ cron' = "select"
        /\ plan' = {} /\ buffer' = <<>>
    BY <1>11, EndFacts
  <2> QED
    BY <1>0, <1>1, <2>1, EmptySlots DEF ClockInv
<1>12. CASE DAGUpdated
  <2>1. /\ UNCHANGED <<clock, dag, tickTime, cron, plan, runtime, spawned>>
        /\ \A x \in Slots(buffer)' : x <= clock
    BY <1>12, UpdateFacts
  <2> QED
    BY <1>1, <2>1 DEF ClockInv, runtime
<1> QED
  BY <1>3, <1>4, <1>5, <1>6, <1>7, <1>8, <1>9, <1>10, <1>11, <1>12, StepKinds, RuntimeMild
     DEF Quiet

\* A live run's goroutine comes after its tick.
LEMMA GoKeeps ==
  ASSUME Base, [Next]_vars
  PROVE  GoInv'
<1>0. /\ GoInv /\ ClockInv /\ clock \in Nat /\ tickTime \in Nat /\ MaxTime \in Nat
      /\ \A s \in dag.start : s \in Nat /\ s < MaxTime
      /\ dag' = dag /\ \A g \in gos' : g \in gos \/ g.run.kind # "live" \/ DispatchRuns
  BY BaseFacts, FlagsKeep, GoesKeep DEF Base, RInv
<1>1. CASE DispatchRuns
  <2>1. /\ gos' = gos \cup {[run |-> r, tick |-> tickTime, pc |-> "begin"] : r \in plan}
        /\ tickTime' = tickTime /\ cron = "dispatch" /\ cron' = "advance"
    BY <1>1 DEF DispatchRuns
  <2>2. ASSUME NEW g \in gos', g.run.kind = "live"
        PROVE  /\ g.pc = "begin" /\ g.tick = g.run.slot
               /\ g.run.slot \in dag.start /\ Passed(g.run.slot)'
    <3>1. CASE g \in gos
      BY <1>0, <2>1, <2>2, <3>1 DEF GoInv, Passed
    <3>2. ASSUME NEW r \in plan, g = [run |-> r, tick |-> tickTime, pc |-> "begin"]
          PROVE  /\ g.pc = "begin" /\ g.tick = g.run.slot
                 /\ g.run.slot \in dag.start /\ Passed(g.run.slot)'
      <4>1. g.run = r /\ g.tick = tickTime /\ g.pc = "begin"
        BY <3>2
      <4>2. r.slot = tickTime /\ r.slot \in dag.start
        BY <1>0, <2>2, <4>1 DEF ClockInv
      <4> QED
        BY <2>1, <4>1, <4>2 DEF Passed
    <3> QED
      BY <2>1, <3>1, <3>2
  <2> QED
    BY <1>0, <2>2 DEF GoInv
<1>2. ASSUME \A s \in dag.start : Passed(s) => Passed(s)', ~DispatchRuns PROVE GoInv'
  BY <1>0, <1>2 DEF GoInv
<1>3. ASSUME gos' = {} PROVE GoInv'
  BY <1>3 DEF GoInv
<1>4. CASE tickTime' = tickTime /\ (cron = "advance" => cron' = "advance")
  BY <1>1, <1>2, <1>4 DEF Passed
<1>5. CASE Advance
  <2>1. /\ tickTime' = IF tickTime < MaxTime THEN tickTime + 1 ELSE tickTime
        /\ cron = "advance"
    BY <1>5 DEF Advance
  <2>2. \A s \in dag.start : Passed(s) => Passed(s)'
    BY <1>0, <2>1 DEF Passed
  <2> QED
    BY <1>1, <1>2, <2>2
<1>6. CASE Start \/ Exit \/ Crash
  BY <1>3, <1>6, StartFacts, EndFacts
<1>7. CASE Mild \/ Picks \/ Lives
  BY <1>4, <1>7 DEF Mild, Picks, Lives
<1>8. ASSUME NEW c \in dag.start, Enqueues(c) PROVE GoInv'
  BY <1>4, <1>8 DEF Enqueues
<1>9. ASSUME NEW g \in gos, GoSpawns(g) PROVE GoInv'
  BY <1>4, <1>9, SpawnFacts
<1>10. CASE DAGUpdated
  BY <1>4, <1>10, UpdateFacts
<1> QED
  BY <1>1, <1>5, <1>6, <1>7, <1>8, <1>9, <1>10, StepKinds, RuntimeMild DEF Quiet

\* One attempt at a time is on its way to the queue.
LEMMA QueueKeeps ==
  ASSUME Base, [Next]_vars
  PROVE  QueueInv'
<1>0. /\ rec \in [RunId -> RecStatus] /\ dag.start \subseteq RunId /\ dag' = dag
      /\ queue \subseteq dag.start /\ \A s \in dag.start : s # OneOff
  BY BaseFacts, FlagsKeep DEF Base, RInv, KindInv
<1>1. /\ \A s \in dag.start : Catchup(s) \in plan =>
           /\ cron # "advance" => queue = {}
           /\ cron = "created" => rec[s] = "created"
           /\ cron = "queued" => rec[s] = "queued"
      /\ \A t, u \in queue : t = u
      /\ \A t \in queue : rec[t] = "queued"
      /\ \A r \in starting : r.kind # "catchup"
      /\ \A r \in procs : r.kind = "catchup"
                            => r.slot \in dag.start /\ rec[r.slot] \in {"running", "ended"}
  BY DEF Base, RInv, QueueInv
<1>2. \A s : Catchup(s).kind = "catchup" /\ Catchup(s).slot = s
  BY PlannedFacts DEF Catchup
<1>3. ASSUME UNCHANGED runtime,
             \A s \in dag.start : Catchup(s) \in plan' =>
               /\ cron' # "advance" => queue = {}
               /\ cron' = "created" => rec[s] = "created"
               /\ cron' = "queued" => rec[s] = "queued"
      PROVE  QueueInv'
  BY <1>0, <1>1, <1>3 DEF QueueInv, runtime
<1>4. CASE UNCHANGED runtime /\ cron' = cron /\ plan' = plan
  BY <1>1, <1>3, <1>4
<1>5. CASE UNCHANGED runtime /\ cron' \in {"select", "live", "dispatch", "advance"}
             /\ \A s \in dag.start : Catchup(s) \in plan' => cron' = "advance" \/ queue = {}
  BY <1>3, <1>5
<1>6. CASE Picks \/ Lives \/ DispatchRuns \/ Advance
  <2>1. CASE Picks \/ Lives
    BY <1>2, <1>5, <2>1 DEF Picks, Lives
  <2>2. CASE DispatchRuns \/ Advance
    BY <1>5, <2>2 DEF DispatchRuns, Advance
  <2> QED
    BY <1>6, <2>1, <2>2
<1>7. ASSUME NEW c \in dag.start, Enqueues(c) PROVE QueueInv'
  <2>1. /\ plan' = plan /\ queue = {} /\ starting' = starting /\ procs' = procs
        /\ \A s : Catchup(s) \in plan => s = c
    BY <1>2, <1>7 DEF Enqueues
  <2>2. ASSUME rec[c] \in {"none", "created", "queued"}, NEW x, rec' = [rec EXCEPT ![c] = x],
               queue' = {},
               cron' # "advance" => x = cron' /\ cron' \in {"created", "queued"}
        PROVE  QueueInv'
    <3>1. rec'[c] = x
      BY <1>0, <2>2
    <3>2. \A r \in procs : r.kind = "catchup" => r.slot # c /\ rec'[r.slot] = rec[r.slot]
      BY <1>0, <1>1, <2>2
    <3>3. \A s \in dag.start : Catchup(s) \in plan' =>
            /\ cron' # "advance" => queue' = {}
            /\ cron' = "created" => rec'[s] = "created"
            /\ cron' = "queued" => rec'[s] = "queued"
      BY <2>1, <2>2, <3>1
    <3> QED
      BY <1>0, <1>1, <2>1, <2>2, <3>2, <3>3 DEF QueueInv
  <2>3. CASE cron = "dispatch" /\ cron' \in {"create", "advance"}
               /\ UNCHANGED <<rec, queue, latest, buffer>>
    <3>1. UNCHANGED runtime
      BY <2>1, <2>3 DEF runtime
    <3> QED
      BY <1>3, <2>1, <2>3, <3>1
  <2>4. CASE cron = "create" /\ cron' = "created" /\ rec[c] = "none"
               /\ rec' = [rec EXCEPT ![c] = "created"] /\ queue' = queue
    BY <2>1, <2>2, <2>4
  <2>5. CASE cron = "created" /\ cron' = "queued" /\ rec[c] = "created"
               /\ rec' = [rec EXCEPT ![c] = "queued"] /\ queue' = queue
    BY <2>1, <2>2, <2>5
  <2>6. CASE cron' = "advance" /\ rec[c] = "queued" /\ queue' = {c} /\ rec' = rec
    BY <1>0, <1>1, <2>1, <2>6 DEF QueueInv
  <2>7. CASE cron' = "advance" /\ queue' = queue /\ rec' = rec
    BY <1>0, <1>1, <2>1, <2>7 DEF QueueInv
  <2>8. CASE cron' = "advance" /\ queue' = queue /\ rec' = [rec EXCEPT ![c] = "none"]
               /\ rec[c] \in {"none", "created", "queued"}
    BY <2>1, <2>2, <2>8
  <2> QED
    BY <1>7, <2>3, <2>4, <2>5, <2>6, <2>7, <2>8 DEF Enqueues
<1>8. CASE Quiet \/ Start \/ DAGUpdated
  BY <1>4, <1>8, StartFacts, UpdateFacts DEF Quiet, Mild
<1>9. CASE Exit \/ Crash
  <2>1. UNCHANGED <<rec, queue, starting, procs>> /\ plan' = {}
    BY <1>9, EndFacts
  <2> QED
    BY <1>0, <1>1, <2>1 DEF QueueInv
<1>10. ASSUME NEW g \in gos, GoSpawns(g) PROVE QueueInv'
  <2>1. /\ UNCHANGED <<cron, plan, rec, queue, procs>> /\ starting' = starting \cup {g.run}
    BY <1>10, SpawnFacts
  <2>2. g.run.kind # "catchup"
    BY <1>10 DEF GoSpawns, Managed
  <2> QED
    BY <1>0, <1>1, <2>1, <2>2 DEF QueueInv
<1>11. ASSUME NEW g \in gos, GoStops(g) PROVE QueueInv'
  <2>1. /\ UNCHANGED <<cron, plan, queue>> /\ procs' = {}
        /\ starting' \subseteq starting \cup {g.run} /\ g.run.kind # "catchup"
        /\ rec' = [r \in RunId |-> IF rec[r] = "running" THEN "ended" ELSE rec[r]]
    BY <1>11 DEF GoStops
  <2>2. \A s \in dag.start : rec[s] # "running" => rec'[s] = rec[s]
    BY <1>0, <2>1
  <2> QED
    BY <1>0, <1>1, <2>1, <2>2 DEF QueueInv
<1>12. ASSUME NEW r \in starting, ProcessStarts(r) PROVE QueueInv'
  <2>1. /\ UNCHANGED <<cron, plan, queue>> /\ procs' \subseteq procs \cup {r}
        /\ starting' \subseteq starting /\ r.kind # "catchup"
        /\ rec' = rec \/ rec' = [rec EXCEPT ![OneOff] = "running"]
    BY <1>1, <1>12 DEF ProcessStarts
  <2>2. \A s \in dag.start : rec'[s] = rec[s]
    BY <1>0, <2>1
  <2> QED
    BY <1>0, <1>1, <2>1, <2>2 DEF QueueInv
<1>13. ASSUME NEW t \in queue, QueueStarts(t) PROVE QueueInv'
  <2>1. /\ UNCHANGED <<cron, plan, starting>> /\ procs' = procs \cup {Catchup(t)}
        /\ queue' = {} /\ rec' = [rec EXCEPT ![t] = "running"] /\ t \in dag.start
    BY <1>0, <1>1, <1>13 DEF QueueStarts, Catchup
  <2>2. rec'[t] = "running" /\ \A s \in dag.start : s # t => rec'[s] = rec[s]
    BY <1>0, <2>1
  <2>3. \A s \in dag.start : Catchup(s) \in plan => cron = "advance"
    BY <1>1, <1>13
  <2>4. \A r \in procs' : r.kind = "catchup"
                            => r.slot \in dag.start /\ rec'[r.slot] \in {"running", "ended"}
    BY <1>1, <1>2, <2>1, <2>2
  <2> QED
    BY <1>0, <1>1, <2>1, <2>3, <2>4 DEF QueueInv
<1>14. ASSUME NEW p \in procs, ProcessEnds(p) PROVE QueueInv'
  <2>1. /\ UNCHANGED <<cron, plan, starting, queue>> /\ procs' \subseteq procs
        /\ rec' = IF p.kind \in {"catchup", "oneoff"} THEN [rec EXCEPT ![IdOf(p)] = "ended"] ELSE rec
    BY <1>14 DEF ProcessEnds
  <2>2. /\ p.kind = "oneoff" => IdOf(p) = OneOff
        /\ p.kind = "catchup" => IdOf(p) = p.slot
    BY DEF IdOf
  <2>3. ASSUME NEW s \in dag.start
        PROVE  rec'[s] = rec[s] \/ (rec[s] \in {"running", "ended"} /\ rec'[s] = "ended")
    <3>1. CASE p.kind = "catchup"
      <4>1. rec' = [rec EXCEPT ![p.slot] = "ended"] /\ rec[p.slot] \in {"running", "ended"}
        BY <1>1, <2>1, <2>2, <3>1
      <4> QED
        BY <1>0, <4>1
    <3>2. CASE p.kind = "oneoff"
      <4>1. rec' = [rec EXCEPT ![OneOff] = "ended"]
        BY <2>1, <2>2, <3>2
      <4> QED
        BY <1>0, <4>1
    <3>3. CASE p.kind \notin {"catchup", "oneoff"}
      BY <2>1, <3>3
    <3> QED
      BY <3>1, <3>2, <3>3
  <2>4. \A s \in dag.start : rec[s] \in {"created", "queued"} => rec'[s] = rec[s]
    BY <2>3
  <2>5. \A s \in dag.start : rec[s] \in {"running", "ended"} => rec'[s] \in {"running", "ended"}
    BY <2>3
  <2> QED
    BY <1>0, <1>1, <2>1, <2>4, <2>5 DEF QueueInv
<1> QED
  BY <1>6, <1>7, <1>8, <1>9, <1>10, <1>11, <1>12, <1>13, <1>14, StepKinds DEF ProcessStep

\* Every step preserves RInv.
LEMMA NextRInv == Base /\ [Next]_vars => RInv'
BY KindKeeps, ClockKeeps, QueueKeeps, GoKeeps DEF RInv

\* The three together hold initially.
LEMMA InitBase == Init => Base
BY InitIInv, InitPInv, InitRInv DEF Base

\* A step preserves them.
LEMMA NextBase == Base /\ [Next]_vars => Base'
BY NextIInv, NextPInv, NextRInv DEF Base

-----------------------------------------------------------------------------
(* Types                                                                   *)

\* The variables of the planner keep their types for every DAG, cap and
\* number of minutes: in particular the buffer never holds more than the cap
\* and only minutes of the schedule, through failed enqueues that put an item
\* back, updates that recompute it and restarts that fill it (ComputeMissedIntervals,
\* reinsertCatchupItem, recomputeBuffer).
THEOREM PlannerTypeCorrect == Spec => []TypeOK
<1>1. Base => TypeOK
  <2> SUFFICES ASSUME Base PROVE TypeOK
    OBVIOUS
  <2>1. IInv /\ PInv /\ KindInv
    BY DEF Base, RInv
  <2>2. ToSet(buffer) \subseteq dag.start
    BY <2>1 DEF PInv, BufferInv, ToSet
  <2>3. {entry, suspended, dirty} \subseteq BOOLEAN
    BY <2>1 DEF PInv, StateInv, KindInv
  <2>4. {wm, disk} \subseteq State
    BY <2>1 DEF PInv, StateInv
  <2>5. plan \cup starting \cup procs \subseteq Run
    BY <2>1 DEF KindInv
  <2>6. rec \in [RunId -> {"none", "created", "queued", "running", "ended"}]
    BY <2>1 DEF IInv, RecInv, RecStatus
  <2>7. /\ clock \in Time /\ tickTime \in Time /\ suspendedAt \in Time
        /\ phase \in {"down", "up", "stopping", "stopped"} /\ dag \in DAGs
        /\ Len(buffer) <= MaxMissed
    BY <2>1 DEF PInv, TimeInv, BufferInv
  <2> QED
    BY <2>1, <2>2, <2>3, <2>4, <2>5, <2>6, <2>7 DEF TypeOK, KindInv, Cron, Upsets
<1> QED
  BY <1>1, InitBase, NextBase, PTL DEF Spec

-----------------------------------------------------------------------------
(* A slot is run once                                                      *)

\* The latest attempt tells of every run there was.
LEMMA CoverKeeps ==
  ASSUME Base, CoverInv, [Next]_vars
  PROVE  CoverInv'
<1>0. /\ rec \in [RunId -> RecStatus] /\ dag.start \subseteq RunId /\ dag' = dag
      /\ \A s \in dag.start : s \in Nat /\ s < MaxTime
      /\ clock \in Nat /\ tickTime \in Nat /\ MaxTime \in Nat
      /\ spawned \in [RunId -> 0 .. 2]
      /\ upset \subseteq upset'
  BY BaseFacts, FlagsKeep
<1>1. /\ queue \subseteq dag.start /\ latest \in Latest
      /\ latest.at \in Nat /\ latest.queued \in Nat /\ latest.at <= latest.queued
  <2>1. /\ queue \subseteq dag.start /\ latest \in Latest /\ latest.at <= latest.queued
        /\ Time \subseteq Nat
    BY BaseFacts DEF Base, RInv, KindInv
  <2>2. latest.at \in Time /\ latest.queued \in Time
    BY <2>1 DEF Latest
  <2> QED
    BY <2>1, <2>2
<1>2. \A s \in dag.start : spawned[s] > 0 \/ rec[s] # "none" => s <= clock
  BY DEF Base, RInv, ClockInv
<1>3. SUFFICES ASSUME Smooth', NEW s \in dag.start
               PROVE  /\ spawned'[s] > 0 => Covered(s)' \/ (Alive' /\ Live(s) \in starting' /\ Passed(s)')
                      /\ rec'[s] # "none" => Covered(s)' \/ Enqueueing(s)'
  BY <1>0 DEF CoverInv, Live
<1>4. Smooth
  BY <1>0, <1>3 DEF Smooth
<1>5. /\ spawned[s] > 0 => Covered(s) \/ (Alive /\ Live(s) \in starting /\ Passed(s))
      /\ rec[s] # "none" => Covered(s) \/ Enqueueing(s)
  BY <1>3, <1>4 DEF CoverInv
<1>6. s \in Nat /\ s < MaxTime
  BY <1>0, <1>3
<1>7. ASSUME UNCHANGED <<queue, latest>> PROVE Covered(s) => Covered(s)'
  BY <1>7 DEF Covered, Catchup, Planned
<1> DEFINE Goal == /\ spawned'[s] > 0 => Covered(s)' \/ (Alive' /\ Live(s) \in starting' /\ Passed(s)')
                   /\ rec'[s] # "none" => Covered(s)' \/ Enqueueing(s)'
<1>8. ASSUME UNCHANGED <<runtime, spawned>>, Alive => Alive', Alive => (Passed(s) => Passed(s)'),
             Enqueueing(s) => Enqueueing(s)'
      PROVE  Goal
  BY <1>5, <1>7, <1>8 DEF runtime
<1>9. CASE Quiet \/ DAGUpdated
  <2>1. /\ UNCHANGED <<runtime, spawned, cron, plan, tickTime>> /\ (Alive => Alive')
    BY <1>9, UpdateFacts DEF Quiet, Mild, Alive
  <2> QED
    BY <1>8, <2>1 DEF Passed, Enqueueing
<1>10. CASE Picks \/ Lives \/ DispatchRuns
  <2>1. /\ UNCHANGED <<runtime, spawned, tickTime>> /\ (Alive => Alive')
        /\ cron \in {"select", "live", "dispatch"}
    BY <1>10 DEF Picks, Lives, DispatchRuns, history, Alive
  <2> QED
    BY <1>8, <2>1 DEF Passed, Enqueueing
<1>11. CASE Advance
  <2>1. /\ UNCHANGED <<runtime, spawned, phase>> /\ cron = "advance"
        /\ tickTime' = IF tickTime < MaxTime THEN tickTime + 1 ELSE tickTime
    BY <1>11 DEF Advance, history
  <2>2. Passed(s) => Passed(s)'
    BY <1>0, <1>6, <2>1 DEF Passed
  <2> QED
    BY <1>8, <2>1, <2>2 DEF Enqueueing, Alive
<1>12. CASE Start
  <2>1. UNCHANGED <<runtime, spawned, cron, plan>> /\ ~Alive /\ Alive' /\ cron = "select"
    BY <1>12, StartFacts
  <2> QED
    BY <1>8, <2>1 DEF Enqueueing
<1>13. CASE Exit \/ Crash
  <2>1. /\ UNCHANGED <<rec, queue, spawned, latest>> /\ starting = {} /\ cron = "select"
    BY <1>3, <1>13, EndFacts DEF Smooth
  <2> QED
    BY <1>5, <1>7, <2>1 DEF Enqueueing
<1>14. ASSUME NEW c \in dag.start, Enqueues(c) PROVE Goal
  <2>0. /\ UNCHANGED <<plan, tickTime, starting, spawned>> /\ Alive /\ Alive' /\ plan = {Catchup(c)}
        /\ cron # "advance"
    BY <1>14 DEF Enqueues
  <2>1. Passed(s) => Passed(s)'
    BY <2>0 DEF Passed
  <2>2. CASE latest' = [run |-> Catchup(c), queued |-> clock, at |-> 0, ok |-> FALSE]
               /\ queue' = {c} /\ rec' = rec
    <3>1. latest'.run = Catchup(c) /\ latest'.queued = clock
      BY <2>2
    <3>2. s <= clock => Covered(s)'
      BY <2>2, <3>1 DEF Covered, Catchup, Planned
    <3> QED
      BY <1>2, <2>0, <2>2, <3>2
  <2>3. CASE UNCHANGED <<queue, latest>>
    <3>1. ASSUME rec'[s] # "none", s # c PROVE rec[s] # "none" /\ ~Enqueueing(s)
      <4>1. rec' = rec \/ \E x : rec' = [rec EXCEPT ![c] = x]
        BY <1>14 DEF Enqueues
      <4>2. Catchup(s) \notin plan
        BY <2>0, <3>1, PlannedFacts DEF Catchup
      <4> QED
        BY <1>0, <3>1, <4>1, <4>2 DEF Enqueueing, Catchup
    <3>2. CASE cron' \in {"created", "queued"}
      <4>1. Enqueueing(c)'
        BY <2>0, <3>2 DEF Enqueueing, Catchup
      <4> QED
        BY <1>5, <1>7, <2>0, <2>1, <2>3, <3>1, <4>1
    <3>3. CASE cron' \notin {"created", "queued"} /\ rec' = [rec EXCEPT ![c] = "none"]
      BY <1>0, <1>5, <1>7, <2>0, <2>1, <2>3, <3>1, <3>3
    <3>4. CASE cron \in {"dispatch", "create"} /\ rec' = rec
      BY <1>5, <1>7, <2>0, <2>1, <2>3, <3>4 DEF Enqueueing
    <3> QED
      BY <1>14, <2>3, <3>2, <3>3, <3>4 DEF Enqueues
  <2> QED
    BY <1>14, <2>2, <2>3 DEF Enqueues
<1>15. ASSUME NEW g \in gos, GoSpawns(g) PROVE Goal
  <2>1. /\ UNCHANGED <<cron, plan, tickTime, phase, rec, queue, latest>> /\ Alive
        /\ starting' = starting \cup {g.run}
        /\ g.run # Live(s) => spawned'[s] = spawned[s]
        /\ g.run = Live(s) => Passed(s)
    BY <1>3, <1>15, SpawnFacts
  <2>2. Alive' /\ (Passed(s) => Passed(s)') /\ (Enqueueing(s) => Enqueueing(s)')
    BY <2>1 DEF Alive, Passed, Enqueueing
  <2> QED
    BY <1>5, <1>7, <2>1, <2>2
<1>16. ASSUME NEW g \in gos, GoStops(g) PROVE Goal
  <2>1. UNCHANGED <<cron, plan, tickTime, phase, queue, latest, spawned>> /\ starting \subseteq starting'
    BY <1>16 DEF GoStops, history
  <2>2. rec'[s] # "none" => rec[s] # "none"
    BY <1>3, <1>16, RuntimeMild DEF Mild
  <2>3. (Alive => Alive') /\ (Passed(s) => Passed(s)') /\ (Enqueueing(s) => Enqueueing(s)')
    BY <2>1 DEF Alive, Passed, Enqueueing
  <2> QED
    BY <1>5, <1>7, <2>1, <2>2, <2>3
<1>17. CASE ProcessStep
  <2>1. UNCHANGED <<cron, plan, tickTime, phase, spawned>>
    BY <1>17 DEF ProcessStep, ProcessStarts, QueueStarts, ProcessEnds, history
  <2>2. rec'[s] # "none" => rec[s] # "none"
    BY <1>3, <1>17, RuntimeMild DEF Mild
  <2>3. (Alive => Alive') /\ (Passed(s) => Passed(s)') /\ (Enqueueing(s) => Enqueueing(s)')
    BY <2>1 DEF Alive, Passed, Enqueueing
  <2>4. ASSUME Covered(s) => Covered(s)', starting' = starting PROVE Goal
    BY <1>5, <2>1, <2>2, <2>3, <2>4
  <2>5. ASSUME NEW r \in starting, ProcessStarts(r) PROVE Goal
    <3>1. CASE latest' = [run |-> r, queued |-> clock, at |-> clock, ok |-> FALSE]
      <4>1. latest'.at = clock
        BY <3>1
      <4>2. s <= clock => Covered(s)'
        BY <4>1 DEF Covered
      <4> QED
        BY <1>2, <2>1, <2>2, <4>2
    <3>2. CASE r.kind = "oneoff" /\ UNCHANGED <<queue, latest>> /\ starting' = starting \ {r}
      <4>1. r # Live(s)
        BY <3>2, PlannedFacts DEF Live
      <4> QED
        BY <1>5, <1>7, <2>1, <2>2, <2>3, <3>2, <4>1
    <3> QED
      BY <2>5, <3>1, <3>2 DEF ProcessStarts
  <2>6. ASSUME NEW t \in queue, QueueStarts(t) PROVE Goal
    <3>1. starting' = starting
      BY <2>6 DEF QueueStarts
    <3>2. \A u \in queue : u = t
      BY DEF Base, RInv, QueueInv
    <3>3. CASE latest.run = Catchup(t)
      <4>1. latest' = [latest EXCEPT !.at = latest.queued]
        BY <2>6, <3>3 DEF QueueStarts, Catchup
      <4>2. latest'.at = latest.queued
        BY <1>1, <4>1 DEF Latest
      <4>3. Covered(s) => s <= latest.queued
        BY <1>1, <1>6 DEF Covered
      <4>4. Covered(s) => Covered(s)'
        BY <4>2, <4>3 DEF Covered
      <4> QED
        BY <2>4, <3>1, <4>4
    <3>4. CASE latest.run # Catchup(t)
      <4>1. latest' = latest
        BY <2>6, <3>4 DEF QueueStarts, Catchup
      <4>2. Covered(s) => Covered(s)'
        BY <3>2, <3>4, <4>1 DEF Covered
      <4> QED
        BY <2>4, <3>1, <4>2
    <3> QED
      BY <3>3, <3>4
  <2>7. ASSUME NEW r \in procs, ProcessEnds(r) PROVE Goal
    <3>1. PICK ok : /\ queue' = queue /\ starting' = starting
                    /\ latest' = latest \/ latest' = [latest EXCEPT !.ok = ok]
      BY <2>7 DEF ProcessEnds
    <3>2. latest'.at = latest.at /\ latest'.queued = latest.queued /\ latest'.run = latest.run
      BY <1>1, <3>1 DEF Latest
    <3>3. Covered(s) => Covered(s)'
      BY <3>1, <3>2 DEF Covered, Catchup, Planned
    <3> QED
      BY <2>4, <3>1, <3>3
  <2> QED
    BY <1>17, <2>5, <2>6, <2>7 DEF ProcessStep
<1> QED
  BY <1>9, <1>10, <1>11, <1>12, <1>13, <1>14, <1>15, <1>16, <1>17, StepKinds

\* A run that waits for its goroutine has not been run, and what was run was
\* run once.
LEMMA OnceKeeps ==
  ASSUME Base, CoverInv, OnceInv, LivedInv, [Next]_vars
  PROVE  OnceInv'
<1>0. /\ rec \in [RunId -> RecStatus] /\ dag.start \subseteq RunId /\ dag' = dag
      /\ \A s \in dag.start : s \in Nat
      /\ tickTime \in Nat /\ spawned \in [RunId -> 0 .. 2]
      /\ upset \subseteq upset'
      /\ \A g \in gos' : g \in gos \/ g.run.kind # "live" \/ DispatchRuns
  BY BaseFacts, FlagsKeep, GoesKeep
<1>1. SUFFICES ASSUME Smooth', NEW s \in dag.start
               PROVE  /\ Pending(s)' => spawned'[s] = 0 /\ rec'[s] = "none"
                      /\ spawned'[s] <= 1 /\ (spawned'[s] = 0 \/ rec'[s] = "none")
  BY <1>0 DEF OnceInv
<1>2. Smooth
  BY <1>0, <1>1 DEF Smooth
<1>3. /\ Pending(s) => spawned[s] = 0 /\ rec[s] = "none"
      /\ spawned[s] <= 1 /\ (spawned[s] = 0 \/ rec[s] = "none")
  BY <1>1, <1>2 DEF OnceInv
<1>4. Live(s).kind = "live" /\ Live(s).slot = s /\ s \in Nat /\ s \in RunId
  BY <1>0, PlannedFacts DEF Live
<1> DEFINE Goal == /\ Pending(s)' => spawned'[s] = 0 /\ rec'[s] = "none"
                   /\ spawned'[s] <= 1 /\ (spawned'[s] = 0 \/ rec'[s] = "none")
<1>5. ASSUME Pending(s)' => Pending(s), spawned' = spawned, rec'[s] = "none" <=> rec[s] = "none"
      PROVE  Goal
  BY <1>3, <1>5
<1>6. (~DispatchRuns /\ \E g \in gos' : g.run = Live(s)) => \E g \in gos : g.run = Live(s)
  BY <1>0, <1>4
<1>7. CASE Mild
  <2>1. Pending(s)' => Pending(s)
    <3>1. CASE DispatchRuns
      BY <1>7, <3>1 DEF Mild, DispatchRuns
    <3>2. CASE ~DispatchRuns
      BY <1>6, <1>7, <3>2 DEF Mild, Pending, Live, Planned
    <3> QED
      BY <3>1, <3>2
  <2> QED
    BY <1>1, <1>5, <1>7, <2>1 DEF Mild
<1>8. CASE Picks
  <2>1. Live(s) \notin plan'
    BY <1>4, <1>8, PlannedFacts DEF Picks, Catchup, Live
  <2> QED
    BY <1>5, <1>8, <2>1 DEF Picks, Pending, runtime, Live, Planned
<1>9. CASE Lives
  <2>1. /\ UNCHANGED <<gos, runtime, spawned>> /\ cron = "live"
    BY <1>9 DEF Lives
  <2>2. CASE Live(s) \notin plan'
    BY <1>5, <2>1, <2>2 DEF Pending, runtime, Live, Planned
  <2>3. CASE Live(s) \in plan'
    <3>1. s = tickTime /\ queue = {} /\ latest.at < s
      BY <1>4, <1>9, <2>3 DEF Lives
    <3>2. ~Covered(s)
      <4>1. latest.at \in Time /\ Time \subseteq Nat
        BY BaseFacts DEF Base, RInv, KindInv, Latest
      <4>2. s \in Nat /\ latest.at \in Nat /\ latest.at < s
        BY <1>4, <3>1, <4>1
      <4>3. ~(s <= latest.at)
        BY <4>2
      <4> QED
        BY <3>1, <4>3 DEF Covered
    <3>3. ~Passed(s) /\ ~Enqueueing(s)
      BY <1>0, <2>1, <3>1 DEF Passed, Enqueueing
    <3>4. spawned[s] = 0 /\ rec[s] = "none"
      <4>1. spawned[s] \in 0 .. 2 /\ ~(spawned[s] > 0) /\ rec[s] = "none"
        BY <1>0, <1>1, <1>2, <3>2, <3>3 DEF CoverInv
      <4> QED
        BY <4>1
    <3> QED
      BY <2>1, <3>4 DEF runtime
  <2> QED
    BY <2>2, <2>3
<1>10. CASE DispatchRuns
  <2>1. /\ UNCHANGED <<runtime, spawned, plan>> /\ cron = "dispatch" /\ cron' = "advance"
        /\ gos' = gos \cup {[run |-> r, tick |-> tickTime, pc |-> "begin"] : r \in plan}
    BY <1>10 DEF DispatchRuns, history
  <2>2. ASSUME NEW g \in gos', g.run = Live(s) PROVE Pending(s)
    BY <2>1, <2>2 DEF Pending
  <2>3. Pending(s)' => Pending(s)
    BY <2>1, <2>2 DEF Pending, Live, Planned
  <2> QED
    BY <1>5, <2>1, <2>3 DEF runtime
<1>11. CASE Advance
  <2>1. UNCHANGED <<gos, runtime, spawned>> /\ cron' = "select"
    BY <1>11 DEF Advance, history
  <2> QED
    BY <1>5, <2>1 DEF Pending, runtime, Live, Planned
<1>12. ASSUME NEW c \in dag.start, Enqueues(c) PROVE Goal
  <2>1. /\ UNCHANGED <<plan, gos, spawned>> /\ cron' # "dispatch"
        /\ Catchup(c) \in plan
        /\ rec' = rec \/ \E x : rec' = [rec EXCEPT ![c] = x]
    BY <1>12 DEF Enqueues
  <2>2. Pending(s)' => Pending(s)
    BY <2>1 DEF Pending, Live, Planned
  <2>3. CASE s # c
    BY <1>0, <1>5, <2>1, <2>2, <2>3
  <2>4. CASE s = c
    <3>1. ~Lived(s)
      BY <1>1, <1>2, <2>1, <2>4 DEF LivedInv
    <3>2. ~Pending(s) /\ spawned[s] = 0
      <4>1. spawned[s] \in 0 .. 2 /\ ~(spawned[s] > 0) /\ ~Pending(s)
        BY <1>0, <1>4, <3>1 DEF Lived, Pending
      <4> QED
        BY <4>1
    <3> QED
      BY <2>1, <2>2, <3>2
  <2> QED
    BY <2>3, <2>4
<1>13. ASSUME NEW g \in gos, GoSpawns(g) PROVE Goal
  <2>1. /\ UNCHANGED <<cron, plan, tickTime, rec>>
        /\ g.run # Live(s) => spawned'[s] = spawned[s]
        /\ g.run = Live(s) =>
             /\ Passed(s) /\ \A h \in gos' : h.run # Live(s)
             /\ spawned'[s] = IF spawned[s] < 2 THEN spawned[s] + 1 ELSE spawned[s]
    BY <1>1, <1>13, SpawnFacts
  <2>2. ~DispatchRuns
    BY <2>1 DEF DispatchRuns
  <2>3. Pending(s)' => Pending(s)
    BY <1>6, <2>1, <2>2 DEF Pending, Live, Planned
  <2>4. CASE g.run # Live(s)
    BY <1>3, <2>1, <2>3, <2>4
  <2>5. CASE g.run = Live(s)
    <3>1. spawned[s] = 0 /\ rec[s] = "none"
      BY <1>3, <2>5 DEF Pending
    <3>2. cron = "dispatch" => Live(s) \notin plan
      <4>1. Live(s) \in plan => s = tickTime
        BY <1>4 DEF Base, RInv, ClockInv
      <4> QED
        BY <1>0, <1>4, <2>1, <2>5, <4>1 DEF Passed
    <3>3. ~Pending(s)'
      BY <2>1, <2>5, <3>2 DEF Pending, Live, Planned
    <3> QED
      BY <2>1, <2>5, <3>1, <3>3
  <2> QED
    BY <2>4, <2>5
<1>14. CASE Start
  BY <1>5, <1>14, StartFacts DEF Pending, runtime, Live, Planned
<1>15. CASE Exit \/ Crash
  <2>1. UNCHANGED <<rec, spawned>> /\ cron' = "select" /\ gos' = {}
    BY <1>15, EndFacts
  <2> QED
    BY <1>5, <2>1 DEF Pending
<1>16. CASE DAGUpdated
  <2>1. UNCHANGED <<cron, plan, gos, runtime, spawned>>
    BY <1>16, UpdateFacts
  <2> QED
    BY <1>5, <2>1 DEF Pending, runtime, Live, Planned
<1> QED
  BY <1>7, <1>8, <1>9, <1>10, <1>11, <1>12, <1>13, <1>14, <1>15, <1>16, StepKinds, RuntimeMild
     DEF Quiet

\* Advance moves the watermark of the ticks to the tick it ends.
LEMMA AdvanceFacts ==
  ASSUME Base, Advance
  PROVE  wm'.lastTick = tickTime
<1>1. PICK l \in BOOLEAN : l <=> InPlan("live") # {}
  OBVIOUS
<1>2. wm' = [wm EXCEPT !.lastTick = tickTime, !.last = IF l THEN tickTime ELSE @]
  BY <1>1 DEF Advance
<1>3. wm \in State /\ tickTime \in Time
  BY BaseFacts
<1> QED
  BY <1>2, <1>3 DEF State

\* A slot that was run by its tick is not caught up on.
LEMMA LivedKeeps ==
  ASSUME Base, LivedInv, [Next]_vars
  PROVE  LivedInv'
<1>0. /\ dag.start \subseteq RunId /\ dag' = dag /\ spawned \in [RunId -> 0 .. 2]
      /\ \A s \in dag.start : s \in Nat
      /\ tickTime \in Nat /\ clock \in Nat /\ wm.lastTick \in Nat /\ disk.lastTick \in Nat
      /\ MaxTime \in Nat /\ buffer \in Seq(dag.start)
      /\ upset \subseteq upset'
      /\ \A g \in gos' : g \in gos \/ g.run.kind # "live" \/ DispatchRuns
  BY BaseFacts, FlagsKeep, GoesKeep
<1>1. SUFFICES ASSUME Smooth', NEW s \in dag.start, Lived(s)'
               PROVE  /\ s \notin Slots(buffer') /\ Catchup(s) \notin plan'
                      /\ Alive' => s <= tickTime' /\ (s <= wm'.lastTick \/ Live(s) \in plan')
                      /\ ~Alive' => s <= disk'.lastTick
  BY <1>0 DEF LivedInv, Slots, Catchup, Live, Planned
<1>2. Smooth
  BY <1>0, <1>1 DEF Smooth
<1>3. Lived(s) =>
        /\ s \notin Slots(buffer) /\ Catchup(s) \notin plan
        /\ Alive => s <= tickTime /\ (s <= wm.lastTick \/ Live(s) \in plan)
        /\ ~Alive => s <= disk.lastTick
  BY <1>1, <1>2 DEF LivedInv
<1>4. /\ Live(s).kind = "live" /\ Live(s).slot = s /\ s \in Nat /\ s \in RunId
      /\ \A t : Live(t) # Catchup(s) /\ Catchup(t) # Live(s)
      /\ \A t : Catchup(t) = Catchup(s) <=> t = s
  BY <1>0, PlannedFacts DEF Live, Catchup
<1> DEFINE Goal == /\ s \notin Slots(buffer') /\ Catchup(s) \notin plan'
                   /\ Alive' => s <= tickTime' /\ (s <= wm'.lastTick \/ Live(s) \in plan')
                   /\ ~Alive' => s <= disk'.lastTick
<1>5. (~DispatchRuns /\ \E g \in gos' : g.run = Live(s)) => \E g \in gos : g.run = Live(s)
  BY <1>0, <1>4
<1>6. ASSUME Lived(s), Slots(buffer') \subseteq Slots(buffer), Alive <=> Alive',
             Catchup(s) \in plan' => Catchup(s) \in plan \/ s \in Slots(buffer),
             Live(s) \in plan => Live(s) \in plan',
             tickTime' = tickTime, wm'.lastTick = wm.lastTick, Alive \/ disk' = disk
      PROVE  Goal
  BY <1>3, <1>6
<1>7. CASE Mild
  <2>1. Lived(s)
    <3>1. ~DispatchRuns
      BY <1>7 DEF Mild, DispatchRuns
    <3> QED
      BY <1>1, <1>5, <1>7, <3>1 DEF Mild, Lived, Live, Planned
  <2>2. Slots(buffer') \subseteq Slots(buffer)
    BY <1>7, EmptySlots DEF Mild
  <2> QED
    BY <1>6, <1>7, <2>1, <2>2 DEF Mild
<1>8. CASE Picks
  <2>1. plan = {}
    BY <1>8 DEF Picks, Base, RInv, ClockInv
  <2>2. Live(s) \notin plan' /\ (Catchup(s) \in plan' => s \in Slots(buffer))
    BY <1>4, <1>8 DEF Picks
  <2>3. Lived(s)
    BY <1>1, <1>8, <2>2 DEF Picks, Lived, Live, Planned
  <2> QED
    BY <1>6, <1>8, <2>1, <2>2, <2>3 DEF Picks
<1>9. CASE Lives
  <2>1. plan = {}
    BY <1>9 DEF Lives, Base, RInv, ClockInv
  <2>2. Catchup(s) \notin plan'
    <3>1. Catchup(s).kind = "catchup"
      BY PlannedFacts DEF Catchup
    <3> QED
      BY <1>9, <3>1 DEF Lives
  <2>3. CASE Lived(s)
    BY <1>6, <1>9, <2>1, <2>2, <2>3 DEF Lives
  <2>4. CASE ~Lived(s)
    <3>1. Live(s) \in plan'
      BY <1>1, <1>9, <2>4 DEF Lives, Lived, Live, Planned
    <3>2. s = tickTime /\ buffer' = <<>> /\ tickTime' = tickTime
      BY <1>1, <1>4, <1>9, <3>1 DEF Lives, Smooth
    <3> QED
      BY <1>0, <1>9, <2>2, <3>1, <3>2, EmptySlots DEF Lives
  <2> QED
    BY <2>3, <2>4
<1>10. CASE DispatchRuns
  <2>1. /\ UNCHANGED <<phase, wm, disk, buffer, tickTime, plan, spawned>>
        /\ gos' = gos \cup {[run |-> r, tick |-> tickTime, pc |-> "begin"] : r \in plan}
    BY <1>10 DEF DispatchRuns, history
  <2>2. ASSUME NEW g \in gos', g.run = Live(s) PROVE Lived(s)
    BY <2>1, <2>2 DEF Lived
  <2>3. Lived(s)
    BY <1>1, <2>1, <2>2 DEF Lived, Live, Planned
  <2> QED
    BY <1>6, <2>1, <2>3 DEF Alive
<1>11. CASE Advance
  <2>1. /\ UNCHANGED <<phase, buffer, gos, spawned>> /\ plan' = {} /\ Alive
        /\ tickTime' = IF tickTime < MaxTime THEN tickTime + 1 ELSE tickTime
    BY <1>11 DEF Advance, history
  <2>2. Lived(s)
    BY <1>1, <2>1 DEF Lived, Live, Planned
  <2>3. wm'.lastTick = tickTime
    BY <1>11, AdvanceFacts
  <2>4. s <= tickTime
    BY <1>3, <2>1, <2>2
  <2> QED
    BY <1>0, <1>3, <1>4, <2>1, <2>2, <2>3, <2>4 DEF Alive
<1>12. ASSUME NEW c \in dag.start, Enqueues(c) PROVE Goal
  <2>1. /\ UNCHANGED <<plan, gos, spawned, tickTime>> /\ Catchup(c) \in plan /\ Alive /\ Alive'
        /\ wm'.lastTick = wm.lastTick
        /\ buffer' = buffer \/ buffer' = Reinsert(buffer, c)
    BY <1>12 DEF Enqueues
  <2>2. Lived(s)
    BY <1>1, <2>1 DEF Lived, Live, Planned
  <2>3. s # c
    BY <1>3, <2>1, <2>2
  <2>4. Slots(buffer') \subseteq Slots(buffer) \cup {c}
    BY <1>0, <2>1, ReinsertSlots
  <2> QED
    BY <1>3, <2>1, <2>2, <2>3, <2>4
<1>13. ASSUME NEW g \in gos, GoSpawns(g) PROVE Goal
  <2>1. /\ UNCHANGED <<phase, wm, disk, buffer, tickTime, cron, plan>>
        /\ g.run # Live(s) => spawned'[s] = spawned[s]
    BY <1>1, <1>13, SpawnFacts
  <2>2. ~DispatchRuns
    BY <2>1 DEF DispatchRuns
  <2>3. Lived(s)
    BY <1>1, <1>5, <1>13, <2>1, <2>2 DEF Lived, Live, Planned
  <2> QED
    BY <1>6, <2>1, <2>3 DEF Alive
<1>14. CASE Start
  <2>1. /\ UNCHANGED <<clock, plan, gos, spawned>> /\ ~Alive /\ Alive' /\ plan = {} /\ gos = {}
        /\ tickTime' = clock /\ wm'.lastTick = disk.lastTick
        /\ \A x \in Slots(buffer') : disk.lastTick < x
    BY <1>14, StartFacts DEF Slots
  <2>2. Lived(s) /\ spawned[s] > 0
    BY <1>1, <2>1 DEF Lived, Live, Planned
  <2>3. s <= disk.lastTick
    BY <1>3, <2>1, <2>2
  <2>4. s <= clock
    BY <1>1, <2>2 DEF Base, RInv, ClockInv
  <2>5. s \notin Slots(buffer')
    BY <1>0, <1>4, <2>1, <2>3
  <2> QED
    BY <2>1, <2>3, <2>4, <2>5
<1>15. CASE Exit \/ Crash
  <2>1. /\ UNCHANGED <<disk, spawned>> /\ Alive /\ ~Alive' /\ plan' = {} /\ gos' = {}
        /\ buffer' = <<>> /\ plan = {} /\ (Clean => disk = wm)
    BY <1>1, <1>15, EndFacts DEF Smooth
  <2>2. Lived(s) /\ Clean
    BY <1>1, <1>2, <2>1 DEF Lived, Live, Planned, Smooth, Clean
  <2>3. s <= wm.lastTick /\ disk' = wm
    BY <1>3, <2>1, <2>2
  <2> QED
    BY <2>1, <2>3, EmptySlots
<1>16. CASE DAGUpdated
  <2>1. /\ UNCHANGED <<phase, disk, tickTime, cron, plan, gos, spawned>>
        /\ Alive /\ wm'.lastTick = wm.lastTick /\ cron = "select"
        /\ \A x \in Slots(buffer') : wm.lastTick < x
    BY <1>1, <1>16, UpdateFacts DEF Smooth, Slots
  <2>2. plan = {}
    BY <2>1 DEF Base, RInv, ClockInv
  <2>3. Lived(s)
    BY <1>1, <2>1 DEF Lived, Live, Planned
  <2>4. s <= wm.lastTick /\ s <= tickTime
    BY <1>3, <2>1, <2>2, <2>3
  <2>5. s \notin Slots(buffer')
    BY <1>0, <1>4, <2>1, <2>4
  <2> QED
    BY <2>1, <2>2, <2>4, <2>5 DEF Alive
<1> QED
  BY <1>7, <1>8, <1>9, <1>10, <1>11, <1>12, <1>13, <1>14, <1>15, <1>16, StepKinds, RuntimeMild
     DEF Quiet

\* It holds when the scheduler has never run.
LEMMA InitOnce == Init => CoverInv /\ OnceInv /\ LivedInv
<1> SUFFICES ASSUME Init PROVE CoverInv /\ OnceInv /\ LivedInv
  OBVIOUS
<1>1. /\ dag \in DAGs /\ plan = {} /\ gos = {} /\ cron = "select"
      /\ \A s \in dag.start : spawned[s] = 0 /\ rec[s] = "none"
  <2>1. RecInv
    BY InitIInv DEF IInv
  <2> QED
    BY <2>1, StartSlots DEF Init
<1> QED
  BY <1>1 DEF CoverInv, OnceInv, LivedInv, Lived, Pending

\* For every DAG, cap of the buffer and number of minutes, faults, restarts and
\* updates: a slot that was dispatched live is not enqueued as a catch-up and not
\* dispatched live again, unless a tick was cut short by the end of the scheduler
\* or straddled by an update, the two halves of Plan saw the DAG differently, or
\* an older watermark overwrote a newer one (Plan, ShouldRun, Advance, Init).
THEOREM SlotRunsOnce == Spec => []DuplicateExplained
<1> DEFINE Inv == Base /\ CoverInv /\ OnceInv /\ LivedInv
<1>1. Init => Inv
  BY InitBase, InitOnce
<1>2. Inv /\ [Next]_vars => Inv'
  BY NextBase, CoverKeeps, OnceKeeps, LivedKeeps
<1>3. Inv => DuplicateExplained
  <2> SUFFICES ASSUME Inv, Smooth, NEW s \in dag.start
               PROVE  ~(spawned[s] + (IF rec[s] = "none" THEN 0 ELSE 1) > 1)
    BY DEF DuplicateExplained, Smooth
  <2>1. s \in RunId /\ spawned[s] \in 0 .. 2
    BY BaseFacts
  <2>2. spawned[s] <= 1 /\ (spawned[s] = 0 \/ rec[s] = "none")
    BY DEF OnceInv
  <2> QED
    BY <2>1, <2>2
<1> QED
  BY <1>1, <1>2, <1>3, PTL DEF Spec

-----------------------------------------------------------------------------
(* Catch-up in order *)

\* The order of buffer, plan and records is kept by every step.
LEMMA OrderKeeps ==
  ASSUME Base, OrderInv, [Next]_vars
  PROVE  OrderInv'
<1>0. /\ dag.start \subseteq RunId /\ dag' = dag /\ rec \in [RunId -> RecStatus]
      /\ \A s \in dag.start : s \in Nat
      /\ tickTime \in Nat /\ clock \in Nat /\ wm.lastTick \in Nat /\ disk.lastTick \in Nat
      /\ MaxTime \in Nat /\ buffer \in Seq(dag.start) /\ Slots(buffer) \subseteq dag.start
      /\ upset \subseteq upset'
      /\ \A t, u : Catchup(t) = Catchup(u) <=> t = u
  BY BaseFacts, FlagsKeep, PlannedFacts DEF Catchup
<1>1. \A x \in Slots(buffer') : x \in Nat
  <2>1. buffer' \in Seq(dag'.start)
    BY NextBase DEF Base, PInv, BufferInv
  <2>2. buffer' \in Seq(dag.start)
    BY <1>0, <2>1
  <2> QED
    BY <1>0, <2>2 DEF Slots
<1>2. SUFFICES ASSUME Orderly' PROVE BufferOrder' /\ PlanOrder' /\ RecOrder'
  BY DEF OrderInv
<1>3. Orderly /\ BufferOrder /\ PlanOrder /\ RecOrder
  BY <1>0, <1>2 DEF Orderly, OrderInv
<1> DEFINE Goal == BufferOrder' /\ PlanOrder' /\ RecOrder'
<1>4. ASSUME Sorted(buffer'), Alive' => \A x \in Slots(buffer') : x <= tickTime'
      PROVE  BufferOrder'
  BY <1>4 DEF BufferOrder, Sorted, Slots
<1>5. ASSUME \A t \in dag.start : rec'[t] # "none" =>
               /\ \A x \in Slots(buffer') : t <= x
               /\ Alive' => t <= tickTime' /\ (t <= wm'.lastTick \/ Catchup(t) \in plan')
               /\ ~Alive' => t <= disk'.lastTick
      PROVE  RecOrder'
  <2>1. dag' = dag
    BY <1>0
  <2> QED
    BY <1>5, <2>1 DEF RecOrder, Slots, Catchup, Planned
<1>6. ASSUME dag' = dag, \A t \in dag.start : rec'[t] = "none" <=> rec[t] = "none",
             UNCHANGED <<tickTime, cron, plan>>, Alive <=> Alive', wm'.lastTick = wm.lastTick,
             Alive \/ disk' = disk, buffer' = buffer \/ buffer' = <<>>
      PROVE  Goal
  <2>1. Slots(buffer') \subseteq Slots(buffer) /\ Sorted(buffer')
    BY <1>3, <1>6, EmptySlots DEF BufferOrder
  <2>2. BufferOrder'
    BY <1>3, <1>6, <2>1 DEF BufferOrder, Sorted, Slots
  <2>3. PlanOrder'
    BY <1>3, <1>6, <2>1 DEF PlanOrder, Slots, Catchup, Planned
  <2>4. RecOrder'
    BY <1>3, <1>6, <2>1 DEF RecOrder, Slots, Catchup, Planned
  <2> QED
    BY <2>2, <2>3, <2>4
<1>7. CASE Mild
  BY <1>6, <1>7 DEF Mild
<1>8. CASE Picks
  <2>1. /\ plan = {} /\ Alive /\ Alive' /\ UNCHANGED <<tickTime, rec>>
        /\ wm'.lastTick = wm.lastTick /\ Slots(buffer') \subseteq Slots(buffer) /\ Sorted(buffer')
    BY <1>3, <1>8 DEF Picks, runtime, Base, RInv, ClockInv, BufferOrder
  <2>2. \A t \in dag.start : rec[t] # "none" =>
          t <= tickTime /\ t <= wm.lastTick /\ \A x \in Slots(buffer) : t <= x
    BY <1>3, <2>1 DEF RecOrder
  <2>3. \A x \in Slots(buffer) : x <= tickTime
    BY <1>3, <2>1 DEF BufferOrder
  <2>4. BufferOrder'
    BY <2>1, <2>3 DEF BufferOrder, Sorted, Slots
  <2>5. ASSUME NEW c \in dag.start, Catchup(c) \in plan'
        PROVE  c \in Slots(buffer) /\ \A x \in Slots(buffer') : c < x
    BY <1>0, <1>3, <1>8, <2>5 DEF Picks, BufferOrder
  <2>6. PlanOrder'
    BY <1>0, <2>1, <2>2, <2>3, <2>5 DEF PlanOrder, Slots, Catchup, Planned
  <2>7. RecOrder'
    BY <1>5, <2>1, <2>2
  <2> QED
    BY <2>4, <2>6, <2>7
<1>9. CASE Lives
  <2>1. /\ plan = {} /\ Alive /\ Alive' /\ UNCHANGED <<tickTime, rec, buffer, wm>>
        /\ \A r \in plan' : r.kind # "catchup"
    BY <1>9 DEF Lives, runtime, Base, RInv, ClockInv
  <2>2. \A c : Catchup(c) \notin plan'
    BY <2>1, PlannedFacts DEF Catchup
  <2>3. PlanOrder'
    BY <2>2 DEF PlanOrder, Catchup, Planned
  <2>4. BufferOrder' /\ RecOrder'
    BY <1>0, <1>3, <2>1 DEF BufferOrder, RecOrder, Sorted, Slots, Catchup, Planned
  <2> QED
    BY <2>3, <2>4
<1>10. CASE DispatchRuns
  <2>1. /\ UNCHANGED <<phase, tickTime, plan, wm, disk, buffer, rec>> /\ cron' = "advance"
    BY <1>10 DEF DispatchRuns, runtime
  <2> QED
    BY <1>0, <1>3, <2>1 DEF BufferOrder, PlanOrder, RecOrder, Sorted, Slots, Catchup, Planned, Alive
<1>11. CASE Advance
  <2>1. /\ UNCHANGED <<phase, buffer, rec>> /\ plan' = {} /\ Alive /\ Alive'
        /\ tickTime' = IF tickTime < MaxTime THEN tickTime + 1 ELSE tickTime
        /\ wm'.lastTick = tickTime
    BY <1>11, AdvanceFacts DEF Advance, runtime, Alive
  <2>2. tickTime' \in Nat /\ tickTime <= tickTime'
    BY <1>0, <2>1
  <2>3. BufferOrder'
    <3>1. Sorted(buffer') /\ \A x \in Slots(buffer') : x \in Nat /\ x <= tickTime
      BY <1>0, <1>3, <2>1 DEF BufferOrder
    <3>2. \A x \in Slots(buffer') : x <= tickTime'
      BY <1>0, <2>2, <3>1
    <3> QED
      BY <1>4, <3>1, <3>2
  <2>4. RecOrder'
    BY <1>0, <1>3, <2>1, <2>2 DEF RecOrder, Slots
  <2> QED
    BY <2>1, <2>3, <2>4 DEF PlanOrder
<1>12. ASSUME NEW c \in dag.start, Enqueues(c) PROVE Goal
  <2>1. /\ UNCHANGED <<plan, tickTime>> /\ plan = {Catchup(c)} /\ Alive /\ Alive'
        /\ wm'.lastTick = wm.lastTick /\ cron # "advance"
        /\ buffer' = buffer \/ (buffer' = Reinsert(buffer, c) /\ cron' = "advance")
        /\ rec' = rec \/ \E v \in RecStatus : rec' = [rec EXCEPT ![c] = v]
    BY <1>12 DEF Enqueues, RecStatus
  <2>2. /\ c <= tickTime /\ \A x \in Slots(buffer) : c < x
        /\ \A t \in dag.start : rec[t] # "none" => t <= c
    BY <1>3, <2>1 DEF PlanOrder
  <2>3. Slots(buffer') \subseteq Slots(buffer) \cup {c} /\ Sorted(buffer')
    BY <1>0, <1>3, <2>1, <2>2, ReinsertSlots DEF BufferOrder
  <2>4. \A t \in dag.start : t # c => rec'[t] = rec[t]
    BY <1>0, <2>1
  <2>5. BufferOrder'
    BY <1>0, <1>3, <2>1, <2>2, <2>3 DEF BufferOrder, Sorted, Slots
  <2>6. \A t \in dag.start : rec'[t] # "none" => t <= c
    BY <1>0, <2>2, <2>4
  <2>7. PlanOrder'
    BY <1>0, <2>1, <2>2, <2>6 DEF PlanOrder, Slots, Catchup, Planned
  <2>8. ASSUME NEW t \in dag.start, rec'[t] # "none"
        PROVE  /\ \A x \in Slots(buffer') : t <= x
               /\ t <= tickTime /\ (t <= wm.lastTick \/ Catchup(t) \in plan)
    <3>1. t <= c /\ t \in Nat /\ c \in Nat
      BY <1>0, <2>6, <2>8
    <3>2. \A x \in Slots(buffer') : x \in Nat /\ c <= x
      BY <1>0, <2>2, <2>3
    <3>3. CASE t = c
      BY <2>1, <2>2, <3>2, <3>3
    <3>4. CASE t # c
      BY <1>0, <1>3, <2>1, <2>2, <2>4, <2>8, <3>1, <3>2, <3>4 DEF RecOrder
    <3> QED
      BY <3>3, <3>4
  <2>9. RecOrder'
    BY <1>5, <2>1, <2>8
  <2> QED
    BY <2>5, <2>7, <2>9
<1>13. ASSUME NEW g \in gos, GoSpawns(g) PROVE Goal
  <2>1. UNCHANGED <<phase, dag, wm, disk, buffer, tickTime, cron, plan, rec>>
    BY <1>13, SpawnFacts
  <2> QED
    BY <1>6, <2>1 DEF Alive
<1>14. CASE Start
  <2>1. /\ UNCHANGED <<plan, rec>> /\ ~Alive /\ Alive' /\ plan = {}
        /\ tickTime' = clock /\ wm'.lastTick = disk.lastTick
        /\ \A x \in Slots(buffer') : disk.lastTick < x /\ x <= clock
        /\ Sorted(buffer')
    BY <1>14, StartFacts DEF runtime
  <2>2. \A t \in dag.start : rec[t] # "none" => t <= disk.lastTick /\ t <= clock
    BY <1>3, <2>1 DEF RecOrder, Base, RInv, ClockInv
  <2>3. BufferOrder' /\ PlanOrder'
    BY <1>4, <2>1 DEF PlanOrder
  <2>4. \A x \in Slots(buffer') : x \in Nat
    BY <1>1
  <2>5. \A t \in dag.start : rec[t] # "none" => \A x \in Slots(buffer') : t <= x
    BY <1>0, <2>1, <2>2, <2>4
  <2>6. RecOrder'
    BY <1>5, <2>1, <2>2, <2>5
  <2> QED
    BY <2>3, <2>6
<1>15. CASE Exit \/ Crash
  <2>1. /\ UNCHANGED <<disk, rec>> /\ Alive /\ ~Alive' /\ plan' = {} /\ buffer' = <<>>
        /\ plan = {} /\ (Clean => disk = wm)
    BY <1>2, <1>15, EndFacts DEF Orderly
  <2>2. Clean
    BY <1>3 DEF Orderly, Clean
  <2>3. \A t \in dag.start : rec[t] # "none" => t <= wm.lastTick
    BY <1>3, <2>1 DEF RecOrder
  <2> QED
    BY <1>0, <2>1, <2>2, <2>3, EmptySlots DEF BufferOrder, PlanOrder, RecOrder, Sorted, Slots
<1>16. CASE DAGUpdated
  <2>1. /\ UNCHANGED <<phase, tickTime, plan, rec>> /\ Alive /\ Alive' /\ plan = {}
        /\ wm'.lastTick = wm.lastTick /\ Sorted(buffer')
        /\ ~(tickTime < clock)
        /\ \A x \in Slots(buffer') : wm.lastTick < x /\ x <= clock
    BY <1>2, <1>16, UpdateFacts DEF runtime, Orderly, Base, RInv, ClockInv, Alive
  <2>2. \A t \in dag.start : rec[t] # "none" => t <= wm.lastTick /\ t <= tickTime
    BY <1>3, <2>1 DEF RecOrder
  <2>3. \A x \in Slots(buffer') : x \in Nat
    BY <1>1
  <2>4. \A x \in Slots(buffer') : x <= tickTime
    BY <1>0, <2>1, <2>3
  <2>5. BufferOrder' /\ PlanOrder'
    BY <1>4, <2>1, <2>4 DEF PlanOrder
  <2>6. \A t \in dag.start : rec[t] # "none" => \A x \in Slots(buffer') : t <= x
    BY <1>0, <2>1, <2>2, <2>3
  <2>7. RecOrder'
    BY <1>5, <2>1, <2>2, <2>6
  <2> QED
    BY <2>5, <2>7
<1> QED
  BY <1>7, <1>8, <1>9, <1>10, <1>11, <1>12, <1>13, <1>14, <1>15, <1>16, StepKinds, RuntimeMild
     DEF Quiet

\* Nothing is planned, buffered or created at first.
LEMMA InitOrder == Init => OrderInv
<1> SUFFICES ASSUME Init PROVE OrderInv
  OBVIOUS
<1>1. /\ buffer = <<>> /\ plan = {}
      /\ \A s \in dag.start : rec[s] = "none"
  <2>1. RecInv
    BY InitIInv DEF IInv
  <2> QED
    BY <2>1, StartSlots DEF Init
<1> QED
  BY <1>1, EmptySlots DEF OrderInv, BufferOrder, PlanOrder, RecOrder

\* An attempt is created for the planned catch-up, before the tick advances.
LEMMA CreatedBeforeAdvance ==
  ASSUME Base, [Next]_vars, NEW s \in dag.start, rec[s] = "none", rec'[s] = "created"
  PROVE  Catchup(s) \in plan /\ cron # "advance"
<1>0. rec \in [RunId -> RecStatus] /\ dag.start \subseteq RunId
  BY BaseFacts
<1>1. Catchup(s) \in plan
  BY CreatedIsPlanned DEF Base, Catchup
<1>2. CASE \E c \in dag.start : Enqueues(c)
  BY <1>1, <1>2 DEF Enqueues
<1>3. CASE Mild
  BY <1>0, <1>3 DEF Mild
<1>4. CASE Picks \/ Lives
  BY <1>4 DEF Picks, Lives, runtime
<1>5. CASE DispatchRuns \/ Advance
  BY <1>5 DEF DispatchRuns, Advance, runtime
<1>6. CASE \E g \in gos : GoSpawns(g)
  BY <1>6 DEF GoSpawns
<1>7. CASE Start \/ Exit \/ Crash \/ DAGUpdated
  BY <1>7, StartFacts, EndFacts, UpdateFacts DEF runtime
<1> QED
  BY <1>2, <1>3, <1>4, <1>5, <1>6, <1>7, StepKinds, RuntimeMild DEF Quiet

\* For every DAG, cap of the buffer and number of minutes, faults, restarts and
\* updates: no attempt is created for a missed interval when one of a later
\* interval has been, whatever enqueues failed and whatever was dropped in
\* between, unless the watermark was lost in a crash, overwritten by an older one
\* or moved back by a tick the cron loop was late for (reinsertCatchupItem,
\* recomputeBuffer, dropSuspendedCatchupState).
THEOREM CatchUpIsChronological == Spec => CatchUpInOrder
<1>1. Init => Base /\ OrderInv
  BY InitBase, InitOrder
<1>2. Base /\ OrderInv /\ [Next]_vars => Base' /\ OrderInv'
  BY NextBase, OrderKeeps
<1>3. Base /\ OrderInv /\ [Next]_vars =>
        [\A s, t \in dag.start :
           s < t /\ rec[s] = "none" /\ rec'[s] = "created"
             => rec[t] = "none" \/ upset \cap {"tick", "save", "late"} # {}]_vars
  <2>1. SUFFICES ASSUME Base, OrderInv, [Next]_vars, Orderly, NEW s \in dag.start,
                        NEW t \in dag.start, s < t, rec[s] = "none", rec'[s] = "created"
                 PROVE  rec[t] = "none"
    BY DEF Orderly
  <2>2. Catchup(s) \in plan /\ cron # "advance"
    BY <2>1, CreatedBeforeAdvance
  <2>3. rec[t] # "none" => t <= s
    BY <2>1, <2>2 DEF OrderInv, PlanOrder
  <2>4. s \in Nat /\ t \in Nat
    BY <2>1, BaseFacts
  <2> QED
    BY <2>1, <2>3, <2>4
<1> QED
  BY <1>1, <1>2, <1>3, PTL DEF Spec, CatchUpInOrder
=============================================================================
