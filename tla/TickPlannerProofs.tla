-------------------------- MODULE TickPlannerProofs --------------------------
(***************************************************************************)
(* Proofs about TickPlanner, for every DAG, every cap of the buffer and    *)
(* any number of minutes and faults: an attempt that is neither queued nor *)
(* run is left by a crash only, and what was missed during a suspension is *)
(* not replayed.                                                           *)
(*                                                                         *)
(* IInv, for the first, says what the cron loop holds while it enqueues: a *)
(* plan with a catch-up has nothing else (PlanInv), which makes            *)
(* CatchupSlot one slot from Plan to Advance.  PInv, for the second,       *)
(* follows the watermark from memory to disk and back (Saved, ResumeInv).  *)
(***************************************************************************)
EXTENDS TickPlanner, FiniteSetTheorems, SequenceTheorems, WellFoundedInduction, TLAPS

-----------------------------------------------------------------------------
(* Missed intervals in chronological order.                                *)

\* Every set of natural numbers that is not empty has a least element.
LEMMA LeastNat ==
  ASSUME NEW T \in SUBSET Nat, T # {}
  PROVE  \E x \in T : \A y \in T : x <= y
<1>1. PICK x \in T : \A y \in T : ~(<<y, x>> \in OpToRel(<, Nat))
  BY NatLessThanWellFounded, WFMin
<1>2. ASSUME NEW y \in T PROVE x <= y
  <2>1. <<y, x>> \in Nat \X Nat /\ <<y, x>>[1] = y /\ <<y, x>>[2] = x
    OBVIOUS
  <2>2. ~(y < x)
    BY <1>1, <2>1 DEF OpToRel
  <2> QED
    BY <2>2
<1> QED
  BY <1>2

\* A bounded set of natural numbers has a greatest element.
LEMMA GreatestNat ==
  ASSUME NEW n \in Nat, NEW S \in SUBSET (0 .. n), S # {}
  PROVE  \E x \in S : \A y \in S : y <= x
<1> DEFINE U == {k \in Nat : \A y \in S : y <= k}
<1>1. U \in SUBSET Nat /\ n \in U
  OBVIOUS
<1>2. PICK u \in U : \A k \in U : u <= k
  <2> HIDE DEF U
  <2> QED
    BY <1>1, LeastNat
<1>3. u \in Nat /\ \A y \in S : y <= u
  BY <1>2
<1>4. u \in S
  <2>1. SUFFICES ASSUME u \notin S PROVE FALSE
    OBVIOUS
  <2>2. PICK y \in S : TRUE
    OBVIOUS
  <2>3. y \in Nat /\ y < u
    BY <1>3, <2>1
  <2>4. u - 1 \in Nat
    BY <1>3, <2>3
  <2>5. \A x \in S : x <= u - 1
    <3>1. ASSUME NEW x \in S PROVE x <= u - 1
      <4>1. x \in Nat /\ x <= u /\ x # u
        BY <1>3, <2>1
      <4> QED
        BY <1>3, <4>1
    <3> QED
      BY <3>1
  <2>6. u - 1 \in U
    BY <2>4, <2>5
  <2> QED
    BY <1>2, <1>3, <2>6
<1> QED
  BY <1>3, <1>4

Sorted(q) == \A i, j \in DOMAIN q : i < j => q[i] < q[j]

\* A set that can be put in order still can with a later member.
LEMMA OrderExtends ==
  ASSUME NEW S, NEW n \in Nat, NEW m \in S, S \subseteq Nat,
         \A y \in S : y <= m,
         NEW q \in [1 .. n -> S \ {m}], Sorted(q)
  PROVE  \E p \in [1 .. n + 1 -> S] : Sorted(p)
<1> DEFINE p == [i \in 1 .. n + 1 |-> IF i = n + 1 THEN m ELSE q[i]]
<1>1. \A i \in 1 .. n + 1 : i # n + 1 => i \in 1 .. n
  OBVIOUS
<1>2. p \in [1 .. n + 1 -> S]
  BY <1>1
<1>3. ASSUME NEW i \in 1 .. n + 1, NEW j \in 1 .. n + 1, i < j PROVE p[i] < p[j]
  <2>1. i \in 1 .. n /\ p[i] = q[i] /\ q[i] \in S \ {m}
    BY <1>1, <1>3
  <2>2. CASE j = n + 1
    <3>1. q[i] \in Nat /\ m \in Nat /\ q[i] <= m /\ q[i] # m
      BY <2>1
    <3> QED
      BY <2>1, <2>2, <3>1
  <2>3. CASE j # n + 1
    <3>1. j \in 1 .. n /\ p[j] = q[j]
      BY <1>1, <2>3
    <3> QED
      BY <1>3, <2>1, <3>1 DEF Sorted
  <2> QED
    BY <2>2, <2>3
<1>4. DOMAIN p = 1 .. n + 1
  OBVIOUS
<1>5. Sorted(p)
  <2> HIDE DEF p
  <2> QED
    BY <1>3, <1>4 DEF Sorted
<1> QED
  BY <1>2, <1>5

\* Every set of minutes can be put in order.
LEMMA OrderExists ==
  ASSUME NEW n \in Nat, NEW S \in SUBSET (0 .. n)
  PROVE  IsFiniteSet(S) /\ \E q \in [1 .. Cardinality(S) -> S] : Sorted(q)
<1> DEFINE Bad == {k \in Nat : \E T \in SUBSET (0 .. n) :
                     Cardinality(T) = k /\ ~\E q \in [1 .. k -> T] : Sorted(q)}
<1>1. IsFiniteSet(0 .. n)
  BY FS_Interval
<1>2. \A T \in SUBSET (0 .. n) : IsFiniteSet(T) /\ Cardinality(T) \in Nat
  BY <1>1, FS_Subset, FS_CardinalityType
<1>3. Bad = {}
  <2>1. SUFFICES ASSUME Bad # {} PROVE FALSE
    OBVIOUS
  <2>2. PICK k \in Bad : \A y \in Bad : k <= y
    <3>1. Bad \in SUBSET Nat
      OBVIOUS
    <3> HIDE DEF Bad
    <3> QED
      BY <2>1, <3>1, LeastNat
  <2>3. PICK T \in SUBSET (0 .. n) :
          Cardinality(T) = k /\ ~\E q \in [1 .. k -> T] : Sorted(q)
    BY <2>2
  <2>4. k \in Nat /\ IsFiniteSet(T)
    BY <1>2, <2>2
  <2>5. T # {}
    <3>1. SUFFICES ASSUME T = {} PROVE FALSE
      OBVIOUS
    <3>2. k = 0
      BY <2>3, <3>1, FS_EmptySet
    <3>3. 1 .. 0 = {}
      OBVIOUS
    <3>4. [i \in 1 .. 0 |-> i] \in [1 .. 0 -> T] /\ Sorted([i \in 1 .. 0 |-> i])
      BY <3>3 DEF Sorted
    <3> QED
      BY <2>3, <3>2, <3>4
  <2>6. PICK m \in T : \A y \in T : y <= m
    BY <2>5, GreatestNat
  <2>7. Cardinality(T \ {m}) = k - 1 /\ k - 1 \in Nat
    <3>1. Cardinality(T \ {m}) = k - 1
      BY <2>3, <2>4, <2>6, FS_RemoveElement
    <3>2. T \ {m} \in SUBSET (0 .. n)
      OBVIOUS
    <3>3. Cardinality(T \ {m}) \in Nat
      BY <1>2, <3>2
    <3> QED
      BY <3>1, <3>3
  <2>8. k - 1 \notin Bad
    BY <2>2, <2>4
  <2>9. \E q \in [1 .. k - 1 -> T \ {m}] : Sorted(q)
    <3>1. T \ {m} \in SUBSET (0 .. n)
      OBVIOUS
    <3> QED
      BY <2>7, <2>8, <3>1
  <2>10. PICK j \in Nat : j = k - 1 /\ j + 1 = k
    BY <2>4, <2>7
  <2>11. PICK q \in [1 .. j -> T \ {m}] : Sorted(q)
    BY <2>9, <2>10
  <2>12. T \subseteq Nat
    OBVIOUS
  <2> QED
    BY <2>3, <2>6, <2>10, <2>11, <2>12, OrderExtends
<1>4. Cardinality(S) \in Nat /\ Cardinality(S) \notin Bad
  BY <1>2, <1>3
<1>5. \E q \in [1 .. Cardinality(S) -> S] : Sorted(q)
  BY <1>4
<1> QED
  BY <1>2, <1>5

\* Chronological puts a set of minutes in order.
LEMMA ChronologicalFacts ==
  ASSUME NEW n \in Nat, NEW S \in SUBSET (0 .. n)
  PROVE  /\ Chronological(S) \in Seq(S)
         /\ Sorted(Chronological(S))
<1>1. PICK q \in [1 .. Cardinality(S) -> S] : Sorted(q)
  BY OrderExists
<1>2. /\ Chronological(S) \in [1 .. Cardinality(S) -> S]
      /\ \A i, j \in DOMAIN Chronological(S) : i < j => Chronological(S)[i] < Chronological(S)[j]
  BY <1>1 DEF Chronological, Sorted
<1>3. Cardinality(S) \in Nat
  BY OrderExists, FS_CardinalityType
<1> QED
  BY <1>2, <1>3 DEF Sorted

Above(b, t) == \A i \in 1 .. Len(b) : b[i] > t

\* The missed intervals are slots of the schedule inside the interval, in
\* order, and no more than the cap.
LEMMA MissedFacts ==
  ASSUME dag \in DAGs, NEW from \in Int, NEW to \in Int
  PROVE  LET q == ComputeMissedIntervals(from, to)
         IN  /\ q \in Seq(dag.start) /\ Len(q) <= MaxMissed /\ Above(q, from) /\ Sorted(q)
             /\ \A i \in 1 .. Len(q) : q[i] <= to
<1> DEFINE S == {s \in dag.start : from < s /\ s <= to}
           d == Chronological(S)
           q == ComputeMissedIntervals(from, to)
<1>1. dag.start \subseteq 0 .. MaxTime /\ MaxTime \in Nat /\ MaxMissed \in Nat
  BY TickPlannerAssumption DEF DAG, Minutes
<1>2. S \in SUBSET (0 .. MaxTime)
  BY <1>1
<1>3. d \in Seq(S) /\ Sorted(d)
  <2> HIDE DEF S
  <2> QED
    BY <1>1, <1>2, ChronologicalFacts
<1>4. q = IF Len(d) > MaxMissed THEN SubSeq(d, Len(d) - MaxMissed + 1, Len(d)) ELSE d
  BY DEF ComputeMissedIntervals
<1>5. q \in Seq(S) /\ Len(q) <= MaxMissed /\ Sorted(q)
  <2> HIDE DEF S, d, q
  <2>1. Len(d) \in Nat /\ DOMAIN d = 1 .. Len(d)
    BY <1>3
  <2>2. CASE Len(d) > MaxMissed
    <3>0. Len(d) - MaxMissed \in Nat
      BY <1>1, <2>1, <2>2
    <3>1. PICK a \in Nat : a = Len(d) - MaxMissed
      BY <3>0
    <3>2. /\ q = SubSeq(d, a + 1, Len(d))
          /\ a + 1 \in 1 .. Len(d) + 1 /\ Len(d) \in 0 .. Len(d)
      BY <1>1, <1>4, <2>1, <2>2, <3>1
    <3>3. /\ q \in Seq(S) /\ Len(q) = MaxMissed
          /\ \A i \in 1 .. MaxMissed : q[i] = d[a + i] /\ a + i \in 1 .. Len(d)
      BY <1>1, <1>3, <2>1, <3>1, <3>2
    <3>4. \A i, j \in 1 .. MaxMissed : i < j => a + i < a + j
      BY <1>1, <3>1
    <3>5. DOMAIN q = 1 .. MaxMissed
      BY <3>3
    <3>6. ASSUME NEW i \in 1 .. MaxMissed, NEW j \in 1 .. MaxMissed, i < j PROVE q[i] < q[j]
      BY <1>3, <2>1, <3>3, <3>4, <3>6 DEF Sorted
    <3> QED
      BY <1>1, <3>3, <3>5, <3>6 DEF Sorted
  <2>3. CASE ~(Len(d) > MaxMissed)
    BY <1>1, <1>3, <1>4, <2>1, <2>3
  <2> QED
    BY <2>2, <2>3
<1>6. \A i \in 1 .. Len(q) : q[i] \in dag.start /\ q[i] > from /\ q[i] <= to
  <2>1. \A s \in S : s \in dag.start /\ s > from /\ s <= to
    BY <1>1
  <2>2. \A i \in 1 .. Len(q) : q[i] \in S
    <3> HIDE DEF S, q
    <3> QED
      BY <1>5
  <2> HIDE DEF S, q
  <2> QED
    BY <2>1, <2>2
<1>7. q \in Seq(dag.start)
  <2> HIDE DEF S, q
  <2> QED
    BY <1>5, <1>6, ElementOfSeq, SeqDef
<1> QED
  BY <1>5, <1>6, <1>7 DEF Above

\* DropAllButLast keeps the last item and moves the DAG's watermark only.
LEMMA CollapseFacts ==
  ASSUME NEW T, T \subseteq Time, NEW w \in State, NEW b \in Seq(T)
  PROVE  LET c == Collapse(w, b)
         IN  /\ c.wm \in State /\ c.wm.lastTick = w.lastTick
             /\ c.buffer \in Seq(T) /\ Len(c.buffer) <= Len(b)
             /\ b # <<>> => c.buffer # <<>>
             /\ \A t \in Int : Above(b, t) => Above(c.buffer, t)
<1> PICK e : e = Collapse(w, b)
  OBVIOUS
<1>0. Len(b) \in Nat /\ \A i \in 1 .. Len(b) : b[i] \in T
  OBVIOUS
<1>1. CASE dag.policy = "latest" /\ Len(b) > 1
  <2>1. Len(b) - 1 \in 1 .. Len(b) /\ Len(b) \in 1 .. Len(b)
    BY <1>0, <1>1
  <2>2. PICK l \in T : l = b[Len(b)]
    BY <1>0, <2>1
  <2>3. PICK d \in Time : d = b[Len(b) - 1]
    BY <1>0, <2>1
  <2>4. e = [wm |-> [w EXCEPT !.last = d], buffer |-> <<l>>]
    BY <1>1, <2>2, <2>3 DEF Collapse, AdvanceDAGWatermark, Last
  <2>5. [w EXCEPT !.last = d] \in State /\ [w EXCEPT !.last = d].lastTick = w.lastTick
    BY DEF State
  <2>6. <<l>> \in Seq(T) /\ Len(<<l>>) = 1 /\ <<l>>[1] = l /\ <<l>> # <<>>
    OBVIOUS
  <2>7. \A t \in Int : Above(b, t) => Above(<<l>>, t)
    BY <2>1, <2>2, <2>6 DEF Above
  <2>8. e.wm = [w EXCEPT !.last = d] /\ e.buffer = <<l>>
    BY <2>4
  <2>9. /\ e.wm \in State /\ e.wm.lastTick = w.lastTick
        /\ e.buffer \in Seq(T) /\ Len(e.buffer) = 1 /\ e.buffer # <<>>
        /\ \A t \in Int : Above(b, t) => Above(e.buffer, t)
    BY <2>5, <2>6, <2>7, <2>8
  <2> QED
    BY <1>0, <1>1, <2>9
<1>2. CASE ~(dag.policy = "latest" /\ Len(b) > 1)
  <2>1. e = [wm |-> w, buffer |-> b]
    BY <1>2 DEF Collapse
  <2> QED
    BY <1>0, <2>1
<1> QED
  BY <1>1, <1>2

\* initBuffers and recomputeBuffer find only slots after the last tick.
LEMMA RecomputeFacts ==
  ASSUME dag \in DAGs, clock \in Time, NEW w \in State
  PROVE  LET c == Recompute(w)
         IN  /\ c.wm \in State /\ c.wm.lastTick = w.lastTick
             /\ c.buffer \in Seq(dag.start) /\ Len(c.buffer) <= MaxMissed
             /\ Above(c.buffer, w.lastTick)
<1> PICK e : e = Recompute(w)
  OBVIOUS
<1>0. /\ dag.start \subseteq Time /\ dag.window \in Nat /\ clock \in Int
      /\ w.lastTick \in Int /\ w.last \in Int /\ MaxMissed \in Nat
  BY TickPlannerAssumption DEF DAG, Minutes, Time, State
<1>1. CASE dag.window = 0
  <2>1. e = [wm |-> w, buffer |-> <<>>]
    BY <1>1 DEF Recompute
  <2> QED
    BY <1>0, <2>1 DEF Above
<1>2. CASE dag.window # 0
  <2>1. PICK f : f = ComputeReplayFrom(w)
    OBVIOUS
  <2>2. f \in Int /\ f >= w.lastTick
    <3>1. PICK a \in Int : a = clock - dag.window
      BY <1>0
    <3>2. \E x \in {a, w.lastTick, w.last} : \A y \in {a, w.lastTick, w.last} : x >= y
      BY <1>0
    <3>3. f = CHOOSE x \in {a, w.lastTick, w.last} : \A y \in {a, w.lastTick, w.last} : x >= y
      BY <2>1, <3>1 DEF ComputeReplayFrom, Max
    <3>4. f \in {a, w.lastTick, w.last} /\ \A y \in {a, w.lastTick, w.last} : f >= y
      BY <3>2, <3>3
    <3> QED
      BY <1>0, <3>4
  <2>3. PICK q : q = ComputeMissedIntervals(f, clock)
    OBVIOUS
  <2>4. q \in Seq(dag.start) /\ Len(q) <= MaxMissed /\ Above(q, f)
    BY <1>0, <2>2, <2>3, MissedFacts
  <2>5. Above(q, w.lastTick)
    <3>1. \A i \in 1 .. Len(q) : q[i] \in Int
      BY <1>0, <2>4 DEF Time
    <3> QED
      BY <1>0, <2>2, <2>4, <3>1 DEF Above
  <2>6. e = Collapse(w, q)
    BY <1>2, <2>1, <2>3 DEF Recompute
  <2>7. /\ e.wm \in State /\ e.wm.lastTick = w.lastTick
        /\ e.buffer \in Seq(dag.start) /\ Len(e.buffer) <= Len(q)
        /\ Above(e.buffer, w.lastTick)
    BY <1>0, <2>4, <2>5, <2>6, CollapseFacts
  <2> QED
    BY <1>0, <2>4, <2>7
<1> QED
  BY <1>1, <1>2

\* Taking the front item, and putting an item back.
LEMMA BufferFacts ==
  ASSUME NEW T, NEW b \in Seq(T)
  PROVE  /\ b # <<>> => /\ Head(b) \in T /\ Tail(b) \in Seq(T) /\ Len(Tail(b)) <= Len(b)
                        /\ \A t \in Int : Above(b, t) => Head(b) > t /\ Above(Tail(b), t)
         /\ \A s \in T : /\ Reinsert(b, s) \in Seq(T)
                         /\ Len(b) <= MaxMissed => Len(Reinsert(b, s)) <= MaxMissed
                         /\ \A t \in Int : Above(b, t) /\ s > t => Above(Reinsert(b, s), t)
<1>0. MaxMissed \in Nat /\ Len(b) \in Nat
  BY TickPlannerAssumption
<1>1. ASSUME b # <<>>
      PROVE  /\ Head(b) \in T /\ Tail(b) \in Seq(T) /\ Len(Tail(b)) <= Len(b)
             /\ \A t \in Int : Above(b, t) => Head(b) > t /\ Above(Tail(b), t)
  <2>1. Head(b) = b[1] /\ Tail(b) \in Seq(T) /\ Len(Tail(b)) = Len(b) - 1 /\ Len(b) >= 1
    BY <1>1
  <2>2. \A i \in 1 .. Len(b) - 1 : Tail(b)[i] = b[i + 1] /\ i + 1 \in 1 .. Len(b)
    BY <1>0, <1>1
  <2>3. 1 \in 1 .. Len(b)
    BY <1>0, <2>1
  <2> QED
    BY <1>0, <2>1, <2>2, <2>3 DEF Above
<1>2. ASSUME NEW s \in T
      PROVE  /\ Reinsert(b, s) \in Seq(T)
             /\ Len(b) <= MaxMissed => Len(Reinsert(b, s)) <= MaxMissed
             /\ \A t \in Int : Above(b, t) /\ s > t => Above(Reinsert(b, s), t)
  <2>1. PICK r : r = <<s>> \o b
    OBVIOUS
  <2>2. /\ r \in Seq(T) /\ Len(r) = Len(b) + 1 /\ r[1] = s
        /\ \A i \in 1 .. Len(b) + 1 : i # 1 => r[i] = b[i - 1] /\ i - 1 \in 1 .. Len(b)
    BY <1>0, <2>1
  <2>3. \A t \in Int : Above(b, t) /\ s > t => Above(r, t)
    BY <2>2 DEF Above
  <2>4. Reinsert(b, s) = r \/ Reinsert(b, s) = b
    BY <2>1 DEF Reinsert
  <2>5. Reinsert(b, s) = r => Len(b) < MaxMissed \/ r = b
    BY <2>1 DEF Reinsert
  <2> QED
    BY <1>0, <2>2, <2>3, <2>4, <2>5
<1> QED
  BY <1>1, <1>2

-----------------------------------------------------------------------------
(* Attempts.                                                               *)

RecStatus == {"none", "created", "queued", "running", "ended"}

\* The cron loop is in EnqueueCatchupRun.
InEnqueue == cron \in {"create", "created", "queued"}

PlansCatchup(p) == \E s : p = {Planned("catchup", s)}

RecInv == dag \in DAGs /\ rec \in [RunId -> RecStatus]

\* Plan returns one catch-up or no catch-up, and EnqueueCatchupRun has one.
PlanInv ==
  /\ (\E r \in plan : r.kind = "catchup") => PlansCatchup(plan)
  /\ InEnqueue => PlansCatchup(plan)

IInv == RecInv /\ PlanInv /\ StrandedOnlyByCrash

-----------------------------------------------------------------------------
\* The one-off's id is no slot of the schedule.
LEMMA StartSlots ==
  ASSUME RecInv
  PROVE  /\ dag.start \subseteq RunId
         /\ \A s \in dag.start : s # OneOff
<1>1. dag.start \subseteq Minutes
  BY TickPlannerAssumption DEF RecInv, DAG
<1>2. \A s \in Minutes : s # OneOff
  BY TickPlannerAssumption DEF Minutes, OneOff
<1> QED
  BY <1>1, <1>2 DEF RunId

\* The catch-up of a plan is the one CatchupSlot names.
LEMMA SlotOfPlan ==
  ASSUME PlansCatchup(plan)
  PROVE  /\ plan = {Planned("catchup", CatchupSlot)}
         /\ InPlan("catchup") # {}
<1>1. PICK s : plan = {Planned("catchup", s)}
  BY DEF PlansCatchup
<1>2. Planned("catchup", s).kind = "catchup" /\ Planned("catchup", s).slot = s
  BY DEF Planned
<1>3. InPlan("catchup") = {Planned("catchup", s)}
  BY <1>1, <1>2 DEF InPlan
<1>4. (CHOOSE r \in InPlan("catchup") : TRUE) = Planned("catchup", s)
  BY <1>3
<1>5. CatchupSlot = s
  BY <1>2, <1>4 DEF CatchupSlot
<1> QED
  BY <1>1, <1>3, <1>5

\* What is being enqueued is the catch-up's slot and no other.
LEMMA EnqueueingSlot ==
  ASSUME PlanInv, InEnqueue
  PROVE  \A s : Planned("catchup", s) \in plan <=> s = CatchupSlot
<1>1. plan = {Planned("catchup", CatchupSlot)}
  BY SlotOfPlan DEF PlanInv
<1>2. \A s, t : Planned("catchup", s) = Planned("catchup", t) => s = t
  BY DEF Planned
<1> QED
  BY <1>1, <1>2

\* The initial state: no attempt and no plan.
LEMMA InitIInv == Init => IInv
<1> SUFFICES ASSUME Init PROVE IInv
  OBVIOUS
<1>1. RecInv
  BY DEF Init, RecInv, RecStatus
<1>2. PlanInv
  BY DEF Init, PlanInv, InEnqueue
<1>3. StrandedOnlyByCrash
  BY <1>1, StartSlots DEF Init, StrandedOnlyByCrash, Stranded
<1> QED
  BY <1>1, <1>2, <1>3 DEF IInv

-----------------------------------------------------------------------------
(* Steps by what they do to the plan *)

\* A step that touches neither the loop nor the plan.
LEMMA PlanSame ==
  ASSUME PlanInv, plan' = plan, cron' = cron
  PROVE  PlanInv'
BY DEF PlanInv, InEnqueue, PlansCatchup

\* A step of the loop that keeps the plan, and only with a catch-up enters
\* EnqueueCatchupRun.
LEMMA PlanKept ==
  ASSUME PlanInv, plan' = plan,
         InEnqueue \/ (cron = "dispatch" /\ InPlan("catchup") # {}) \/ ~InEnqueue'
  PROVE  PlanInv'
BY DEF PlanInv, InEnqueue, InPlan, PlansCatchup

\* A plan without a catch-up, or of one catch-up, for the loop to dispatch.
LEMMA PlanMade ==
  ASSUME cron' \notin {"create", "created", "queued"},
         PlansCatchup(plan') \/ \A r \in plan' : r.kind # "catchup"
  PROVE  PlanInv'
BY DEF PlanInv, InEnqueue, PlansCatchup

\* Plan makes such plans in each of its ways.
LEMMA PlannedKinds ==
  ASSUME PlanNothing \/ PlanSuspended \/ PlanCatchup \/ PlanBusy \/ PlanNoCatchup
           \/ PlanLive \/ PlanDeferred \/ PlanCatchupBlind \/ PlanLiveFails
  PROVE  /\ cron \in {"select", "live"} /\ cron' \in {"live", "dispatch"}
         /\ PlansCatchup(plan') \/ \A r \in plan' : r.kind # "catchup"
<1>0. \A k, s : Planned(k, s).kind = k
  BY DEF Planned
<1>1. CASE PlanNothing \/ PlanSuspended \/ PlanNoCatchup
  BY <1>1 DEF PlanNothing, PlanSuspended, PlanNoCatchup, Planning, TickDue
<1>2. CASE PlanCatchup
  BY <1>2 DEF PlanCatchup, Planning, TickDue, PlansCatchup
<1>3. CASE PlanBusy
  BY <1>3 DEF PlanBusy, Planning, TickDue
<1>4. CASE PlanDeferred
  BY <1>4 DEF PlanDeferred, TickDue
<1>5. CASE PlanCatchupBlind
  BY <1>5 DEF PlanCatchupBlind, TickDue, PlansCatchup
<1>6. \A r \in Restarts : r.kind # "catchup"
  BY <1>0 DEF Restarts
<1>7. CASE PlanLiveFails
  BY <1>6, <1>7 DEF PlanLiveFails
<1>8. CASE PlanLive
  <2>1. \A r \in StartCandidates : r.kind # "catchup"
    BY <1>0 DEF StartCandidates
  <2>2. \A s : Planned("stop", s).kind # "catchup"
    BY <1>0
  <2> QED
    BY <1>6, <1>8, <2>1, <2>2 DEF PlanLive
<1> QED
  BY <1>1, <1>2, <1>3, <1>4, <1>5, <1>7, <1>8

-----------------------------------------------------------------------------
(* Steps by what they do to the attempts *)

\* An attempt that was settled stays so when the step keeps the queue's runs,
\* the enqueue under way and the crashes seen.
LEMMA StrandedKept ==
  ASSUME RecInv, StrandedOnlyByCrash, dag' = dag, upset \subseteq upset',
         \A s \in dag.start : rec'[s] \in {"created", "queued"}
           => rec[s] \in {"created", "queued"}
                /\ (s \in queue => s \in queue') /\ (Enqueueing(s) => Enqueueing(s)')
  PROVE  StrandedOnlyByCrash'
BY DEF StrandedOnlyByCrash, Stranded

\* The steps of the scheduler that touch no attempt and are not in
\* EnqueueCatchupRun.
Apart ==
  /\ dag' = dag /\ rec' = rec /\ queue' = queue /\ upset \subseteq upset'
  /\ \/ cron' = cron /\ plan' = plan
     \/ ~InEnqueue

\* Such a step strands no attempt.
LEMMA ApartKeeps ==
  ASSUME RecInv, StrandedOnlyByCrash, Apart
  PROVE  RecInv' /\ StrandedOnlyByCrash'
<1>1. RecInv'
  BY DEF Apart, RecInv
<1>2. \A s \in dag.start : Enqueueing(s) => Enqueueing(s)'
  BY DEF Apart, Enqueueing, InEnqueue
<1> QED
  BY <1>1, <1>2, StrandedKept DEF Apart

\* A step of a process, of the queue processor or of a dispatching goroutine
\* moves attempts on and takes none back.
LEMMA RuntimeKeeps ==
  ASSUME IInv,
         (\E g \in gos : GoStops(g)) \/ ProcessStep
  PROVE  IInv'
<1>0. RecInv /\ PlanInv /\ StrandedOnlyByCrash
  BY DEF IInv
<1>1. CASE \E g \in gos : GoStops(g)
  <2>1. /\ dag' = dag /\ queue' = queue /\ upset' = upset /\ cron' = cron /\ plan' = plan
        /\ rec' = [r \in RunId |-> IF rec[r] = "running" THEN "ended" ELSE rec[r]]
    BY <1>1 DEF GoStops, input, history
  <2>2. RecInv'
    BY <1>0, <2>1 DEF RecInv, RecStatus
  <2>3. \A s \in dag.start : rec'[s] \in {"created", "queued"} => rec[s] = rec'[s]
    BY <1>0, <2>1, StartSlots
  <2>4. StrandedOnlyByCrash'
    BY <1>0, <2>1, <2>3, StrandedKept DEF Enqueueing
  <2> QED
    BY <1>0, <2>1, <2>2, <2>4, PlanSame DEF IInv
<1>2. CASE \E r \in starting : ProcessStarts(r)
  <2>1. /\ dag' = dag /\ queue' = queue /\ upset' = upset /\ cron' = cron /\ plan' = plan
        /\ rec' = rec \/ rec' = [rec EXCEPT ![OneOff] = "running"]
    BY <1>2 DEF ProcessStarts, input, history
  <2>2. RecInv'
    BY <1>0, <2>1 DEF RecInv, RecStatus
  <2>3. \A s \in dag.start : rec'[s] = rec[s]
    BY <1>0, <2>1, StartSlots DEF RecInv
  <2>4. StrandedOnlyByCrash'
    BY <1>0, <2>1, <2>3, StrandedKept DEF Enqueueing
  <2> QED
    BY <1>0, <2>1, <2>2, <2>4, PlanSame DEF IInv
<1>3. CASE \E s \in queue : QueueStarts(s)
  <2>1. PICK t \in queue :
          /\ dag' = dag /\ queue' = queue \ {t} /\ upset' = upset /\ cron' = cron
          /\ plan' = plan /\ rec' = [rec EXCEPT ![t] = "running"]
    BY <1>3 DEF QueueStarts, input, history
  <2>2. RecInv'
    BY <1>0, <2>1 DEF RecInv, RecStatus
  <2>3. \A s \in dag.start : rec'[s] \in {"created", "queued"} => s # t /\ rec'[s] = rec[s]
    BY <1>0, <2>1, StartSlots DEF RecInv
  <2>4. StrandedOnlyByCrash'
    BY <1>0, <2>1, <2>3, StrandedKept DEF Enqueueing
  <2> QED
    BY <1>0, <2>1, <2>2, <2>4, PlanSame DEF IInv
<1>4. CASE \E r \in procs : ProcessEnds(r)
  <2>1. PICK r \in procs :
          /\ dag' = dag /\ queue' = queue /\ upset' = upset /\ cron' = cron /\ plan' = plan
          /\ rec' = rec \/ rec' = [rec EXCEPT ![IdOf(r)] = "ended"]
    BY <1>4 DEF ProcessEnds, input, history
  <2>2. RecInv'
    BY <1>0, <2>1 DEF RecInv, RecStatus
  <2>3. \A s \in dag.start : rec'[s] \in {"created", "queued"} => rec'[s] = rec[s]
    BY <1>0, <2>1, StartSlots DEF RecInv
  <2>4. StrandedOnlyByCrash'
    BY <1>0, <2>1, <2>3, StrandedKept DEF Enqueueing
  <2> QED
    BY <1>0, <2>1, <2>2, <2>4, PlanSame DEF IInv
<1> QED
  BY <1>1, <1>2, <1>3, <1>4 DEF ProcessStep

\* EnqueueCatchupRun: the attempt is being enqueued from its creation to the
\* queue, or it is taken back.
LEMMA EnqueueKeeps ==
  ASSUME IInv, CreateAttempt \/ WriteQueued \/ Enqueue \/ EnqueueFails
  PROVE  IInv'
<1>0. RecInv /\ PlanInv /\ StrandedOnlyByCrash
  BY DEF IInv
<1>1. InEnqueue
  BY DEF CreateAttempt, WriteQueued, Enqueue, EnqueueFails, InEnqueue
<1>2. \A s : Planned("catchup", s) \in plan <=> s = CatchupSlot
  BY <1>0, <1>1, EnqueueingSlot
<1>3. /\ dag' = dag /\ upset' = upset /\ plan' = plan
      /\ queue \subseteq queue'
      /\ rec' = rec \/ \E x \in RecStatus : rec' = [rec EXCEPT ![CatchupSlot] = x]
  BY DEF CreateAttempt, WriteQueued, Enqueue, EnqueueFails, Rollback, RecStatus, input, history
<1>4. RecInv'
  BY <1>0, <1>3 DEF RecInv
<1>5. PlanInv'
  BY <1>0, <1>1, <1>3, PlanKept
<1>6. ASSUME NEW s \in dag.start, s # CatchupSlot
      PROVE  rec'[s] = rec[s] /\ ~Enqueueing(s)
  BY <1>0, <1>2, <1>3, <1>6, StartSlots DEF RecInv, Enqueueing
<1>7. ASSUME CatchupSlot \in dag.start PROVE ~Stranded(CatchupSlot)'
  <2>0. rec \in [RunId -> RecStatus] /\ CatchupSlot \in RunId
    BY <1>0, <1>7, StartSlots DEF RecInv
  <2>1. PICK c : c = CatchupSlot
    OBVIOUS
  <2>2. Planned("catchup", c) \in plan'
    BY <1>2, <1>3, <2>1
  <2>3. CASE CreateAttempt \/ WriteQueued
    BY <2>1, <2>2, <2>3, <1>3 DEF CreateAttempt, WriteQueued, Stranded, Enqueueing, CatchupSlot, InPlan
  <2>4. CASE Enqueue
    BY <2>4, <1>3 DEF Enqueue, Stranded, CatchupSlot, InPlan
  <2>5. CASE EnqueueFails
    BY <2>0, <2>5, <1>3 DEF EnqueueFails, Rollback, Stranded, CatchupSlot, InPlan
  <2> QED
    BY <2>3, <2>4, <2>5
<1>8. CatchupSlot' = CatchupSlot
  BY <1>3 DEF CatchupSlot, InPlan
<1>9. StrandedOnlyByCrash'
  <2>1. SUFFICES ASSUME NEW s \in dag.start, Stranded(s)' PROVE "attempt" \in upset
    BY <1>3 DEF StrandedOnlyByCrash
  <2>2. s # CatchupSlot
    BY <1>7, <1>8, <2>1
  <2>3. Stranded(s)
    BY <1>3, <1>6, <2>1, <2>2 DEF Stranded
  <2> QED
    BY <1>0, <2>1, <2>3 DEF StrandedOnlyByCrash
<1> QED
  BY <1>4, <1>5, <1>9 DEF IInv

\* A crash in EnqueueCatchupRun is noted.
LEMMA CrashKeeps ==
  ASSUME IInv, Crash
  PROVE  IInv'
<1>0. RecInv /\ PlanInv /\ StrandedOnlyByCrash
  BY DEF IInv
<1>1. /\ dag' = dag /\ rec' = rec /\ queue' = queue /\ upset \subseteq upset'
      /\ cron' = "select" /\ plan' = {}
      /\ cron \in {"created", "queued"} => "attempt" \in upset'
  BY DEF Crash, Forget, input
<1>2. RecInv'
  BY <1>0, <1>1 DEF RecInv
<1>3. PlanInv'
  BY <1>1, PlanMade
<1>4. StrandedOnlyByCrash'
  <2>1. CASE cron \in {"created", "queued"}
    BY <1>1, <2>1 DEF StrandedOnlyByCrash
  <2>2. CASE cron \notin {"created", "queued"}
    BY <1>0, <1>1, <2>2, StrandedKept DEF Enqueueing
  <2> QED
    BY <2>1, <2>2
<1> QED
  BY <1>2, <1>3, <1>4 DEF IInv

\* Every step preserves the invariant.
LEMMA NextIInv == IInv /\ [Next]_vars => IInv'
<1> SUFFICES ASSUME IInv, [Next]_vars PROVE IInv'
  OBVIOUS
<1>0. RecInv /\ PlanInv /\ StrandedOnlyByCrash
  BY DEF IInv
<1>1. ASSUME Apart, PlanInv' PROVE IInv'
  BY <1>0, <1>1, ApartKeeps DEF IInv
<1>2. ASSUME dag' = dag, rec' = rec, queue' = queue, upset \subseteq upset',
             cron' = cron, plan' = plan
      PROVE  IInv'
  BY <1>0, <1>1, <1>2, PlanSame DEF Apart
<1>3. CASE TimePasses \/ ToggleSuspended \/ FileChanges
  BY <1>2, <1>3 DEF TimePasses, ToggleSuspended, FileChanges, runtime, history
<1>4. CASE Start \/ StopBegins \/ StopFlushes
  BY <1>2, <1>4 DEF Start, StopBegins, StopFlushes, input, runtime, history
<1>5. CASE Exit
  <2>1. Apart /\ cron' = "select" /\ plan' = {}
    BY <1>5 DEF Exit, Forget, Apart, InEnqueue, input, runtime
  <2> QED
    BY <1>1, <2>1, PlanMade
<1>6. CASE FlushTimer \/ SaveStep \/ \E f \in saves : SaveFails(f)
  BY <1>2, <1>6 DEF FlushTimer, SaveStep, Save, SaveFails, input, runtime, history
<1>7. CASE PlanNothing \/ PlanSuspended \/ PlanCatchup \/ PlanBusy \/ PlanNoCatchup
             \/ PlanLive \/ PlanDeferred \/ PlanCatchupBlind \/ PlanLiveFails
  <2>1. /\ cron \in {"select", "live"} /\ cron' \in {"live", "dispatch"}
        /\ PlansCatchup(plan') \/ \A r \in plan' : r.kind # "catchup"
    BY <1>7, PlannedKinds
  <2>2. dag' = dag /\ rec' = rec /\ queue' = queue /\ upset \subseteq upset'
    BY <1>7 DEF PlanNothing, PlanSuspended, PlanCatchup, PlanBusy, PlanNoCatchup, PlanLive,
         PlanDeferred, PlanCatchupBlind, PlanLiveFails, Planning, input, runtime, history
  <2> QED
    BY <1>1, <2>1, <2>2, PlanMade DEF Apart, InEnqueue
<1>8. CASE DispatchRuns \/ DispatchCatchup
  <2>1. Apart /\ plan' = plan
        /\ (InEnqueue' => cron = "dispatch" /\ InPlan("catchup") # {})
    BY <1>8 DEF DispatchRuns, DispatchCatchup, Apart, InEnqueue, input, runtime, history
  <2> QED
    BY <1>0, <1>1, <2>1, PlanKept
<1>9. CASE EnqueueExists
  <2>1. /\ dag' = dag /\ rec' = rec /\ queue' = queue /\ upset' = upset /\ plan' = plan
        /\ cron = "create" /\ cron' = "advance"
    BY <1>9 DEF EnqueueExists, input, runtime, history
  <2>2. PlanInv'
    BY <1>0, <2>1, PlanKept DEF InEnqueue
  <2>3. StrandedOnlyByCrash'
    BY <1>0, <2>1, StrandedKept DEF Enqueueing
  <2>4. RecInv'
    BY <1>0, <2>1 DEF RecInv
  <2> QED
    BY <2>2, <2>3, <2>4 DEF IInv
<1>10. CASE Advance
  <2>1. Apart /\ cron' = "select" /\ plan' = {}
    BY <1>10 DEF Advance, Apart, InEnqueue, input, runtime, history
  <2> QED
    BY <1>1, <2>1, PlanMade
<1>11. CASE \E g \in gos : GoEnds(g) \/ GoExists(g) \/ GoSpawns(g) \/ GoMarks(g) \/ GoFails(g)
  BY <1>2, <1>11 DEF GoEnds, GoExists, GoSpawns, GoMarks, GoFails, input, runtime, history
<1>12. CASE DAGAdded \/ DAGUpdated \/ DAGDeleted
  <2>1. /\ dag' = dag /\ rec' = rec /\ queue' = queue /\ upset \subseteq upset'
        /\ cron' = cron /\ plan' = plan
    BY <1>12 DEF DAGAdded, DAGUpdated, DAGDeleted, Event, runtime
  <2> QED
    BY <1>2, <2>1
<1>13. CASE UNCHANGED vars
  BY <1>2, <1>13 DEF vars
<1> QED
  BY <1>3, <1>4, <1>5, <1>6, <1>7, <1>8, <1>9, <1>10, <1>11, <1>12, <1>13,
     RuntimeKeeps, EnqueueKeeps, CrashKeeps
  DEF Next, CronStep, EnqueueStep, GoStep

\* An attempt that EnqueueCatchupRun created and that is neither queued nor
\* run is left by a crash between two of its steps, never by a failed write, a
\* failed enqueue or a stop: the rollback takes back the attempt it created,
\* whatever tick the cron loop is in and whatever events come meanwhile.
THEOREM AttemptsAreSettled == Spec => []StrandedOnlyByCrash
<1>1. IInv => StrandedOnlyByCrash
  BY DEF IInv
<1> QED
  BY InitIInv, NextIInv, <1>1, PTL DEF Spec

-----------------------------------------------------------------------------
(* Suspension.                                                             *)

\* No watermark was lost.
Clean == upset \cap {"tick", "save"} = {}

TimeInv ==
  /\ clock \in Time /\ tickTime \in Time /\ suspendedAt \in Time
  /\ dag \in DAGs /\ phase \in {"down", "up", "stopping", "stopped"}
  /\ suspendedAt <= clock
  /\ Alive => suspendedAt <= tickTime

StateInv ==
  /\ wm \in State /\ disk \in State /\ dirty \in BOOLEAN
  /\ \A f \in saves : f.state \in State

BufferInv ==
  /\ buffer \in Seq(dag.start) /\ Len(buffer) <= MaxMissed
  /\ \A r \in plan : r.kind = "catchup" => r.slot \in dag.start

\* A scheduler that is down has nothing under way.
DownInv == ~Alive => saves = {} /\ cron = "select" /\ plan = {} /\ gos = {}

\* What is in memory is on disk, about to be saved, or dirty.
Saved == dirty \/ (\E f \in saves : f.state = wm) \/ (saves = {} /\ disk = wm)

\* Everything that may still be replayed is later than the last tick that found
\* the DAG suspended: what is buffered, what is planned, and what the watermark
\* will let in, in memory and on disk.
ResumeInv ==
  Clean => /\ Above(buffer, suspendedAt)
           /\ \A r \in plan : r.kind = "catchup" => r.slot > suspendedAt
           /\ Alive => Saved
           /\ Alive /\ cron = "select" => wm.lastTick >= suspendedAt
           /\ ~Alive => disk.lastTick >= suspendedAt

PInv == TimeInv /\ StateInv /\ BufferInv /\ DownInv /\ ResumeInv

\* The slots of a schedule are times.
LEMMA StartTimes ==
  ASSUME dag \in DAGs
  PROVE  dag.start \subseteq Time /\ Time \subseteq Nat
BY TickPlannerAssumption DEF DAG, Minutes, Time

\* The initial state: nothing has been suspended.
LEMMA InitPInv == Init => PInv
<1> SUFFICES ASSUME Init PROVE PInv
  OBVIOUS
<1>1. MaxTime \in Nat /\ 1 <= MaxTime /\ MaxMissed \in Nat
  BY TickPlannerAssumption
<1>2. TimeInv
  BY <1>1 DEF Init, TimeInv, Time, Alive
<1>3. StateInv
  <2>1. NoState \in State
    BY <1>1 DEF State, NoState, Time
  <2> QED
    BY <2>1 DEF Init, StateInv
<1>4. BufferInv
  BY <1>1 DEF Init, BufferInv
<1>5. DownInv
  BY DEF Init, DownInv
<1>6. ResumeInv
  BY DEF Init, ResumeInv, Above, Alive, NoState
<1> QED
  BY <1>2, <1>3, <1>4, <1>5, <1>6 DEF PInv

\* A step that writes no more than the DAG's own watermark, the buffer and the
\* plan, and nothing early into them.
LEMMA PlannerStep ==
  ASSUME PInv, NEW w \in State, w.lastTick = wm.lastTick,
         wm' = w, dirty' = (dirty \/ w # wm),
         clock' = clock, phase' = phase, dag' = dag, saves' = saves, disk' = disk,
         tickTime' = tickTime, suspendedAt' = suspendedAt, upset \subseteq upset',
         cron' = "select" => cron = "select",
         Alive \/ (cron' = cron /\ plan' = plan /\ gos' = gos),
         buffer' \in Seq(dag.start), Len(buffer') <= MaxMissed,
         Clean => Above(buffer', suspendedAt),
         \A r \in plan' : r.kind = "catchup"
                            => r.slot \in dag.start /\ (Clean => r.slot > suspendedAt)
  PROVE  PInv'
<1>1. Clean' => Clean
  BY DEF Clean
<1>2. TimeInv'
  BY DEF PInv, TimeInv, Alive
<1>3. StateInv'
  BY DEF PInv, StateInv
<1>4. BufferInv'
  BY DEF BufferInv
<1>5. DownInv'
  BY DEF PInv, DownInv, Alive
<1>6. Saved => Saved'
  BY DEF Saved, PInv, StateInv
<1>7. Above(buffer', suspendedAt) => Above(buffer, suspendedAt)'
  BY DEF Above
<1>8. ResumeInv'
  BY <1>1, <1>6, <1>7 DEF PInv, ResumeInv, Alive
<1> QED
  BY <1>2, <1>3, <1>4, <1>5, <1>8 DEF PInv

\* The same without a new watermark.
LEMMA PlannerStill ==
  ASSUME PInv, wm' = wm, dirty' = dirty,
         clock' = clock, phase' = phase, dag' = dag, saves' = saves, disk' = disk,
         tickTime' = tickTime, suspendedAt' = suspendedAt, upset \subseteq upset',
         cron' = "select" => cron = "select",
         Alive \/ (cron' = cron /\ plan' = plan /\ gos' = gos),
         buffer' = buffer,
         plan' = plan \/ \A r \in plan' : r.kind # "catchup"
  PROVE  PInv'
<1>1. wm \in State /\ dirty' = (dirty \/ wm # wm)
  BY DEF PInv, StateInv
<1>2. /\ buffer' \in Seq(dag.start) /\ Len(buffer') <= MaxMissed
      /\ Clean => Above(buffer', suspendedAt)
  BY DEF PInv, BufferInv, ResumeInv
<1>3. \A r \in plan' : r.kind = "catchup"
                         => r.slot \in dag.start /\ (Clean => r.slot > suspendedAt)
  BY DEF PInv, BufferInv, ResumeInv
<1> QED
  BY <1>1, <1>2, <1>3, PlannerStep

\* The steps that leave the planner alone, and those of the cron loop that
\* decide nothing.
LEMMA StillKeeps ==
  ASSUME PInv, PlanInv,
         \/ ToggleSuspended \/ FileChanges \/ ProcessStep
         \/ \E g \in gos : GoEnds(g) \/ GoExists(g) \/ GoSpawns(g) \/ GoFails(g) \/ GoStops(g)
         \/ PlanNothing \/ PlanNoCatchup \/ PlanDeferred \/ PlanLive \/ PlanLiveFails
         \/ DispatchRuns \/ CreateAttempt \/ WriteQueued
         \/ UNCHANGED vars
  PROVE  PInv'
<1>1. CASE ToggleSuspended \/ FileChanges
  BY <1>1, PlannerStill DEF ToggleSuspended, FileChanges, history
<1>2. CASE ProcessStep
  <2>1. UNCHANGED <<clock, phase, dag, wm, dirty, saves, disk, buffer, tickTime, cron, plan,
                    gos, upset, suspendedAt>>
    BY <1>2 DEF ProcessStep, ProcessStarts, QueueStarts, ProcessEnds, input, history
  <2> QED
    BY <2>1, PlannerStill
<1>3. CASE \E g \in gos : GoEnds(g) \/ GoExists(g) \/ GoSpawns(g) \/ GoFails(g) \/ GoStops(g)
  <2>1. UNCHANGED <<clock, phase, dag, wm, dirty, saves, disk, buffer, tickTime, cron, plan,
                    upset, suspendedAt>>
    BY <1>3 DEF GoEnds, GoExists, GoSpawns, GoFails, GoStops, input, history
  <2>2. Alive
    BY <1>3 DEF PInv, DownInv
  <2> QED
    BY <2>1, <2>2, PlannerStill
<1>4. CASE PlanNothing \/ PlanNoCatchup
  <2>1. /\ UNCHANGED <<clock, phase, dag, wm, saves, disk, buffer, tickTime, upset, suspendedAt>>
        /\ Alive /\ plan' = {} /\ cron' # "select" /\ dirty' = (dirty \/ wm # wm)
    BY <1>4 DEF PlanNothing, PlanNoCatchup, Planning, SetWatermark, TickDue, input
  <2>2. dirty' = dirty
    BY <2>1 DEF PInv, StateInv
  <2> QED
    BY <2>1, <2>2, PlannerStill
<1>5. CASE PlanDeferred \/ PlanLive \/ PlanLiveFails
  <2>1. /\ UNCHANGED <<clock, phase, dag, wm, dirty, saves, disk, buffer, tickTime, suspendedAt>>
        /\ Alive /\ cron' # "select" /\ upset \subseteq upset'
    BY <1>5 DEF PlanDeferred, PlanLive, PlanLiveFails, TickDue, input, history
  <2>2. \A r \in plan' : r.kind # "catchup"
    <3>0. \A k, s : Planned(k, s).kind = k
      BY DEF Planned
    <3>1. \A r \in Restarts : r.kind # "catchup"
      BY <3>0 DEF Restarts
    <3>2. \A r \in StartCandidates : r.kind # "catchup"
      BY <3>0 DEF StartCandidates
    <3> QED
      BY <1>5, <3>0, <3>1, <3>2 DEF PlanDeferred, PlanLive, PlanLiveFails
  <2> QED
    BY <2>1, <2>2, PlannerStill
<1>6. CASE DispatchRuns \/ CreateAttempt \/ WriteQueued
  <2>1. /\ UNCHANGED <<clock, phase, dag, wm, dirty, saves, disk, buffer, tickTime, plan,
                       upset, suspendedAt>>
        /\ cron # "select" /\ cron' # "select"
    BY <1>6 DEF DispatchRuns, CreateAttempt, WriteQueued, input, history
  <2>2. Alive
    BY <2>1 DEF PInv, DownInv
  <2> QED
    BY <2>1, <2>2, PlannerStill
<1>7. CASE UNCHANGED vars
  BY <1>7, PlannerStill DEF vars
<1> QED
  BY <1>1, <1>2, <1>3, <1>4, <1>5, <1>6, <1>7

\* Plan takes the front item of the buffer, drops it or keeps it.
LEMMA PlanKeeps ==
  ASSUME PInv, PlanCatchup \/ PlanCatchupBlind \/ PlanBusy
  PROVE  PInv'
<1>0. /\ dag \in DAGs /\ dag.start \subseteq Time /\ suspendedAt \in Int
      /\ wm \in State /\ buffer \in Seq(dag.start) /\ Len(buffer) <= MaxMissed
      /\ MaxMissed \in Nat
      /\ Clean => Above(buffer, suspendedAt)
  BY StartTimes, TickPlannerAssumption
     DEF PInv, TimeInv, StateInv, BufferInv, ResumeInv, Time
<1>1. /\ UNCHANGED <<clock, phase, dag, saves, disk, tickTime, upset, suspendedAt>>
      /\ Alive /\ buffer # <<>> /\ cron' # "select"
  BY DEF PlanCatchup, PlanCatchupBlind, PlanBusy, Planning, TickDue, input, history
<1>2. PICK c : c = Collapse(wm, buffer)
  OBVIOUS
<1>3. /\ c.wm \in State /\ c.wm.lastTick = wm.lastTick
      /\ c.buffer \in Seq(dag.start) /\ Len(c.buffer) <= MaxMissed /\ c.buffer # <<>>
      /\ Clean => Above(c.buffer, suspendedAt)
  <2>1. /\ c.wm \in State /\ c.wm.lastTick = wm.lastTick
        /\ c.buffer \in Seq(dag.start) /\ Len(c.buffer) <= Len(buffer) /\ c.buffer # <<>>
        /\ Clean => Above(c.buffer, suspendedAt)
    BY <1>0, <1>1, <1>2, CollapseFacts
  <2>2. Len(c.buffer) \in Nat /\ Len(buffer) \in Nat
    BY <1>0, <2>1
  <2> QED
    BY <1>0, <2>1, <2>2
<1>4. ASSUME NEW b \in Seq(dag.start), b # <<>>, Len(b) <= MaxMissed,
             Clean => Above(b, suspendedAt)
      PROVE  /\ Head(b) \in dag.start /\ Tail(b) \in Seq(dag.start)
             /\ Len(Tail(b)) <= MaxMissed
             /\ Clean => Head(b) > suspendedAt /\ Above(Tail(b), suspendedAt)
  <2>1. /\ Head(b) \in dag.start /\ Tail(b) \in Seq(dag.start) /\ Len(Tail(b)) <= Len(b)
        /\ Clean => Head(b) > suspendedAt /\ Above(Tail(b), suspendedAt)
    BY <1>0, <1>4, BufferFacts
  <2>2. Len(Tail(b)) \in Nat /\ Len(b) \in Nat
    BY <1>4, <2>1
  <2> QED
    BY <1>0, <1>4, <2>1, <2>2
<1>5. CASE PlanCatchup \/ PlanCatchupBlind
  <2>1. PICK h : h = Head(c.buffer)
    OBVIOUS
  <2>2. /\ wm' = c.wm /\ dirty' = (dirty \/ c.wm # wm) /\ buffer' = Tail(c.buffer)
        /\ plan' = {Planned("catchup", h)}
    BY <1>2, <1>5, <2>1 DEF PlanCatchup, PlanCatchupBlind, Planning, SetWatermark
  <2>3. /\ h \in dag.start /\ buffer' \in Seq(dag.start) /\ Len(buffer') <= MaxMissed
        /\ Clean => h > suspendedAt /\ Above(buffer', suspendedAt)
    BY <1>3, <1>4, <2>1, <2>2
  <2>4. \A r \in plan' : r.slot = h
    BY <2>2 DEF Planned
  <2> QED
    BY <1>1, <1>3, <2>2, <2>3, <2>4, PlannerStep
<1>6. CASE PlanBusy /\ dag.policy = "skip"
  <2>1. PICK h : h = Head(buffer)
    OBVIOUS
  <2>2. PICK w : w = [wm EXCEPT !.last = h]
    OBVIOUS
  <2>3. /\ wm' = w /\ dirty' = (dirty \/ w # wm) /\ buffer' = Tail(buffer) /\ plan' = {}
    BY <1>6, <2>1, <2>2 DEF PlanBusy, Planning, SetWatermark, AdvanceDAGWatermark
  <2>4. /\ h \in dag.start /\ buffer' \in Seq(dag.start) /\ Len(buffer') <= MaxMissed
        /\ Clean => Above(buffer', suspendedAt)
    BY <1>0, <1>1, <1>4, <2>1, <2>3
  <2>5. w \in State /\ w.lastTick = wm.lastTick
    BY <1>0, <2>2, <2>4 DEF State
  <2> QED
    BY <1>1, <2>3, <2>4, <2>5, PlannerStep
<1>7. CASE PlanBusy /\ dag.policy # "skip"
  <2>1. wm' = c.wm /\ dirty' = (dirty \/ c.wm # wm) /\ buffer' = c.buffer /\ plan' = {}
    BY <1>2, <1>7 DEF PlanBusy, Planning, SetWatermark
  <2> QED
    BY <1>1, <1>3, <2>1, PlannerStep
<1> QED
  BY <1>5, <1>6, <1>7

\* EnqueueCatchupRun advances the watermark to the slot it was given, or puts
\* the slot back.
LEMMA SlotKeeps ==
  ASSUME PInv, PlanInv, DispatchCatchup \/ Enqueue \/ EnqueueExists \/ EnqueueFails
  PROVE  PInv'
<1>0. /\ dag \in DAGs /\ dag.start \subseteq Time /\ suspendedAt \in Int
      /\ wm \in State /\ buffer \in Seq(dag.start) /\ Len(buffer) <= MaxMissed
      /\ Clean => Above(buffer, suspendedAt)
      /\ \A r \in plan : r.kind = "catchup"
                           => r.slot \in dag.start /\ (Clean => r.slot > suspendedAt)
  BY StartTimes DEF PInv, TimeInv, StateInv, BufferInv, ResumeInv, Time
<1>1. /\ UNCHANGED <<clock, phase, dag, saves, disk, tickTime, plan, upset, suspendedAt>>
      /\ cron # "select" /\ cron' # "select"
      /\ InEnqueue \/ InPlan("catchup") # {}
  BY DEF DispatchCatchup, Enqueue, EnqueueExists, EnqueueFails, InEnqueue, input, history
<1>2. Alive
  BY <1>1 DEF PInv, DownInv
<1>3. PlansCatchup(plan)
  BY <1>1 DEF PlanInv, InPlan
<1>4. PICK c : c = CatchupSlot
  OBVIOUS
<1>5. c \in dag.start /\ (Clean => c > suspendedAt)
  <2>1. Planned("catchup", c) \in plan
    BY <1>3, <1>4, SlotOfPlan
  <2>2. Planned("catchup", c).kind = "catchup" /\ Planned("catchup", c).slot = c
    BY DEF Planned
  <2> QED
    BY <1>0, <2>1, <2>2
<1>6. PICK w : w = [wm EXCEPT !.last = c]
  OBVIOUS
<1>7. w \in State /\ w.lastTick = wm.lastTick
  BY <1>0, <1>5, <1>6 DEF State
<1>8. CASE wm' = w /\ dirty' = (dirty \/ w # wm) /\ buffer' = buffer
  BY <1>0, <1>1, <1>2, <1>7, <1>8, PlannerStep
<1>9. CASE wm' = wm /\ dirty' = dirty /\ buffer' = buffer
  BY <1>1, <1>2, <1>9, PlannerStill
<1>10. CASE wm' = wm /\ dirty' = dirty /\ buffer' = Reinsert(buffer, c)
  <2>1. /\ buffer' \in Seq(dag.start) /\ Len(buffer') <= MaxMissed
        /\ Clean => Above(buffer', suspendedAt)
    BY <1>0, <1>5, <1>10, BufferFacts
  <2>2. dirty' = (dirty \/ wm # wm)
    BY <1>10 DEF PInv, StateInv
  <2> QED
    BY <1>0, <1>1, <1>2, <1>10, <2>1, <2>2, PlannerStep
<1> QED
  BY <1>4, <1>6, <1>8, <1>9, <1>10
     DEF DispatchCatchup, Enqueue, EnqueueExists, EnqueueFails, SetWatermark, AdvanceDAGWatermark

\* Flushing moves the state from memory to a save and to the disk.
LEMMA FlushKeeps ==
  ASSUME PInv, FlushTimer \/ SaveStep \/ (\E f \in saves : SaveFails(f)) \/ StopFlushes
  PROVE  PInv'
<1>0. /\ UNCHANGED <<clock, dag, wm, buffer, tickTime, cron, plan, suspendedAt>>
      /\ upset \subseteq upset' /\ Alive /\ Alive'
      /\ phase' \in {"down", "up", "stopping", "stopped"}
  <2>1. \A f : f \in saves => Alive
    BY DEF PInv, DownInv
  <2> QED
    BY <2>1 DEF FlushTimer, SaveStep, Save, SaveFails, StopFlushes, Alive, PInv, TimeInv,
                input, history
<1>1. Clean' => Clean
  BY <1>0 DEF Clean
<1>2. TimeInv' /\ BufferInv' /\ DownInv'
  BY <1>0 DEF PInv, TimeInv, BufferInv, DownInv
<1>3. ASSUME StateInv', Clean' => Saved' PROVE PInv'
  <2>1. ResumeInv'
    BY <1>0, <1>1, <1>3 DEF PInv, ResumeInv, Above
  <2> QED
    BY <1>2, <1>3, <2>1 DEF PInv
<1>4. CASE FlushTimer \/ StopFlushes
  <2>1. PICK who : /\ dirty' = FALSE /\ disk' = disk
                   /\ saves' = IF dirty THEN saves \cup {[by |-> who, state |-> wm]} ELSE saves
    BY <1>4 DEF FlushTimer, StopFlushes, FlushBegins
  <2>2. StateInv'
    <3>1. \A f \in saves' : f \in saves \/ f.state = wm
      BY <2>1
    <3> QED
      BY <1>0, <2>1, <3>1 DEF PInv, StateInv
  <2>3. Saved => Saved'
    <3>1. [by |-> who, state |-> wm].state = wm
      OBVIOUS
    <3> QED
      BY <1>0, <2>1, <3>1 DEF Saved
  <2> QED
    BY <1>0, <1>1, <1>3, <2>2, <2>3 DEF PInv, ResumeInv
<1>5. CASE SaveStep
  <2>1. PICK f \in saves : /\ saves' = saves \ {f} /\ disk' = f.state /\ dirty' = dirty
                           /\ (\E h \in saves : h.state # f.state) => "save" \in upset'
    BY <1>5 DEF SaveStep, Save
  <2>2. StateInv'
    BY <1>0, <2>1 DEF PInv, StateInv
  <2>3. ASSUME Clean' PROVE Saved'
    <3>1. \A h \in saves : h.state = f.state
      BY <2>1, <2>3 DEF Clean
    <3>2. Saved
      BY <1>0, <1>1, <2>3 DEF PInv, ResumeInv
    <3>3. dirty \/ f.state = wm
      BY <2>1, <3>1, <3>2 DEF Saved
    <3>4. CASE saves' = {}
      BY <1>0, <2>1, <3>3, <3>4 DEF Saved
    <3>5. CASE saves' # {}
      <4>1. PICK h \in saves' : TRUE
        BY <3>5
      <4>2. h.state = f.state
        BY <2>1, <3>1, <4>1
      <4> QED
        BY <1>0, <2>1, <3>3, <4>1, <4>2 DEF Saved
    <3> QED
      BY <3>4, <3>5
  <2> QED
    BY <1>3, <2>2, <2>3
<1>6. CASE \E f \in saves : SaveFails(f)
  <2>1. PICK f \in saves : saves' = saves \ {f} /\ disk' = disk /\ dirty' = TRUE
    BY <1>6 DEF SaveFails
  <2>2. StateInv' /\ Saved'
    BY <1>0, <2>1 DEF PInv, StateInv, Saved
  <2> QED
    BY <1>3, <2>2
<1> QED
  BY <1>4, <1>5, <1>6

\* A one-off that was started is marked and flushed.
LEMMA MarkKeeps ==
  ASSUME PInv, NEW g \in gos, GoMarks(g)
  PROVE  PInv'
<1>0. /\ UNCHANGED <<clock, phase, dag, disk, buffer, tickTime, cron, plan, upset, suspendedAt>>
      /\ wm' = [wm EXCEPT !.oneOff = "consumed"]
  BY DEF GoMarks, input, history
<1>1. wm \in State /\ Alive
  BY DEF PInv, StateInv, DownInv
<1>2. wm' \in State /\ wm'.lastTick = wm.lastTick
  BY <1>0, <1>1 DEF State
<1>3. CASE wm.oneOff = "consumed"
  <2>1. wm' = wm
    BY <1>0, <1>1, <1>3 DEF State
  <2>2. saves' = saves /\ dirty' = dirty
    BY <1>3 DEF GoMarks, FlushBegins, PInv, StateInv
  <2> QED
    BY <1>0, <1>1, <2>1, <2>2, PlannerStill
<1>4. CASE wm.oneOff # "consumed"
  <2>0. PICK f : f = [by |-> "dispatch", state |-> wm']
    OBVIOUS
  <2>1. saves' = saves \cup {f} /\ dirty' = FALSE /\ f.state = wm'
    BY <1>4, <2>0 DEF GoMarks, FlushBegins
  <2>2. TimeInv' /\ BufferInv' /\ DownInv'
    BY <1>0, <1>1 DEF PInv, TimeInv, BufferInv, DownInv, Alive
  <2>3. StateInv'
    BY <1>0, <1>2, <2>1 DEF PInv, StateInv
  <2>4. Saved'
    BY <2>1 DEF Saved
  <2>5. ResumeInv'
    BY <1>0, <1>1, <1>2, <2>4 DEF PInv, ResumeInv, Above, Alive, Clean
  <2> QED
    BY <2>2, <2>3, <2>5 DEF PInv
<1> QED
  BY <1>3, <1>4

\* A watermark without the DAG's entry.
LEMMA Undated ==
  ASSUME NEW w \in State
  PROVE  /\ [w EXCEPT !.last = 0, !.oneOff = "none"] \in State
         /\ [w EXCEPT !.last = 0, !.oneOff = "none"].lastTick = w.lastTick
<1>1. 0 \in Time
  BY TickPlannerAssumption DEF Time
<1>2. PICK v : v = [w EXCEPT !.last = 0]
  OBVIOUS
<1>3. v \in State /\ v.lastTick = w.lastTick
  BY <1>1, <1>2 DEF State
<1>4. [w EXCEPT !.last = 0, !.oneOff = "none"] = [v EXCEPT !.oneOff = "none"]
  BY <1>2
<1>5. [v EXCEPT !.oneOff = "none"] \in State /\ [v EXCEPT !.oneOff = "none"].lastTick = v.lastTick
  BY <1>3 DEF State
<1> QED
  BY <1>3, <1>4, <1>5

\* What is later than a tick is later than those before it.
LEMMA AboveLater ==
  ASSUME dag \in DAGs, NEW b \in Seq(dag.start), NEW t \in Time, NEW u \in Int,
         Above(b, t), t >= u
  PROVE  Above(b, u)
<1>1. t \in Int /\ \A s \in dag.start : s \in Int
  BY StartTimes
<1>2. \A i \in 1 .. Len(b) : b[i] \in dag.start
  OBVIOUS
<1> QED
  BY <1>1, <1>2 DEF Above

\* Events: an added DAG starts with a new watermark, an updated one is
\* recomputed from the last tick, a deleted one loses its buffer.
LEMMA EventKeeps ==
  ASSUME PInv, DAGAdded \/ DAGUpdated \/ DAGDeleted
  PROVE  PInv'
<1>0. /\ dag \in DAGs /\ dag.start \subseteq Time /\ Time \subseteq Nat /\ suspendedAt \in Int
      /\ wm \in State /\ clock \in Time /\ dirty \in BOOLEAN
      /\ buffer \in Seq(dag.start) /\ Len(buffer) <= MaxMissed /\ MaxMissed \in Nat
      /\ MaxTime \in Nat
  BY StartTimes, TickPlannerAssumption DEF PInv, TimeInv, StateInv, BufferInv, Time
<1>1. PICK w, b, e, fl : Event(w, b, e, fl)
  BY DEF DAGAdded, DAGUpdated, DAGDeleted
<1>2. /\ UNCHANGED <<clock, phase, dag, disk, tickTime, cron, plan, suspendedAt>>
      /\ phase = "up" /\ Alive /\ Alive'
  BY <1>1 DEF Event, Alive
<1>3. \A v \in State : ReconcileOneOff(v) \in State /\ ReconcileOneOff(v).lastTick = v.lastTick
  BY DEF ReconcileOneOff, State
<1>4. upset \subseteq upset'
  BY DEF DAGAdded, DAGUpdated, DAGDeleted
<1>5. Clean' => Clean
  BY <1>4 DEF Clean
<1>6. wm' \in State /\ wm'.lastTick = wm.lastTick
  <2>1. CASE DAGAdded
    <3>1. PICK v : v = AdvanceDAGWatermark(wm, clock)
      OBVIOUS
    <3>2. v \in State /\ v.lastTick = wm.lastTick
      BY <1>0, <3>1 DEF AdvanceDAGWatermark, State
    <3>3. wm' = ReconcileOneOff(v)
      BY <2>1, <3>1 DEF DAGAdded, Event
    <3> QED
      BY <1>3, <3>2, <3>3
  <2>2. CASE DAGUpdated
    <3>1. PICK c : c = Recompute(wm)
      OBVIOUS
    <3>2. c.wm \in State /\ c.wm.lastTick = wm.lastTick
      BY <1>0, <3>1, RecomputeFacts
    <3>3. wm' = ReconcileOneOff(c.wm)
      BY <2>2, <3>1 DEF DAGUpdated, Event
    <3> QED
      BY <1>3, <3>2, <3>3
  <2>3. CASE DAGDeleted
    <3>1. wm' = [wm EXCEPT !.last = 0, !.oneOff = "none"]
      BY <2>3 DEF DAGDeleted, Event
    <3> QED
      BY <1>0, <3>1, Undated
  <2> QED
    BY <2>1, <2>2, <2>3
<1>7. /\ buffer' \in Seq(dag.start) /\ Len(buffer') <= MaxMissed
      /\ Clean' => Above(buffer', suspendedAt)
  <2>1. CASE DAGAdded
    <3>1. buffer' = buffer
      BY <2>1 DEF DAGAdded, Event
    <3> QED
      BY <1>0, <1>5, <3>1 DEF PInv, ResumeInv
  <2>2. CASE DAGUpdated
    <3>1. PICK c : c = Recompute(wm)
      OBVIOUS
    <3>2. /\ c.buffer \in Seq(dag.start) /\ Len(c.buffer) <= MaxMissed
          /\ Above(c.buffer, wm.lastTick)
      BY <1>0, <3>1, RecomputeFacts
    <3>3. buffer' = c.buffer /\ (cron # "select" => "tick" \in upset')
      BY <2>2, <3>1 DEF DAGUpdated, Event
    <3>4. ASSUME Clean' PROVE Above(c.buffer, suspendedAt)
      <4>1. cron = "select" /\ Clean
        BY <1>5, <3>3, <3>4 DEF Clean
      <4>2. wm.lastTick >= suspendedAt
        BY <1>2, <4>1 DEF PInv, ResumeInv
      <4> QED
        BY <1>0, <3>2, <4>2, AboveLater DEF State
    <3> QED
      BY <3>2, <3>3, <3>4
  <2>3. CASE DAGDeleted
    <3>1. buffer' = <<>>
      BY <2>3 DEF DAGDeleted, Event
    <3> QED
      BY <1>0, <3>1 DEF Above
  <2> QED
    BY <2>1, <2>2, <2>3
<1>8. /\ dirty' \in BOOLEAN
      /\ \A f \in saves' : f \in saves \/ f.state = wm'
      /\ Saved => Saved'
  <2>1. PICK f : f = [by |-> "event", state |-> w]
    OBVIOUS
  <2>2. f.state = w
    BY <2>1
  <2>3. /\ wm' = w /\ dirty' = ((dirty \/ w # wm) /\ ~fl) /\ disk' = disk
        /\ saves' = IF fl /\ (dirty \/ w # wm) THEN saves \cup {f} ELSE saves
    BY <1>1, <2>1 DEF Event, FlushBegins
  <2>4. CASE fl /\ (dirty \/ w # wm)
    BY <2>2, <2>3, <2>4 DEF Saved
  <2>5. CASE ~fl /\ (dirty \/ w # wm)
    BY <2>3, <2>5 DEF Saved
  <2>6. CASE ~(dirty \/ w # wm)
    BY <2>3, <2>6 DEF Saved
  <2> QED
    BY <2>4, <2>5, <2>6
<1>9. TimeInv' /\ DownInv'
  BY <1>2 DEF PInv, TimeInv, DownInv
<1>10. StateInv'
  BY <1>2, <1>6, <1>8 DEF PInv, StateInv
<1>11. BufferInv'
  BY <1>2, <1>7 DEF PInv, BufferInv
<1>12. ResumeInv'
  BY <1>2, <1>5, <1>6, <1>7, <1>8 DEF PInv, ResumeInv, Above
<1> QED
  BY <1>9, <1>10, <1>11, <1>12 DEF PInv

\* The life of the scheduler: the next one starts from what was saved.
LEMMA LifeKeeps ==
  ASSUME PInv, Start \/ StopBegins \/ Exit \/ Crash
  PROVE  PInv'
<1>0. /\ dag \in DAGs /\ dag.start \subseteq Time /\ Time \subseteq Nat /\ suspendedAt \in Int
      /\ disk \in State /\ clock \in Time /\ MaxMissed \in Nat /\ MaxTime \in Nat
  BY StartTimes, TickPlannerAssumption DEF PInv, TimeInv, StateInv, BufferInv, Time
<1>1. CASE Start
  <2>1. PICK l : l = IF entry THEN ReconcileOneOff(disk)
                     ELSE [disk EXCEPT !.last = 0, !.oneOff = "none"]
    OBVIOUS
  <2>2. PICK c : c = IF entry THEN Recompute(l) ELSE [wm |-> l, buffer |-> <<>>]
    OBVIOUS
  <2>3. /\ wm' = c.wm /\ buffer' = c.buffer /\ dirty' = (l = disk /\ c.wm # l)
        /\ disk' = IF l # disk THEN c.wm ELSE disk
        /\ phase = "down" /\ phase' = "up" /\ tickTime' = clock
        /\ UNCHANGED <<clock, dag, saves, cron, plan, gos, upset, suspendedAt>>
    BY <1>1, <2>1, <2>2 DEF Start, input, history
  <2>4. l \in State /\ l.lastTick = disk.lastTick
    <3>1. ReconcileOneOff(disk) \in State /\ ReconcileOneOff(disk).lastTick = disk.lastTick
      BY <1>0 DEF ReconcileOneOff, State
    <3>2. /\ [disk EXCEPT !.last = 0, !.oneOff = "none"] \in State
          /\ [disk EXCEPT !.last = 0, !.oneOff = "none"].lastTick = disk.lastTick
      BY <1>0, Undated
    <3> QED
      BY <2>1, <3>1, <3>2
  <2>5. /\ c.wm \in State /\ c.wm.lastTick = disk.lastTick
        /\ c.buffer \in Seq(dag.start) /\ Len(c.buffer) <= MaxMissed
        /\ Above(c.buffer, disk.lastTick)
    <3>1. CASE entry
      BY <1>0, <2>2, <2>4, <3>1, RecomputeFacts
    <3>2. CASE ~entry
      <4>1. c.wm = l /\ c.buffer = <<>>
        BY <2>2, <3>2
      <4> QED
        BY <1>0, <2>4, <4>1 DEF Above
    <3> QED
      BY <3>1, <3>2
  <2>6. saves = {} /\ cron = "select" /\ plan = {}
    BY <2>3 DEF PInv, DownInv, Alive
  <2>7. TimeInv'
    BY <2>3 DEF PInv, TimeInv, Alive
  <2>8. StateInv'
    BY <1>0, <2>3, <2>5, <2>6 DEF StateInv
  <2>9. BufferInv' /\ DownInv'
    BY <2>3, <2>5, <2>6 DEF BufferInv, DownInv, Alive
  <2>10. Saved'
    BY <2>3, <2>6 DEF Saved
  <2>11. ASSUME Clean
         PROVE  disk.lastTick >= suspendedAt /\ Above(c.buffer, suspendedAt)
    <3>1. disk.lastTick >= suspendedAt
      BY <2>3, <2>11 DEF PInv, ResumeInv, Alive
    <3> QED
      BY <1>0, <2>5, <3>1, AboveLater DEF State
  <2>12. ResumeInv'
    <3>1. Clean' => Clean
      BY <2>3 DEF Clean
    <3> QED
      BY <2>3, <2>5, <2>6, <2>10, <2>11, <3>1 DEF ResumeInv, Above, Alive
  <2> QED
    BY <2>7, <2>8, <2>9, <2>12 DEF PInv
<1>2. CASE StopBegins
  <2>1. /\ UNCHANGED <<clock, dag, wm, dirty, saves, disk, buffer, tickTime, cron, plan, gos,
                       upset, suspendedAt>>
        /\ Alive /\ Alive' /\ phase' = "stopping"
    BY <1>2 DEF StopBegins, Alive, input, history
  <2> QED
    BY <2>1 DEF PInv, TimeInv, StateInv, BufferInv, DownInv, ResumeInv, Saved, Above, Clean
<1>3. CASE Exit \/ Crash
  <2>1. /\ phase' = "down" /\ wm' = NoState /\ dirty' = FALSE /\ saves' = {}
        /\ buffer' = <<>> /\ tickTime' = 0 /\ cron' = "select" /\ plan' = {} /\ gos' = {}
        /\ UNCHANGED <<clock, dag, disk, suspendedAt>>
        /\ Alive /\ ~Alive' /\ upset \subseteq upset'
    BY <1>3 DEF Exit, Crash, Forget, Alive, input
  <2>2. TimeInv'
    BY <1>0, <2>1 DEF PInv, TimeInv, Time
  <2>3. StateInv'
    <3>1. NoState \in State
      BY <1>0 DEF NoState, State, Time
    <3> QED
      BY <1>0, <2>1, <3>1 DEF StateInv
  <2>4. BufferInv' /\ DownInv'
    BY <1>0, <2>1 DEF BufferInv, DownInv
  <2>5. ASSUME Clean' PROVE disk.lastTick >= suspendedAt
    <3>1. Exit /\ ~dirty /\ saves = {} /\ cron = "select"
      BY <1>3, <2>5 DEF Exit, Crash, Clean
    <3>2. Clean
      BY <2>1, <2>5 DEF Clean
    <3>3. disk = wm /\ wm.lastTick >= suspendedAt
      BY <2>1, <3>1, <3>2 DEF PInv, ResumeInv, Saved
    <3> QED
      BY <3>3
  <2>6. ResumeInv'
    BY <2>1, <2>5 DEF ResumeInv, Above
  <2> QED
    BY <2>2, <2>3, <2>4, <2>6 DEF PInv
<1> QED
  BY <1>1, <1>2, <1>3

\* The clock, the tick that finds the DAG suspended, and the end of a tick.
LEMMA TickKeeps ==
  ASSUME PInv, TimePasses \/ PlanSuspended \/ Advance
  PROVE  PInv'
<1>0. /\ clock \in Nat /\ tickTime \in Time /\ suspendedAt \in Nat /\ MaxTime \in Nat
      /\ wm \in State /\ dirty \in BOOLEAN /\ MaxMissed \in Nat /\ Time \subseteq Nat
  BY StartTimes, TickPlannerAssumption DEF PInv, TimeInv, StateInv, Time
<1>1. CASE TimePasses
  <2>1. /\ UNCHANGED <<phase, dag, wm, dirty, saves, disk, buffer, tickTime, cron, plan, gos,
                       upset, suspendedAt>>
        /\ clock' = clock + 1 /\ clock < MaxTime
    BY <1>1 DEF TimePasses, history
  <2>2. TimeInv'
    BY <1>0, <2>1 DEF PInv, TimeInv, Time, Alive
  <2>3. ResumeInv'
    BY <2>1 DEF PInv, ResumeInv, Saved, Above, Clean, Alive
  <2> QED
    BY <2>1, <2>2, <2>3 DEF PInv, StateInv, BufferInv, DownInv, Alive
<1>2. CASE PlanSuspended
  <2>1. PICK w : w = IF buffer # <<>> \/ dag.window > 0 THEN AdvanceDAGWatermark(wm, tickTime)
                     ELSE wm
    OBVIOUS
  <2>2. /\ UNCHANGED <<clock, phase, dag, saves, disk, tickTime, gos, upset>>
        /\ wm' = w /\ dirty' = (dirty \/ w # wm) /\ buffer' = <<>> /\ plan' = {}
        /\ cron' = "dispatch" /\ suspendedAt' = tickTime /\ tickTime <= clock /\ Alive
    BY <1>2, <2>1 DEF PlanSuspended, Planning, SetWatermark, TickDue, input
  <2>3. w \in State
    BY <1>0, <2>1 DEF AdvanceDAGWatermark, State
  <2>4. TimeInv'
    BY <1>0, <2>2 DEF PInv, TimeInv, Alive
  <2>5. StateInv' /\ BufferInv' /\ DownInv'
    BY <1>0, <2>2, <2>3 DEF PInv, StateInv, BufferInv, DownInv, Alive
  <2>6. Saved => Saved'
    BY <1>0, <2>2 DEF Saved
  <2>7. ResumeInv'
    BY <2>2, <2>6 DEF PInv, ResumeInv, Above, Alive, Clean
  <2> QED
    BY <2>4, <2>5, <2>7 DEF PInv
<1>3. CASE Advance
  <2>1. PICK l \in BOOLEAN : l <=> InPlan("live") # {}
    OBVIOUS
  <2>2. /\ UNCHANGED <<clock, phase, dag, saves, disk, buffer, gos, upset, suspendedAt>>
        /\ wm' = [wm EXCEPT !.lastTick = tickTime, !.last = IF l THEN tickTime ELSE @]
        /\ dirty' = TRUE /\ plan' = {} /\ cron' = "select" /\ Alive
        /\ tickTime' = IF tickTime < MaxTime THEN tickTime + 1 ELSE tickTime
    BY <1>3, <2>1 DEF Advance, input, history
  <2>3. wm' \in State /\ wm'.lastTick = tickTime
    BY <1>0, <2>2 DEF State
  <2>4. TimeInv'
    BY <1>0, <2>2 DEF PInv, TimeInv, Time, Alive
  <2>5. StateInv' /\ BufferInv' /\ DownInv'
    BY <1>0, <2>2, <2>3 DEF PInv, StateInv, BufferInv, DownInv, Alive
  <2>6. ResumeInv'
    BY <1>0, <2>2, <2>3 DEF PInv, TimeInv, ResumeInv, Saved, Above, Alive, Clean
  <2> QED
    BY <2>4, <2>5, <2>6 DEF PInv
<1> QED
  BY <1>1, <1>2, <1>3

\* Every step preserves the invariant.
LEMMA NextPInv == PInv /\ IInv /\ [Next]_vars => PInv'
<1> SUFFICES ASSUME PInv, PlanInv, [Next]_vars PROVE PInv'
  BY DEF IInv
<1> QED
  BY StillKeeps, PlanKeeps, SlotKeeps, FlushKeeps, MarkKeeps, EventKeeps, LifeKeeps, TickKeeps
     DEF Next, CronStep, EnqueueStep, GoStep

\* Catch-up attempts are created for the planned slot only.
LEMMA CreatedIsPlanned ==
  ASSUME IInv, PInv, [Next]_vars, NEW s \in dag.start, rec[s] = "none", rec'[s] = "created"
  PROVE  Planned("catchup", s) \in plan
<1>0. RecInv /\ PlanInv /\ s \in RunId
  BY StartSlots DEF IInv
<1>1. CASE CreateAttempt
  <2>1. rec' = [rec EXCEPT ![CatchupSlot] = "created"] /\ InEnqueue
    BY <1>1 DEF CreateAttempt, InEnqueue
  <2>2. s = CatchupSlot
    BY <1>0, <2>1 DEF RecInv
  <2> QED
    BY <1>0, <2>1, <2>2, EnqueueingSlot
<1>2. CASE rec' = rec
  BY <1>2
<1>3. CASE \E x : x # "created" /\ \E c : rec' = [rec EXCEPT ![c] = x]
  BY <1>0, <1>3 DEF RecInv
<1>4. CASE \E g \in gos : GoStops(g)
  <2>1. rec' = [r \in RunId |-> IF rec[r] = "running" THEN "ended" ELSE rec[r]]
    BY <1>4 DEF GoStops
  <2> QED
    BY <1>0, <2>1
<1>5. CASE WriteQueued \/ EnqueueFails
  BY <1>3, <1>5 DEF WriteQueued, EnqueueFails, Rollback
<1>6. CASE ProcessStep
  BY <1>2, <1>3, <1>6 DEF ProcessStep, ProcessStarts, QueueStarts, ProcessEnds
<1>7. CASE TimePasses \/ ToggleSuspended \/ FileChanges \/ Start \/ StopBegins \/ StopFlushes
             \/ Exit \/ Crash \/ FlushTimer \/ SaveStep \/ (\E f \in saves : SaveFails(f))
             \/ DAGAdded \/ DAGUpdated \/ DAGDeleted \/ UNCHANGED vars
  BY <1>2, <1>7 DEF TimePasses, ToggleSuspended, FileChanges, Start, StopBegins, StopFlushes,
       Exit, Crash, FlushTimer, SaveStep, Save, SaveFails, DAGAdded, DAGUpdated, DAGDeleted,
       Event, runtime, vars
<1>8. CASE PlanNothing \/ PlanSuspended \/ PlanCatchup \/ PlanBusy \/ PlanNoCatchup \/ PlanLive
             \/ PlanDeferred \/ PlanCatchupBlind \/ PlanLiveFails
             \/ DispatchRuns \/ DispatchCatchup \/ Enqueue \/ EnqueueExists \/ Advance
  BY <1>2, <1>8 DEF PlanNothing, PlanSuspended, PlanCatchup, PlanBusy, PlanNoCatchup, PlanLive,
       PlanDeferred, PlanCatchupBlind, PlanLiveFails, Planning, DispatchRuns, DispatchCatchup,
       Enqueue, EnqueueExists, Advance, runtime
<1>9. CASE \E g \in gos : GoEnds(g) \/ GoExists(g) \/ GoSpawns(g) \/ GoMarks(g) \/ GoFails(g)
  BY <1>2, <1>9 DEF GoEnds, GoExists, GoSpawns, GoMarks, GoFails, runtime
<1> QED
  BY <1>1, <1>4, <1>5, <1>6, <1>7, <1>8, <1>9 DEF Next, CronStep, EnqueueStep, GoStep

\* For every DAG, cap and number of faults: what was missed up to a tick that
\* found the DAG suspended is not replayed after it is resumed, neither from the
\* buffer, nor by an update that recomputes it, nor by the next scheduler from
\* the watermark on disk; unless that watermark was lost in a crash or
\* overwritten by an older one (dropSuspendedCatchupState, recomputeBuffer, Flush).
THEOREM SuspensionIsFinal == Spec => ResumeDoesNotReplay
<1>1. IInv /\ PInv /\ [Next]_vars =>
        [\A s \in dag.start : rec[s] = "none" /\ rec'[s] = "created"
           => s > suspendedAt \/ upset \cap {"tick", "save"} # {}]_vars
  <2>1. SUFFICES ASSUME IInv, PInv, [Next]_vars, NEW s \in dag.start,
                        rec[s] = "none", rec'[s] = "created", Clean
                 PROVE  s > suspendedAt
    BY DEF Clean
  <2>2. Planned("catchup", s) \in plan
    BY <2>1, CreatedIsPlanned
  <2>3. Planned("catchup", s).kind = "catchup" /\ Planned("catchup", s).slot = s
    BY DEF Planned
  <2> QED
    BY <2>1, <2>2, <2>3 DEF PInv, ResumeInv
<1> QED
  BY <1>1, InitIInv, NextIInv, InitPInv, NextPInv, PTL DEF Spec, ResumeDoesNotReplay
=============================================================================
