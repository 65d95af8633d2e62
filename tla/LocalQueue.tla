----------------------------- MODULE LocalQueue -----------------------------
(***************************************************************************)
(* One queue whose runs execute locally: the scheduler's queue processor,  *)
(* retry scanner and zombie detector, the processes they start, and the    *)
(* retry and dequeue commands of users.  They share four stores on disk:   *)
(* the queue's items, the run history (attempts and their statuses), the   *)
(* heartbeat files of the processes and the lock of the process group.     *)
(* Every other thing an actor knows is local to it and may be stale.       *)
(*                                                                         *)
(* All runs were triggered by the scheduler or retried, so that            *)
(* isSchedulerManagedTriggerType holds of them.                            *)
(***************************************************************************)
EXTENDS Integers, Sequences, SequencesExt, FiniteSets, FiniteSetsExt

CONSTANTS
  Runs,            \* runs 1..Runs
  Procs,           \* bound: local processes that exist at a time
  MaxConcurrency,  \* the queue's limit
  Budgets          \* bounds: the automatic retries of each run that is queued at
                   \* the start, the number of faults and of users' commands

ASSUME LocalQueueAssumption ==
  /\ {Runs, Procs, MaxConcurrency} \subseteq Nat \ {0}
  /\ \A b \in Budgets : /\ b.retries \in Seq(Nat) /\ Len(b.retries) \in 1..Runs
                        /\ {b.faults, b.commands} \subseteq Nat

Run == 1..Runs
NoRun == 0
Dequeuer == 0   \* the dequeue command, as a holder of the lock
Proc == 1..Procs
Slot == 1..MaxConcurrency
Enqueuer == {"scanner", "user"}

\* "empty": the attempt's directory has no status file yet; "gone": the
\* attempt was hidden, or removed with its run.
Written == {"queued", "running", "done", "failed", "aborted"}
AttemptStatus == Written \cup {"empty", "gone"}

VARIABLES
  items,      \* the queue: a sequence of runs
  hist,       \* hist[r]: the statuses of r's attempts, oldest first
  left,       \* left[r]: how much AutoRetryCount is below r's limit
  proc,       \* proc[p]: process p and its heartbeat file
  lock,       \* the process group's lock
  go,         \* go[i]: a goroutine that processes one item
  z,          \* the zombie detector and the entry it looks at
  enq,        \* enq[a]: a call of EnqueueRetry
  cmd,        \* a dequeue command
  suspended,  \* the runs' DAG is suspended
  faults, commands,  \* how many are left
  \* History, read by the properties alone:
  excused,    \* the runs an event named in QueuedHasItem happened to
  tangled     \* the runs a process of which was held up or not alone

queueVars == <<items, go>>
procVars == <<proc, lock>>
budget == <<faults, commands, tangled>>
vars == <<items, hist, left, proc, lock, go, z, enq, cmd, suspended,
          faults, commands, excused, tangled>>

NoProc == [run |-> NoRun, pc |-> "free", att |-> 0, beat |-> "none",
           flag |-> "seen"]
NoGo == [run |-> NoRun, pc |-> "idle", att |-> 0, proc |-> {}]
NoEntry == [run |-> NoRun, pc |-> "idle", att |-> 0, proc |-> {}]
NoEnq == [run |-> NoRun, pc |-> "idle", att |-> 0, from |-> "failed"]
NoCmd == [run |-> NoRun, pc |-> "idle"]

TypeOK ==
  /\ items \in Seq(Run)
  /\ hist \in [Run -> Seq(AttemptStatus)]
  /\ left \in [Run -> Nat]
  /\ proc \in [Proc -> [run : Run \cup {NoRun}, att : Nat,
                        pc : {"free", "launched", "locked", "acquired",
                              "starting", "running", "ended", "dead"},
                        beat : {"none", "fresh", "stale"},
                        flag : {"seen", "unseen", "held"}]]
  /\ lock \in SUBSET (Proc \cup {Dequeuer}) /\ Cardinality(lock) <= 1
  /\ go \in [Slot -> [run : Run \cup {NoRun}, att : Nat,
                      pc : {"idle", "alive", "status", "drop", "wait", "dequeue"},
                      proc : SUBSET Proc]]
  /\ z \in [run : Run \cup {NoRun}, att : Nat, proc : SUBSET Proc,
            pc : {"idle", "find", "repair", "write", "remove"}]
  /\ enq \in [Enqueuer -> [run : Run \cup {NoRun}, att : Nat,
                           pc : {"idle", "read", "swapped", "undo"}, from : Written]]
  /\ cmd \in [run : Run \cup {NoRun}, pc : {"idle", "aborted"}]
  /\ suspended \in BOOLEAN /\ {faults, commands} \subseteq Nat
  /\ {excused, tangled} \subseteq SUBSET Run

Init ==
  /\ \E b \in Budgets :
       /\ items = [i \in DOMAIN b.retries |-> i]
       /\ hist = [r \in Run |-> IF r \in DOMAIN b.retries THEN <<"queued">> ELSE <<>>]
       /\ left = [r \in Run |-> IF r \in DOMAIN b.retries THEN b.retries[r] ELSE 0]
       /\ faults = b.faults /\ commands = b.commands
  /\ proc = [p \in Proc |-> NoProc] /\ lock = {}
  /\ go = [i \in Slot |-> NoGo] /\ z = NoEntry
  /\ enq = [a \in Enqueuer |-> NoEnq] /\ cmd = NoCmd
  /\ suspended = FALSE /\ excused = {} /\ tangled = {}

Hit(runs) == /\ faults > 0 /\ faults' = faults - 1 /\ tangled' = tangled \cup runs
             /\ UNCHANGED commands
Fault == Hit({})
Command == commands > 0 /\ commands' = commands - 1 /\ UNCHANGED <<faults, tangled>>

(***************************************************************************)
(* The stores.                                                             *)
(***************************************************************************)

\* FindAttempt answers the newest attempt that is visible and has a status.
\* "none" stands for ErrDAGRunIDNotFound: a run loses its last status together
\* with its directory (Aborted), so that ErrNoStatusData never lasts.
LatestOf(h, r) == Max({0} \cup {k \in DOMAIN h[r] : h[r][k] \in Written})
StatusOf(h, r) == IF LatestOf(h, r) = 0 THEN "none" ELSE h[r][LatestOf(h, r)]
Latest(r) == LatestOf(hist, r)
Status(r) == StatusOf(hist, r)

\* CompareAndSwapLatestAttemptStatus.
Swaps(r, att, from) == Latest(r) = att /\ Status(r) = from
Swap(r, att, from, to) ==
  hist' = IF Swaps(r, att, from) THEN [hist EXCEPT ![r][att] = to] ELSE hist

\* Fresh heartbeats.  Stop removes the file, a crash leaves it.
AliveByStatus(r) == Status(r) = "running"
IsRunAlive(r) == \E p \in Proc : proc[p].run = r /\ proc[p].beat = "fresh"
CountAlive == Cardinality({r \in Run : IsRunAlive(r)})

\* DequeueByDAGRunID removes every item of the run and keeps the order of the
\* others.
Without(r) ==
  LET rest == {k \in DOMAIN items : items[k] # r}
      nth(n) == CHOOSE k \in rest : Cardinality({j \in rest : j <= k}) = n
  IN  [n \in 1..Cardinality(rest) |-> items[nth(n)]]

Live(p) == proc[p].pc \notin {"free", "dead"}
Starting(p) == proc[p].pc \in {"launched", "locked"}
Executing(p) == proc[p].pc \in {"acquired", "starting", "running"}

\* A process that will overwrite the queued status of run r.
Serves(p, r, h) ==
  /\ proc[p].run = r
  /\ \/ Starting(p)
     \/ /\ Executing(p) /\ proc[p].att >= LatestOf(h, r)
        /\ ~(proc[p].pc = "running" /\ h[r][proc[p].att] = "gone")

\* An item of r is taken away although r is queued and nothing executes it.
ExcusedBy(r, h) ==
  IF StatusOf(h, r) = "queued" /\ ~\E p \in Proc : Serves(p, r, h)
  THEN excused \cup {r} ELSE excused

(***************************************************************************)
(* The queue processor.  A round lists the items, counts the free slots    *)
(* and waits for the goroutines it starts, one for each selected item.     *)
(***************************************************************************)

FreeSlotsUncounted == MaxConcurrency
FreeSlots == MaxConcurrency - CountAlive

StartRound ==
  /\ \A i \in Slot : go[i].pc = "idle"
  /\ items # <<>> /\ FreeSlots > 0
  /\ go' = [i \in Slot |->
              IF i <= FreeSlots /\ i <= Len(items)
              THEN [NoGo EXCEPT !.run = items[i], !.pc = "alive"] ELSE NoGo]
  /\ UNCHANGED <<items, hist, left, procVars, z, enq, cmd, suspended, budget,
                 excused>>

GoTo(i, pc) == go' = [go EXCEPT ![i].pc = pc]

\* Whoever stops watching a process that has not shown itself yet forgets it.
Forget(ps) == [p \in Proc |-> IF p \in ps /\ Starting(p)
                              THEN [proc[p] EXCEPT !.flag = "unseen"] ELSE proc[p]]

GoAlive(i) ==
  /\ go[i].pc = "alive"
  /\ GoTo(i, IF IsRunAlive(go[i].run) THEN "dequeue" ELSE "status")
  /\ UNCHANGED <<items, hist, left, procVars, z, enq, cmd, suspended, budget,
                 excused>>

\* The status decides: discard the item, drop it because the DAG is suspended,
\* or start a process.
GoStatus(i) ==
  LET r == go[i].run IN
  /\ go[i].pc = "status"
  /\ \/ /\ Status(r) # "queued"
        /\ GoTo(i, "dequeue") /\ UNCHANGED <<proc, budget>>
     \/ /\ Status(r) = "queued" /\ suspended
        /\ go' = [go EXCEPT ![i].pc = "drop", ![i].att = Latest(r)]
        /\ UNCHANGED <<proc, budget>>
     \/ /\ Status(r) = "queued" /\ ~suspended
        /\ \E p \in Proc :
             /\ proc[p] = NoProc /\ \A o \in 1..(p - 1) : proc[o] # NoProc
             /\ proc' = [proc EXCEPT ![p] = [NoProc EXCEPT !.run = r, !.pc = "launched"]]
             /\ go' = [go EXCEPT ![i].pc = "wait", ![i].proc = {p}]
        /\ UNCHANGED budget
     \/ /\ Status(r) = "queued" /\ ~suspended
        /\ Fault                          \* the process cannot be spawned
        /\ go' = [go EXCEPT ![i] = NoGo] /\ UNCHANGED proc
  /\ UNCHANGED <<items, hist, left, lock, z, enq, cmd, suspended, excused>>

\* dropSuspendedQueuedRun; the item goes whether or not the swap succeeds.
GoDrop(i) ==
  /\ go[i].pc = "drop"
  /\ Swap(go[i].run, go[i].att, "queued", "aborted")
  /\ GoTo(i, "dequeue")
  /\ UNCHANGED <<items, left, procVars, z, enq, cmd, suspended, budget, excused>>

\* waitForStartup polls for a heartbeat, or for a status other than queued.
Started(r) == IsRunAlive(r) \/ Status(r) \notin {"queued", "none"}
GoPoll(i) ==
  /\ go[i].pc = "wait" /\ Started(go[i].run)
  /\ proc' = Forget(go[i].proc)
  /\ go' = [go EXCEPT ![i].pc = "dequeue", ![i].proc = {}]
  /\ UNCHANGED <<items, hist, left, lock, z, enq, cmd, suspended, budget, excused>>

\* The polls are used up: the item stays.  Without a fault this happens only
\* to a run whose process has ended.
GiveUp(i) ==
  /\ proc' = Forget(go[i].proc)
  /\ go' = [go EXCEPT ![i] = NoGo]
GoPollsForever(i) ==
  /\ go[i].pc = "wait" /\ ~Started(go[i].run) /\ UNCHANGED vars
GoGiveUp(i) ==
  /\ go[i].pc = "wait" /\ ~Started(go[i].run)
  /\ IF \E p \in go[i].proc : proc[p].run = go[i].run /\ Starting(p)
     THEN Fault ELSE UNCHANGED budget
  /\ GiveUp(i)
  /\ UNCHANGED <<items, hist, left, lock, z, enq, cmd, suspended, excused>>

GoDequeue(i) ==
  /\ go[i].pc = "dequeue"
  /\ items' = Without(go[i].run)
  /\ excused' = ExcusedBy(go[i].run, hist)
  /\ go' = [go EXCEPT ![i] = NoGo]
  /\ UNCHANGED <<hist, left, procVars, z, enq, cmd, suspended, budget>>

\* The scheduler dies and is started again: its memory is lost, the processes
\* it has started go on.
Restart ==
  /\ Fault
  /\ go' = [i \in Slot |-> NoGo] /\ z' = NoEntry
  /\ enq' = [enq EXCEPT !["scanner"] = NoEnq]
  /\ proc' = Forget(UNION {go[i].proc : i \in Slot})
  /\ excused' = IF enq["scanner"].pc \in {"swapped", "undo"}
                THEN excused \cup {enq["scanner"].run} ELSE excused
  /\ UNCHANGED <<items, hist, left, lock, cmd, suspended>>

(***************************************************************************)
(* A process started for a queued run (the retry command).                 *)
(***************************************************************************)

PTo(p, pc) == proc' = [proc EXCEPT ![p].pc = pc]
Exit(p) == proc' = [proc EXCEPT ![p] = NoProc]
ProcFrame == UNCHANGED <<queueVars, left, z, enq, cmd, suspended>>

\* The goroutine found the run queued; when the command looks first, outside
\* the lock, it may not be queued any more.
PCheck(p) ==
  /\ proc[p].pc = "launched" /\ Status(proc[p].run) # "queued"
  /\ Exit(p)
  /\ ProcFrame /\ UNCHANGED <<hist, lock, budget, excused>>

\* It must still be queued under the group's lock.
StillQueued(p) == Status(proc[p].run) = "queued"
PLock(p) ==
  /\ proc[p].pc = "launched" /\ lock = {}
  /\ IF StillQueued(p) THEN PTo(p, "locked") /\ lock' = {p}
     ELSE Exit(p) /\ UNCHANGED lock
  /\ ProcFrame /\ UNCHANGED <<hist, budget, excused>>

\* A new attempt and the heartbeat file; when the file cannot be created the
\* new attempt is recorded as failed.
PPrepare(p) ==
  LET r == proc[p].run IN
  /\ proc[p].pc = "locked"
  /\ lock' = {}
  /\ \/ /\ hist' = [hist EXCEPT ![r] = Append(@, "empty")]
        /\ tangled' = IF \E o \in Proc \ {p} : proc[o].run = r /\ proc[o].beat # "none"
                      THEN tangled \cup {r} ELSE tangled
        /\ proc' = [proc EXCEPT ![p].pc = "acquired", ![p].beat = "fresh",
                                ![p].att = Len(hist[r]) + 1]
        /\ UNCHANGED <<faults, commands>>
     \/ /\ Fault
        /\ hist' = [hist EXCEPT ![r] = Append(@, "failed")]
        /\ Exit(p)
  /\ ProcFrame /\ UNCHANGED excused

\* An attempt without a status that no process will write is invisible to
\* everybody: it is forgotten when it is the last one.
Leave(p) ==
  LET r == proc[p].run IN
  /\ Exit(p)
  /\ excused' = excused \cup {r}
  /\ hist' = IF proc[p].att = Len(hist[r]) /\ Last(hist[r]) = "empty"
             THEN [hist EXCEPT ![r] = Front(@)] ELSE hist

\* checkIsAlreadyRunning: another process of the run answers on its socket.
PAlready(p) ==
  /\ proc[p].pc = "acquired"
  /\ IF \E o \in Proc : proc[o].run = proc[p].run /\ proc[o].pc = "running"
     THEN Leave(p) ELSE PTo(p, "starting") /\ UNCHANGED <<hist, excused>>
  /\ ProcFrame /\ UNCHANGED <<lock, budget>>

\* Open creates the attempt's file again if the run was removed meanwhile.
PStart(p) ==
  /\ proc[p].pc = "starting"
  /\ hist' = [hist EXCEPT ![proc[p].run][proc[p].att] = "running"]
  /\ PTo(p, "running")
  /\ ProcFrame /\ UNCHANGED <<lock, budget, excused>>

\* An error before the first status (a working directory or mail setting that
\* cannot be evaluated) ends the process and leaves the attempt without one.
PInitFails(p) ==
  /\ proc[p].pc = "starting" /\ Fault
  /\ Leave(p)
  /\ ProcFrame /\ UNCHANGED lock

\* The status file is open: what is written after the attempt was hidden or
\* removed is never seen again.
WriteOpen(p, s) ==
  hist' = [hist EXCEPT ![proc[p].run][proc[p].att] = IF @ = "gone" THEN @ ELSE s]

PProgress(p) ==
  /\ proc[p].pc = "running"
  /\ hist[proc[p].run][proc[p].att] # "running"
  /\ WriteOpen(p, "running")
  /\ ProcFrame /\ UNCHANGED <<procVars, budget, excused>>

PFinish(p) ==
  /\ proc[p].pc = "running"
  /\ \E s \in {"done", "failed"} : WriteOpen(p, s)
  /\ PTo(p, "ended")
  /\ ProcFrame /\ UNCHANGED <<lock, budget, excused>>

PStop(p) ==
  /\ proc[p].pc = "ended"
  /\ Exit(p)
  /\ ProcFrame /\ UNCHANGED <<hist, lock, budget, excused>>

\* A crash leaves the heartbeat file; the group's lock goes stale and is taken.
PCrash(p) ==
  /\ Live(p) /\ Fault
  /\ IF proc[p].beat = "none" THEN Exit(p) ELSE PTo(p, "dead")
  /\ lock' = lock \ {p}
  /\ excused' = excused \cup {proc[p].run}
  /\ ProcFrame /\ UNCHANGED hist

\* Nobody beats for a dead process; one that executes may be held up for long.
Expire(p) ==
  /\ proc[p].pc = "dead" /\ proc[p].beat = "fresh"
  /\ proc' = [proc EXCEPT ![p].beat = "stale"]
  /\ ProcFrame /\ UNCHANGED <<hist, lock, budget, excused>>
Stall(p) ==
  /\ proc[p].pc = "running" /\ proc[p].beat = "fresh" /\ Hit({proc[p].run})
  /\ proc' = [proc EXCEPT ![p].beat = "stale", ![p].flag = "held"]
  /\ ProcFrame /\ UNCHANGED <<hist, lock, excused>>
Beat(p) ==
  /\ proc[p].pc \in {"acquired", "starting", "running", "ended"}
  /\ proc[p].beat # "fresh"
  /\ proc' = [proc EXCEPT ![p].beat = "fresh"]
  /\ ProcFrame /\ UNCHANGED <<hist, lock, budget, excused>>

(***************************************************************************)
(* The zombie detector.  That an entry must look stale in several scans in *)
(* a row is abstracted: a stale entry may be examined at any time.         *)
(***************************************************************************)

ZFrame == UNCHANGED <<queueVars, left, lock, enq, cmd, suspended, budget, excused>>
Entry(p) == [run |-> proc[p].run, att |-> proc[p].att, proc |-> {p}, pc |-> "find"]
IsStaleOrFresh(p) == proc[p].beat # "none"
IsStale(p) == proc[p].beat = "stale"

ZList(p) ==
  /\ z = NoEntry /\ IsStale(p)
  /\ z' = [Entry(p) EXCEPT !.pc =
             IF \E o \in Proc : /\ proc[o].run = proc[p].run /\ o # p
                                /\ proc[o].beat = "fresh" /\ proc[o].att # proc[p].att
             THEN "remove" ELSE "find"]
  /\ ZFrame /\ UNCHANGED <<hist, proc>>

\* The entry's attempt must be the latest, and running; otherwise, or when the
\* run is not found, the file is an orphan.
ZFind ==
  /\ z.pc = "find"
  /\ z' = [z EXCEPT !.pc = IF Swaps(z.run, z.att, "running")
                           THEN "repair" ELSE "remove"]
  /\ ZFrame /\ UNCHANGED <<hist, proc>>

\* RepairStaleLocalRun reads the attempt again and writes it later.
ZRepairQueuedOnly ==
  /\ z.pc = "repair"
  /\ z' = [z EXCEPT !.pc = IF hist[z.run][z.att] = "queued" THEN "write" ELSE "remove"]
  /\ ZFrame /\ UNCHANGED <<hist, proc>>
ZRepair ==
  LET s == hist[z.run][z.att] IN
  /\ z.pc = "repair"
  /\ z' = IF s \in {"queued", "running"} THEN [z EXCEPT !.pc = "write"]
          ELSE IF s \in Written THEN [z EXCEPT !.pc = "remove"]
          ELSE NoEntry
  /\ ZFrame /\ UNCHANGED <<hist, proc>>

ZWrite ==
  /\ z.pc = "write"
  /\ hist' = [hist EXCEPT ![z.run][z.att] = "failed"]
  /\ z' = [z EXCEPT !.pc = "remove"]
  /\ ZFrame /\ UNCHANGED proc

\* RemoveIfStale: only the very file that was listed, and only while stale.
ZRemove ==
  /\ z.pc = "remove"
  /\ proc' = [p \in Proc |->
                IF /\ p \in z.proc /\ proc[p].run = z.run /\ proc[p].att = z.att
                   /\ IsStale(p)
                THEN IF proc[p].pc = "dead" THEN NoProc
                     ELSE [proc[p] EXCEPT !.beat = "none"]
                ELSE proc[p]]
  /\ z' = NoEntry
  /\ ZFrame /\ UNCHANGED hist

(***************************************************************************)
(* EnqueueRetry, called by the retry scanner and by a user's retry.        *)
(***************************************************************************)

EnqFrame == UNCHANGED <<go, procVars, z, cmd, suspended>>

Read(a, r) == enq' = [enq EXCEPT ![a] = [run |-> r, pc |-> "read", att |-> Latest(r),
                                         from |-> Status(r)]]
ScanRetry(r) ==
  /\ enq["scanner"] = NoEnq
  /\ Status(r) = "failed" /\ ~suspended /\ left[r] > 0
  /\ Read("scanner", r)
  /\ EnqFrame /\ UNCHANGED <<items, hist, left, budget, excused>>

UserRetry(r) ==
  /\ enq["user"] = NoEnq /\ Command
  /\ Status(r) \notin {"queued", "none"}
  /\ Read("user", r)
  /\ EnqFrame /\ UNCHANGED <<items, hist, left, excused>>

\* The status first ...
EnqSwap(a) ==
  LET e == enq[a] IN
  /\ e.pc = "read"
  /\ Swap(e.run, e.att, e.from, "queued")
  /\ IF Swaps(e.run, e.att, e.from)
     THEN /\ enq' = [enq EXCEPT ![a].pc = "swapped"]
          /\ left' = IF a = "scanner" THEN [left EXCEPT ![e.run] = @ - 1] ELSE left
     ELSE enq' = [enq EXCEPT ![a] = NoEnq] /\ UNCHANGED left
  /\ EnqFrame /\ UNCHANGED <<items, budget, excused>>

\* ... then the item; a failure swaps the status back.
EnqAppend(a) ==
  /\ enq[a].pc = "swapped"
  /\ \/ /\ items' = Append(items, enq[a].run)
        /\ enq' = [enq EXCEPT ![a] = NoEnq] /\ UNCHANGED budget
     \/ /\ Fault /\ enq' = [enq EXCEPT ![a].pc = "undo"] /\ UNCHANGED items
  /\ EnqFrame /\ UNCHANGED <<hist, left, excused>>

EnqGivesUp(a) ==
  /\ enq[a].pc = "undo"
  /\ enq' = [enq EXCEPT ![a] = NoEnq]
  /\ EnqFrame /\ UNCHANGED <<items, hist, left, budget, excused>>
EnqUndo(a) ==
  LET e == enq[a] IN
  /\ e.pc = "undo"
  /\ Swap(e.run, e.att, "queued", e.from)
  /\ left' = IF a = "scanner" /\ Swaps(e.run, e.att, "queued")
             THEN [left EXCEPT ![e.run] = @ + 1] ELSE left
  /\ enq' = [enq EXCEPT ![a] = NoEnq]
  /\ EnqFrame /\ UNCHANGED <<items, budget, excused>>

\* The user's command is killed.
UserDies ==
  /\ enq["user"].pc \in {"swapped", "undo"} /\ Fault
  /\ enq' = [enq EXCEPT !["user"] = NoEnq]
  /\ excused' = excused \cup {enq["user"].run}
  /\ EnqFrame /\ UNCHANGED <<items, hist, left>>

(***************************************************************************)
(* The other commands.                                                     *)
(***************************************************************************)

CmdFrame == UNCHANGED <<go, left, proc, z, enq>>

\* CancelFailedAutoRetryPendingRun: no more automatic retries.
CancelAutoRetry(r) ==
  /\ Command /\ Status(r) = "failed" /\ left[r] > 0
  /\ Swap(r, Latest(r), "failed", "aborted")
  /\ CmdFrame /\ UNCHANGED <<items, lock, cmd, suspended, excused>>

Suspend ==
  /\ Command /\ suspended' = ~suspended
  /\ CmdFrame /\ UNCHANGED <<items, hist, lock, cmd, excused>>

\* AbortQueuedDAGRun hides the attempt, and removes the run with the attempts
\* that have no status when nothing visible remains.
Aborted(r) ==
  LET hidden == [hist EXCEPT ![r][Latest(r)] = "gone"]
  IN IF StatusOf(hidden, r) = "none"
     THEN [hist EXCEPT ![r] = [k \in DOMAIN @ |-> "gone"]] ELSE hidden

DequeueAbort(r) ==
  /\ cmd = NoCmd /\ lock = {} /\ Command
  /\ Status(r) = "queued"
  /\ hist' = Aborted(r)
  /\ lock' = {Dequeuer} /\ cmd' = [run |-> r, pc |-> "aborted"]
  /\ excused' = ExcusedBy(r, Aborted(r))
  /\ CmdFrame /\ UNCHANGED <<items, suspended>>

DequeueItem ==
  /\ cmd.pc = "aborted"
  /\ items' = Without(cmd.run)
  /\ excused' = ExcusedBy(cmd.run, hist)
  /\ lock' = {} /\ cmd' = NoCmd
  /\ CmdFrame /\ UNCHANGED <<hist, suspended, budget>>

(***************************************************************************)
(* The specification.                                                      *)
(***************************************************************************)

GoStep(i) == \/ GoAlive(i) \/ GoStatus(i) \/ GoDrop(i) \/ GoPoll(i)
             \/ GoGiveUp(i) \/ GoDequeue(i)
PStep(p) == \/ PCheck(p) \/ PLock(p) \/ PPrepare(p) \/ PAlready(p) \/ PStart(p)
            \/ PFinish(p) \/ PStop(p)
ZStep == ZFind \/ ZRepair \/ ZWrite \/ ZRemove
EnqStep(a) == EnqSwap(a) \/ EnqAppend(a) \/ EnqUndo(a)

Next ==
  \/ StartRound \/ Restart
  \/ \E i \in Slot : GoStep(i)
  \/ \E p \in Proc : \/ PStep(p) \/ PInitFails(p) \/ PProgress(p) \/ PCrash(p)
                     \/ Expire(p) \/ Stall(p) \/ Beat(p) \/ ZList(p)
  \/ ZStep
  \/ \E a \in Enqueuer : EnqStep(a)
  \/ UserDies
  \/ \E r \in Run : \/ ScanRetry(r) \/ UserRetry(r) \/ CancelAutoRetry(r)
                    \/ DequeueAbort(r)
  \/ Suspend \/ DequeueItem

Spec == Init /\ [][Next]_vars

(***************************************************************************)
(* The queue processor, the detector, every process and the calls in       *)
(* flight go on, each at its own pace: a process that was held up beats or *)
(* finishes at last.  Whether anybody retries is left open.                *)
(***************************************************************************)
Fairness ==
  /\ WF_vars(StartRound \/ \E i \in Slot : GoStep(i))
  /\ WF_vars(ZStep \/ \E p \in Proc : ZList(p))
  /\ \A p \in Proc : WF_vars(PStep(p) \/ Beat(p) \/ Expire(p))
  /\ WF_vars(DequeueItem \/ \E a \in Enqueuer : EnqStep(a))
FairSpec == Spec /\ Fairness

(***************************************************************************)
(* Properties.                                                             *)
(***************************************************************************)

\* The queue's limit: of the processes whose start the processor has watched
\* to the end, no more than MaxConcurrency runs execute at a time, although the
\* processor counts heartbeats only before it starts a batch
\* (ProcessQueueItems, waitForStartup).  A process whose start it gave up or
\* forgot, or whose heartbeat went stale, is not bound by the limit.
Watched(p) == Executing(p) /\ proc[p].flag = "seen"
SlotsBound ==
  Cardinality({proc[p].run : p \in {q \in Proc : Watched(q)}}) <= MaxConcurrency

\* The steps of a run are executed by one process: when two processes of a run
\* execute at once, the processor had lost sight of one of them
\* (ensureQueueDispatchRetryTarget, checkIsAlreadyRunning, IsRunAlive).  That is
\* so of a queue with one slot: with two, a round may select two items of one
\* run, and both processes find it queued.
NoDoubleRun ==
  \A p, q \in Proc :
    p # q /\ proc[p].run = proc[q].run /\ Watched(p) => ~Watched(q)

\* A queued run waits for something: an item of the queue, a process or a call
\* in flight.  Otherwise nobody will ever execute it, and that only happens
\* when a call or a process died half-way, or an item was removed for a run that
\* had become queued again (EnqueueRetry, DequeueByDAGRunID, AbortQueuedDAGRun).
Awaited(r) ==
  \/ r \in ToSet(items)
  \/ \E p \in Proc : Serves(p, r, hist)
  \/ \E a \in Enqueuer : enq[a].run = r /\ enq[a].pc \in {"swapped", "undo"}
  \/ cmd.run = r
QueuedHasItem == \A r \in Run : Status(r) = "queued" /\ ~Awaited(r) => r \in excused

\* The zombie detector declares an attempt failed only when the process that
\* executes it is gone, or was held up until its heartbeat went stale
\* (checkAndCleanZombie, RepairStaleLocalRun, RemoveIfStale).
RepairSparesLive ==
  [][\A p \in Proc :
       ZWrite /\ proc[p].run = z.run /\ proc[p].att = z.att /\ Live(p)
         => proc[p].flag = "held"]_vars

\* A run whose process crashed does not stay Running: its heartbeat goes stale
\* and the detector repairs it, whatever the scheduler is interrupted in.  (A
\* process that was held up, declared failed and reports Running again may die
\* before it recreates its heartbeat file, and the stale file of the newest of
\* two processes is removed unrepaired while the older one's is fresh.)
Orphaned(r) ==
  /\ Status(r) = "running"
  /\ ~\E p \in Proc : proc[p].run = r /\ proc[p].att = Latest(r) /\ Live(p)
ZombieNoticed == \A r \in Run : Orphaned(r) ~> (~Orphaned(r) \/ r \in tangled)

\* An item does not block the queue: a run that is queued and has an item is
\* started, dropped or taken out, even after crashes of the process started for
\* it (waitForStartup gives up, dead heartbeats stop counting as alive).
QueuedMoves == \A r \in Run :
  (Status(r) = "queued" /\ r \in ToSet(items)) ~> (Status(r) # "queued" \/ r \notin ToSet(items))

\* A dequeue command takes the run out of the queue: once the aborted attempt
\* is hidden the run is not Queued any more (dequeueQueuedDAGRun).
DequeuedIsNotQueued ==
  [][\A r \in Run : DequeueAbort(r) => StatusOf(hist', r) # "queued"]_vars
=============================================================================
