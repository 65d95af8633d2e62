------------------------------ MODULE DirLock ------------------------------
(***************************************************************************)
(* The directory lock of internal/cmn/dirlock: a directory is locked by    *)
(* making the directory .ayatsuri_lock in it, whose file "owner" holds a   *)
(* token only its maker knows.  Every system call is a step of its own;    *)
(* the calls of one instance are serialized by its mutex.  A lock whose    *)
(* modification time is older than the threshold is stale, and whoever     *)
(* finds it stale removes it.                                              *)
(***************************************************************************)
EXTENDS Naturals, FiniteSets

CONSTANTS Inst,        \* the lock instances, one per process
          Token,       \* fence tokens
          NoToken,     \* the lock directory without its file "owner"
          NoDir,       \* no lock directory
          MaxFaults    \* how many faults happen: a lock becomes stale under a
                       \* live owner, a process dies or is told to end

ASSUME TokenAssumption ==
  /\ NoToken \notin Token
  /\ IsFiniteSet(Inst) /\ IsFiniteSet(Token)
  /\ Cardinality(Token) > Cardinality(Inst)

ASSUME DirAssumption ==
  /\ NoDir \notin [owner : Token \cup {NoToken}, fresh : BOOLEAN]
  /\ MaxFaults \in Nat

VARIABLES
  lockDir,     \* the lock directory: its owner file, and whether it is fresh
  pc,          \* where in a call an instance is
  fenceToken,  \* dirLock.fenceToken while isHeld, else NoToken
  res,         \* what TryLock returned, until its caller reads it
  beat,        \* what Heartbeat returned, until its caller reads it
  takeover,    \* history: somebody removed a lock it had found stale
  faults       \* how many faults have happened

lockVars == <<lockDir, pc, fenceToken, res, beat, takeover, faults>>

Dir(owner, fresh) == [owner |-> owner, fresh |-> fresh]

LockTypeOK ==
  /\ lockDir \in {NoDir} \cup [owner : Token \cup {NoToken}, fresh : BOOLEAN]
  /\ pc \in [Inst -> {"idle", "staleOwner", "staleDir", "mkdir", "write",
                      "cleanOwner", "cleanDir", "touch",
                      "unlockOwner", "unlockDir"}]
  /\ fenceToken \in [Inst -> Token \cup {NoToken}]
  /\ res \in [Inst -> {"none", "ok", "conflict", "error"}]
  /\ beat \in [Inst -> {"none", "ok", "error"}]
  /\ takeover \in BOOLEAN
  /\ faults \in 0..MaxFaults

LockInit ==
  /\ lockDir = NoDir
  /\ pc = [i \in Inst |-> "idle"]
  /\ fenceToken = [i \in Inst |-> NoToken]
  /\ res = [i \in Inst |-> "none"]
  /\ beat = [i \in Inst |-> "none"]
  /\ takeover = FALSE
  /\ faults = 0

Goto(i, l) == pc' = [pc EXCEPT ![i] = l]

\* The instance believes it holds the lock.
IsHeld(i) == fenceToken[i] # NoToken

\* It does, and the token in the lock directory is the one it wrote.
Owns(i) == IsHeld(i) /\ lockDir # NoDir /\ lockDir.owner = fenceToken[i]

\* Mutant of FreshToken: the host only, which every process shares.
FreshTokenOfHost == CHOOSE t \in Token : TRUE

\* Tokens are made of host, process and nanosecond: the one to be written
\* is not that of the lock directory, nor one an instance still compares.
\* Tokens are only compared, so any such token stands for all of them.
FreshToken ==
  CHOOSE t \in Token : /\ lockDir # NoDir => t # lockDir.owner
                       /\ \A i \in Inst : fenceToken[i] # t

\* Mutant of IsStale: a lock directory is never too old.
IsStaleNever == FALSE

IsStale == lockDir # NoDir /\ ~lockDir.fresh

\* Mutant of VerifyToken: the owner file is not read.
VerifyTokenNever(i) == IsHeld(i)

\* The check before a heartbeat and before an unlock: the lock is held, and
\* the owner file can be read and holds the token.
VerifyToken(i) == Owns(i)

-----------------------------------------------------------------------------
(* TryLock *)

\* The lock is held already, or the lock directory is looked at: a fresh one
\* is a conflict, a stale one will be removed, and none will be made.
TryLock(i) ==
  /\ pc[i] = "idle"
  /\ res[i] = "none"
  /\ \/ /\ IsHeld(i)
        /\ res' = [res EXCEPT ![i] = "ok"]
        /\ UNCHANGED pc
     \/ /\ ~IsHeld(i)
        /\ lockDir = NoDir
        /\ Goto(i, "mkdir")
        /\ UNCHANGED res
     \/ /\ ~IsHeld(i)
        /\ IsStale
        /\ Goto(i, "staleOwner")
        /\ UNCHANGED res
     \/ /\ ~IsHeld(i)
        /\ lockDir # NoDir /\ ~IsStale
        /\ res' = [res EXCEPT ![i] = "conflict"]
        /\ UNCHANGED pc
  /\ UNCHANGED <<lockDir, fenceToken, beat, takeover, faults>>

\* os.RemoveAll removes the file, which makes the directory's time new, ...
WithoutOwner ==
  IF lockDir = NoDir THEN NoDir
  ELSE IF lockDir.owner = NoToken THEN lockDir
  ELSE Dir(NoToken, TRUE)

\* ... and then the directory, unless a file has been put into it since.
Removable == lockDir # NoDir => lockDir.owner = NoToken

RemoveStaleOwner(i) ==
  /\ pc[i] = "staleOwner"
  /\ lockDir' = WithoutOwner
  /\ Goto(i, "staleDir")
  /\ takeover' = TRUE
  /\ UNCHANGED <<fenceToken, res, beat, faults>>

RemoveStaleDir(i) ==
  /\ pc[i] = "staleDir"
  /\ \/ /\ Removable
        /\ lockDir' = NoDir
        /\ Goto(i, "mkdir")
        /\ UNCHANGED res
     \/ /\ ~Removable
        /\ res' = [res EXCEPT ![i] = "error"]
        /\ Goto(i, "idle")
        /\ UNCHANGED lockDir
  /\ UNCHANGED <<fenceToken, beat, takeover, faults>>

\* Mutant of Mkdir: os.MkdirAll, which does not mind an existing directory.
MkdirAll(i) ==
  /\ pc[i] = "mkdir"
  /\ lockDir' = IF lockDir = NoDir THEN Dir(NoToken, TRUE) ELSE lockDir
  /\ Goto(i, "write")
  /\ UNCHANGED <<fenceToken, res, beat, takeover, faults>>

\* os.Mkdir fails if another instance was faster.
Mkdir(i) ==
  /\ pc[i] = "mkdir"
  /\ \/ /\ lockDir = NoDir
        /\ lockDir' = Dir(NoToken, TRUE)
        /\ Goto(i, "write")
        /\ UNCHANGED res
     \/ /\ lockDir # NoDir
        /\ res' = [res EXCEPT ![i] = "conflict"]
        /\ Goto(i, "idle")
        /\ UNCHANGED lockDir
  /\ UNCHANGED <<fenceToken, beat, takeover, faults>>

\* The token goes into whatever directory is at the path by now; without one
\* the write fails and the path is removed, whatever is there.
WriteToken(i) ==
  /\ pc[i] = "write"
  /\ \/ /\ lockDir # NoDir
        /\ lockDir' = Dir(FreshToken, lockDir.owner = NoToken \/ lockDir.fresh)
        /\ fenceToken' = [fenceToken EXCEPT ![i] = FreshToken]
        /\ res' = [res EXCEPT ![i] = "ok"]
        /\ Goto(i, "idle")
     \/ /\ lockDir = NoDir
        /\ Goto(i, "cleanOwner")
        /\ UNCHANGED <<lockDir, fenceToken, res>>
  /\ UNCHANGED <<beat, takeover, faults>>

CleanOwner(i) ==
  /\ pc[i] = "cleanOwner"
  /\ lockDir' = WithoutOwner
  /\ Goto(i, "cleanDir")
  /\ UNCHANGED <<fenceToken, res, beat, takeover, faults>>

CleanDir(i) ==
  /\ pc[i] = "cleanDir"
  /\ lockDir' = IF Removable THEN NoDir ELSE lockDir
  /\ res' = [res EXCEPT ![i] = "error"]
  /\ Goto(i, "idle")
  /\ UNCHANGED <<fenceToken, beat, takeover, faults>>

-----------------------------------------------------------------------------
(* Heartbeat *)

\* The owner file must still hold the token, else the lock counts as lost.
HeartbeatRead(i) ==
  /\ pc[i] = "idle"
  /\ beat[i] = "none"
  /\ \/ /\ VerifyToken(i)
        /\ Goto(i, "touch")
        /\ UNCHANGED <<fenceToken, beat>>
     \/ /\ ~VerifyToken(i)
        /\ fenceToken' = [fenceToken EXCEPT ![i] = NoToken]
        /\ beat' = [beat EXCEPT ![i] = "error"]
        /\ UNCHANGED pc
  /\ UNCHANGED <<lockDir, res, takeover, faults>>

\* os.Chtimes makes whatever directory is at the path by now fresh again.
HeartbeatTouch(i) ==
  /\ pc[i] = "touch"
  /\ Goto(i, "idle")
  /\ \/ /\ lockDir # NoDir
        /\ lockDir' = [lockDir EXCEPT !.fresh = TRUE]
        /\ beat' = [beat EXCEPT ![i] = "ok"]
     \/ /\ lockDir = NoDir
        /\ beat' = [beat EXCEPT ![i] = "error"]
        /\ UNCHANGED lockDir
  /\ UNCHANGED <<fenceToken, res, takeover, faults>>

-----------------------------------------------------------------------------
(* Unlock *)

\* A lock that is not held, or lost by now, is left alone.
UnlockRead(i) ==
  /\ pc[i] = "idle"
  /\ \/ /\ VerifyToken(i)
        /\ Goto(i, "unlockOwner")
        /\ UNCHANGED fenceToken
     \/ /\ ~VerifyToken(i)
        /\ fenceToken' = [fenceToken EXCEPT ![i] = NoToken]
        /\ UNCHANGED pc
  /\ UNCHANGED <<lockDir, res, beat, takeover, faults>>

UnlockOwner(i) ==
  /\ pc[i] = "unlockOwner"
  /\ lockDir' = WithoutOwner
  /\ Goto(i, "unlockDir")
  /\ UNCHANGED <<fenceToken, res, beat, takeover, faults>>

UnlockDir(i) ==
  /\ pc[i] = "unlockDir"
  /\ lockDir' = IF Removable THEN NoDir ELSE lockDir
  /\ fenceToken' = [fenceToken EXCEPT ![i] = IF Removable THEN NoToken ELSE @]
  /\ Goto(i, "idle")
  /\ UNCHANGED <<res, beat, takeover, faults>>

-----------------------------------------------------------------------------
(* Time and failure *)

Fault == faults < MaxFaults /\ faults' = faults + 1

\* Somebody alive will refresh the lock, or is just about to write its token.
OwnerAlive == \E i \in Inst : Owns(i) \/ pc[i] = "write"

\* The threshold passes without a heartbeat: of a dead owner always, of a
\* live one only when its process is paused for that long.
Age ==
  /\ lockDir # NoDir /\ lockDir.fresh
  /\ lockDir' = [lockDir EXCEPT !.fresh = FALSE]
  /\ \/ ~OwnerAlive /\ UNCHANGED faults
     \/ OwnerAlive /\ Fault
  /\ UNCHANGED <<pc, fenceToken, res, beat, takeover>>

\* The process of the instance dies; what it did to the directory stays.
Die(i) ==
  /\ pc' = [pc EXCEPT ![i] = "idle"]
  /\ fenceToken' = [fenceToken EXCEPT ![i] = NoToken]
  /\ res' = [res EXCEPT ![i] = "none"]
  /\ beat' = [beat EXCEPT ![i] = "none"]
  /\ Fault
  /\ UNCHANGED <<lockDir, takeover>>

\* The steps inside a call, which nobody but the system delays.
CallStep(i) ==
  \/ RemoveStaleOwner(i) \/ RemoveStaleDir(i) \/ Mkdir(i) \/ WriteToken(i)
  \/ CleanOwner(i) \/ CleanDir(i)
  \/ HeartbeatTouch(i)
  \/ UnlockOwner(i) \/ UnlockDir(i)
=============================================================================
