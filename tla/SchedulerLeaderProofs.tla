----------------------- MODULE SchedulerLeaderProofs -----------------------
(***************************************************************************)
(* Proofs about SchedulerLeader for any number of schedulers.              *)
(***************************************************************************)
EXTENDS SchedulerLeader, FiniteSetTheorems, TLAPS

\* The steps of TryLock, all taken while Start waits for the lock.
Locking == {"staleOwner", "staleDir", "mkdir", "write", "cleanOwner", "cleanDir"}

\* Start has stored lockHeld.
Past == {"startup", "starting", "running", "cleanup", "unlocking", "exited"}

\* Where an instance is in a call, and what that says of its token.  A call
\* of TryLock is Start's, one that unlocks is the cleanup's or Stop's.
CallInv ==
  \A i \in Inst :
    /\ pc[i] \in Locking => phase[i] = "locking" /\ res[i] = "none" /\ ~IsHeld(i)
    /\ pc[i] = "touch" \/ beat[i] # "none" => phase[i] \in Past
    /\ pc[i] \in {"unlockOwner", "unlockDir"}
         => (phase[i] = "unlocking" \/ stop[i] = "unlocking") /\ phase[i] \in Past
    /\ pc[i] \in {"touch", "unlockOwner", "unlockDir"} => IsHeld(i) /\ res[i] = "none"
    /\ res[i] \in {"error", "conflict"} => ~IsHeld(i)
    /\ phase[i] = "locking" /\ res[i] = "ok" => IsHeld(i)

\* No two instances have the same token.
TokenInv ==
  \A i, j \in Inst : IsHeld(i) /\ fenceToken[i] = fenceToken[j] => i = j

\* Until somebody takes over, only one instance has made the directory, and
\* the directory is still the one it made.
Maker(i) == IsHeld(i) \/ pc[i] = "write"

MakerInv ==
  ~takeover =>
    /\ \A i, j \in Inst : Maker(i) /\ Maker(j) => i = j
    /\ \A i \in Inst :
         /\ pc[i] \notin {"staleDir", "cleanOwner", "cleanDir"}
         /\ Maker(i) => lockDir # NoDir
         /\ IsHeld(i) /\ pc[i] # "unlockDir" => lockDir.owner = fenceToken[i]
         /\ pc[i] \in {"write", "unlockDir"} => lockDir.owner = NoToken
         /\ phase[i] \in {"locked", "startup", "starting", "running"} /\ ~quit[i]
              => IsHeld(i)

\* lockHeld is false once the lock has been given back or lost, and a Start
\* that has gone past its checks leaves giving it back to Stop.
ReleaseInv ==
  \A i \in Inst :
    /\ quit[i] <=> stop[i] # "none"
    /\ cron[i] # "off" => phase[i] = "running"
    /\ lockHeld[i] => phase[i] \in {"startup", "starting", "running", "cleanup", "exited"}
    /\ stop[i] = "unlocking" => phase[i] \in Past
    /\ lockHeld[i] /\ phase[i] \in {"starting", "running"} => stop[i] \in {"none", "begun"}
    /\ lockHeld[i] /\ phase[i] = "exited" => stop[i] = "begun"
    /\ beat[i] = "error" => ~Owns(i)
    /\ pc[i] = "unlockDir" => ~Owns(i)
    /\ phase[i] \in Past /\ ~lockHeld[i] /\ Owns(i) => pc[i] = "unlockOwner"

\* As long as no process dies: the token in the directory is somebody's, and
\* a directory without one is about to get one or to be removed.
OrphanInv ==
  ~crashed /\ lockDir # NoDir =>
    IF lockDir.owner = NoToken
    THEN \E i \in Inst : pc[i] \in {"write", "staleDir", "cleanDir", "unlockDir"}
    ELSE \E i \in Inst : fenceToken[i] = lockDir.owner

IInv == TypeOK /\ CallInv /\ TokenInv /\ MakerInv /\ ReleaseInv /\ OrphanInv

-----------------------------------------------------------------------------
(* Tokens *)

\* While an instance holds no token, the others' tokens and the one in the
\* lock directory leave one over: the choice in FreshToken is of a token
\* nobody uses.
LEMMA FreshTokenFacts ==
  ASSUME LockTypeOK, NEW i \in Inst, ~IsHeld(i), lockDir # NoDir
  PROVE  /\ FreshToken \in Token
         /\ FreshToken # lockDir.owner
         /\ \A j \in Inst : fenceToken[j] # FreshToken
<1> DEFINE Others == Inst \ {i}
           Used == {fenceToken[j] : j \in Others}
<1>1. IsFiniteSet(Others) /\ Cardinality(Others) = Cardinality(Inst) - 1
  BY TokenAssumption, FS_RemoveElement DEF TokenAssumption
<1>2. IsFiniteSet(Used) /\ Cardinality(Used) <= Cardinality(Others)
  <2> DEFINE f == [j \in Others |-> fenceToken[j]]
  <2>1. f \in Surjection(Others, Used)
    BY DEF Surjection
  <2> QED
    BY <1>1, <2>1, FS_Surjection
<1>3. /\ IsFiniteSet(Used \cup {lockDir.owner})
      /\ Cardinality(Used \cup {lockDir.owner}) <= Cardinality(Used) + 1
  <2>1. IsFiniteSet(Used) /\ Cardinality(Used) \in Nat
    BY <1>2, FS_CardinalityType
  <2> HIDE DEF Used
  <2> QED
    BY <2>1, FS_AddElement
<1>4. Cardinality(Used \cup {lockDir.owner}) < Cardinality(Token)
  <2>1. Cardinality(Inst) \in Nat /\ Cardinality(Token) \in Nat
    BY TokenAssumption, FS_CardinalityType DEF TokenAssumption
  <2>2. Cardinality(Used) \in Nat /\ Cardinality(Used \cup {lockDir.owner}) \in Nat
    BY <1>2, <1>3, FS_CardinalityType
  <2> QED
    BY <1>1, <1>2, <1>3, <2>1, <2>2, TokenAssumption DEF TokenAssumption
<1>5. PICK t \in Token : t \notin Used \cup {lockDir.owner}
  <2> SUFFICES ASSUME Token \subseteq Used \cup {lockDir.owner} PROVE FALSE
    OBVIOUS
  <2>1. Cardinality(Token) <= Cardinality(Used \cup {lockDir.owner})
    BY <1>3, FS_Subset
  <2>2. Cardinality(Token) \in Nat /\ Cardinality(Used \cup {lockDir.owner}) \in Nat
    BY <1>3, TokenAssumption, FS_CardinalityType DEF TokenAssumption
  <2> QED
    BY <1>4, <2>1, <2>2
<1>6. t # lockDir.owner /\ \A j \in Inst : fenceToken[j] # t
  BY <1>5, TokenAssumption DEF IsHeld, TokenAssumption
<1> QED
  BY <1>6 DEF FreshToken

-----------------------------------------------------------------------------
(* The lock directory *)

\* A record of the type of the lock directory is never "no directory".
LEMMA DirType ==
  ASSUME NEW o \in Token \cup {NoToken}, NEW f \in BOOLEAN
  PROVE  /\ Dir(o, f) \in [owner : Token \cup {NoToken}, fresh : BOOLEAN]
         /\ Dir(o, f) # NoDir
         /\ Dir(o, f).owner = o
         /\ Dir(o, f).fresh = f
BY DirAssumption DEF Dir, DirAssumption

\* What the steps that age or refresh it, and those that take its token away,
\* do to the lock directory.
LEMMA DirSteps ==
  ASSUME LockTypeOK
  PROVE  /\ \A b \in BOOLEAN : lockDir # NoDir =>
               [lockDir EXCEPT !.fresh = b] = Dir(lockDir.owner, b)
         /\ lockDir # NoDir => lockDir.owner \in Token \cup {NoToken}
                                /\ lockDir.fresh \in BOOLEAN
         /\ WithoutOwner = NoDir <=> lockDir = NoDir
         /\ WithoutOwner # NoDir => WithoutOwner.owner = NoToken
         /\ WithoutOwner \in {NoDir} \cup [owner : Token \cup {NoToken}, fresh : BOOLEAN]
<1> USE DirAssumption DEF LockTypeOK, DirAssumption
<1>1. CASE lockDir = NoDir
  BY <1>1 DEF WithoutOwner
<1>2. CASE lockDir \in [owner : Token \cup {NoToken}, fresh : BOOLEAN]
  <2>1. lockDir # NoDir
    BY <1>2
  <2>2. \A b \in BOOLEAN : [lockDir EXCEPT !.fresh = b] = Dir(lockDir.owner, b)
    BY <1>2 DEF Dir
  <2>3. WithoutOwner \in [owner : Token \cup {NoToken}, fresh : BOOLEAN]
    BY <1>2, <2>1 DEF WithoutOwner, Dir
  <2>4. WithoutOwner.owner = NoToken
    BY <1>2, <2>1 DEF WithoutOwner, Dir
  <2> QED
    BY <1>2, <2>1, <2>2, <2>3, <2>4
<1> QED
  BY <1>1, <1>2

-----------------------------------------------------------------------------
(* Type correctness *)

\* Every step keeps the types.
LEMMA TypeStep ==
  ASSUME TypeOK, CallInv, [Next]_vars
  PROVE  TypeOK'
<1> USE DirAssumption DEF TypeOK, LockTypeOK, leaderVars, lockVars, Goto, To, Fault, DirAssumption
<1>1. CASE Age /\ UNCHANGED leaderVars
  <2>1. lockDir' \in [owner : Token \cup {NoToken}, fresh : BOOLEAN]
    BY <1>1 DEF Age
  <2> QED
    BY <1>1, <2>1 DEF Age
<1>2. ASSUME NEW i \in Inst, RemoveStaleOwner(i), UNCHANGED leaderVars PROVE TypeOK'
  BY <1>2, DirSteps DEF RemoveStaleOwner
<1>3. ASSUME NEW i \in Inst, RemoveStaleDir(i), UNCHANGED leaderVars PROVE TypeOK'
  BY <1>3 DEF RemoveStaleDir, CallInv, Locking
<1>4. ASSUME NEW i \in Inst, Mkdir(i), UNCHANGED leaderVars PROVE TypeOK'
  <2>1. Dir(NoToken, TRUE) \in [owner : Token \cup {NoToken}, fresh : BOOLEAN]
    BY DirType
  <2>2. phase[i] = "locking"
    BY <1>4 DEF Mkdir, CallInv, Locking
  <2> QED
    BY ZenonT(60), <1>4, <2>1, <2>2 DEF Mkdir
<1>5. ASSUME NEW i \in Inst, WriteToken(i), UNCHANGED leaderVars PROVE TypeOK'
  <2>1. phase[i] = "locking" /\ ~IsHeld(i)
    BY <1>5 DEF WriteToken, CallInv, Locking
  <2>2. lockDir # NoDir => FreshToken \in Token
    BY <2>1, FreshTokenFacts
  <2>3. lockDir # NoDir => lockDir' \in [owner : Token \cup {NoToken}, fresh : BOOLEAN]
    <3> DEFINE f == lockDir.owner = NoToken \/ lockDir.fresh
    <3>1. f \in BOOLEAN
      OBVIOUS
    <3>2. lockDir # NoDir => lockDir' = Dir(FreshToken, f)
      BY <1>5 DEF WriteToken
    <3> HIDE DEF f
    <3> QED
      BY <2>2, <3>1, <3>2, DirType
  <2> QED
    BY <1>5, <2>1, <2>2, <2>3 DEF WriteToken
<1>6. ASSUME NEW i \in Inst, CleanOwner(i), UNCHANGED leaderVars PROVE TypeOK'
  BY <1>6, DirSteps DEF CleanOwner
<1>7. ASSUME NEW i \in Inst, CleanDir(i), UNCHANGED leaderVars PROVE TypeOK'
  BY <1>7 DEF CleanDir, CallInv, Locking
<1>8. ASSUME NEW i \in Inst, HeartbeatTouch(i), UNCHANGED leaderVars PROVE TypeOK'
  <2>1. lockDir # NoDir => lockDir' \in [owner : Token \cup {NoToken}, fresh : BOOLEAN]
    BY ZenonT(60), <1>8 DEF HeartbeatTouch
  <2> QED
    BY <1>8, <2>1 DEF HeartbeatTouch
<1>9. ASSUME NEW i \in Inst, UnlockOwner(i), UNCHANGED leaderVars PROVE TypeOK'
  BY <1>9, DirSteps DEF UnlockOwner
<1>10. ASSUME NEW i \in Inst, UnlockDir(i), UNCHANGED leaderVars PROVE TypeOK'
  BY <1>10 DEF UnlockDir
<1>11. ASSUME NEW i \in Inst, Start(i) PROVE TypeOK'
  BY <1>11 DEF Start
<1>12. ASSUME NEW i \in Inst, LockTry(i) PROVE TypeOK'
  BY <1>12 DEF LockTry, TryLock
<1>13. ASSUME NEW i \in Inst, LockReturns(i) PROVE TypeOK'
  BY <1>13 DEF LockReturns
<1>14. ASSUME NEW i \in Inst, LockHeldStore(i) PROVE TypeOK'
  BY <1>14 DEF LockHeldStore
<1>15. ASSUME NEW i \in Inst, StartupChecks(i) PROVE TypeOK'
  BY <1>15 DEF StartupChecks
<1>16. ASSUME NEW i \in Inst, Started(i) PROVE TypeOK'
  BY <1>16 DEF Started
<1>17. ASSUME NEW i \in Inst, StartupFails(i) PROVE TypeOK'
  BY <1>17 DEF StartupFails
<1>18. ASSUME NEW i \in Inst, CleanupFailedStartup(i) PROVE TypeOK'
  <2>1. CASE lockHeld[i] /\ UnlockRead(i)
    <3>1. LockTypeOK' /\ UNCHANGED res
      BY <2>1 DEF UnlockRead
    <3> HIDE DEF LockTypeOK
    <3> QED
      BY <1>18, <2>1, <3>1 DEF CleanupFailedStartup
  <2>2. CASE ~lockHeld[i]
    BY <1>18, <2>2 DEF CleanupFailedStartup
  <2> QED
    BY <1>18, <2>1, <2>2 DEF CleanupFailedStartup
<1>19. ASSUME NEW i \in Inst, CleanupUnlocked(i) PROVE TypeOK'
  BY <1>19 DEF CleanupUnlocked
<1>20. ASSUME NEW i \in Inst, StartReturns(i) PROVE TypeOK'
  BY <1>20 DEF StartReturns
<1>21. ASSUME NEW i \in Inst, Heartbeat(i) PROVE TypeOK'
  BY <1>21 DEF Heartbeat, HeartbeatRead, Beating
<1>22. ASSUME NEW i \in Inst, HeartbeatOk(i) PROVE TypeOK'
  BY <1>22 DEF HeartbeatOk
<1>23. ASSUME NEW i \in Inst, SelfFence(i) PROVE TypeOK'
  BY <1>23 DEF SelfFence
<1>24. ASSUME NEW i \in Inst, CronTick(i) PROVE TypeOK'
  BY <1>24 DEF CronTick
<1>25. ASSUME NEW i \in Inst, CronTickEnds(i) PROVE TypeOK'
  BY <1>25 DEF CronTickEnds
<1>26. ASSUME NEW i \in Inst, CronQuits(i) PROVE TypeOK'
  BY <1>26 DEF CronQuits
<1>27. ASSUME NEW i \in Inst, StopReleases(i) PROVE TypeOK'
  <2>1. CASE lockHeld[i] /\ UnlockRead(i)
    <3>1. LockTypeOK' /\ UNCHANGED res
      BY <2>1 DEF UnlockRead
    <3> HIDE DEF LockTypeOK
    <3> QED
      BY <1>27, <2>1, <3>1 DEF StopReleases
  <2>2. CASE ~lockHeld[i]
    BY <1>27, <2>2 DEF StopReleases
  <2> QED
    BY <1>27, <2>1, <2>2 DEF StopReleases
<1>28. ASSUME NEW i \in Inst, StopReturns(i) PROVE TypeOK'
  BY <1>28 DEF StopReturns
<1>29. ASSUME NEW i \in Inst, StopBegins(i) PROVE TypeOK'
  BY <1>29 DEF StopBegins
<1>30. ASSUME NEW i \in Inst, Signal(i) PROVE TypeOK'
  BY <1>30 DEF Signal
<1>31. ASSUME NEW i \in Inst, Crash(i) PROVE TypeOK'
  BY <1>31 DEF Crash, Die
<1>32. CASE UNCHANGED vars
  BY <1>32 DEF vars, lockVars, leaderVars
<1> QED
  BY <1>1, <1>2, <1>3, <1>4, <1>5, <1>6, <1>7, <1>8, <1>9, <1>10, <1>11, <1>12, <1>13, <1>14, <1>15, <1>16, <1>17, <1>18, <1>19, <1>20, <1>21, <1>22, <1>23, <1>24, <1>25, <1>26, <1>27, <1>28, <1>29, <1>30, <1>31, <1>32 DEF Next, CallStep, StartStep, BeatStep, StopStep, Finished

\* What a token that is written has to do with the rest: its writer had none,
\* nobody has the same one, and the directory holds it.
LEMMA WriteFacts ==
  ASSUME TypeOK, CallInv, NEW i \in Inst, WriteToken(i), lockDir # NoDir
  PROVE  /\ phase[i] = "locking" /\ res[i] = "none" /\ ~IsHeld(i)
         /\ FreshToken \in Token /\ FreshToken # NoToken
         /\ FreshToken # lockDir.owner
         /\ \A j \in Inst : fenceToken[j] # FreshToken
         /\ lockDir' # NoDir /\ lockDir'.owner = FreshToken
         /\ fenceToken' = [fenceToken EXCEPT ![i] = FreshToken]
         /\ res' = [res EXCEPT ![i] = "ok"]
         /\ pc' = [pc EXCEPT ![i] = "idle"]
<1>1. phase[i] = "locking" /\ res[i] = "none" /\ ~IsHeld(i)
  BY DEF WriteToken, CallInv, Locking
<1>2. /\ FreshToken \in Token /\ FreshToken # NoToken
      /\ FreshToken # lockDir.owner
      /\ \A j \in Inst : fenceToken[j] # FreshToken
  BY <1>1, FreshTokenFacts, TokenAssumption DEF TypeOK, TokenAssumption
<1>3. lockDir' # NoDir /\ lockDir'.owner = FreshToken
  <2> DEFINE f == lockDir.owner = NoToken \/ lockDir.fresh
  <2>1. f \in BOOLEAN
    OBVIOUS
  <2>2. lockDir' = Dir(FreshToken, f)
    BY DEF WriteToken
  <2> HIDE DEF f
  <2> QED
    BY <1>2, <2>1, <2>2, DirType
<1> QED
  BY <1>1, <1>2, <1>3 DEF WriteToken, Goto

\* A directory that is made has no token.
LEMMA MkdirFacts ==
  ASSUME TypeOK, CallInv, NEW i \in Inst, Mkdir(i)
  PROVE  /\ pc[i] = "mkdir" /\ phase[i] = "locking" /\ ~IsHeld(i)
         /\ UNCHANGED <<fenceToken, beat, takeover, faults>>
         /\ \/ /\ lockDir = NoDir /\ lockDir' # NoDir /\ lockDir'.owner = NoToken
               /\ pc' = [pc EXCEPT ![i] = "write"]
               /\ UNCHANGED res
            \/ /\ res' = [res EXCEPT ![i] = "conflict"]
               /\ pc' = [pc EXCEPT ![i] = "idle"]
               /\ UNCHANGED lockDir
<1>1. Dir(NoToken, TRUE) # NoDir /\ Dir(NoToken, TRUE).owner = NoToken
  BY DirType
<1>2. pc[i] = "mkdir" /\ phase[i] = "locking" /\ ~IsHeld(i)
  BY DEF Mkdir, CallInv, Locking
<1> QED
  BY <1>1, <1>2 DEF Mkdir, Goto

\* A directory that ages or is touched keeps its token.
LEMMA FreshenFacts ==
  ASSUME LockTypeOK, lockDir # NoDir, NEW b \in BOOLEAN
  PROVE  /\ [lockDir EXCEPT !.fresh = b] # NoDir
         /\ [lockDir EXCEPT !.fresh = b].owner = lockDir.owner
BY DirSteps, DirType


\* Every step keeps the calls in their places.
LEMMA CallStepInv ==
  ASSUME TypeOK, CallInv, ReleaseInv, [Next]_vars
  PROVE  CallInv'
<1> USE DEF TypeOK, LockTypeOK, leaderVars, lockVars, Goto, To, IsHeld, CallInv, ReleaseInv, Locking, Past
<1>1. CASE Age /\ UNCHANGED leaderVars
  BY <1>1 DEF Age
<1>2. ASSUME NEW i \in Inst, RemoveStaleOwner(i), UNCHANGED leaderVars PROVE CallInv'
  BY <1>2 DEF RemoveStaleOwner
<1>3. ASSUME NEW i \in Inst, RemoveStaleDir(i), UNCHANGED leaderVars PROVE CallInv'
  BY <1>3 DEF RemoveStaleDir
<1>4. ASSUME NEW i \in Inst, Mkdir(i), UNCHANGED leaderVars PROVE CallInv'
  BY <1>4, MkdirFacts
<1>5. ASSUME NEW i \in Inst, WriteToken(i), UNCHANGED leaderVars PROVE CallInv'
  <2>1. CASE lockDir = NoDir
    BY <1>5, <2>1 DEF WriteToken
  <2>2. CASE lockDir # NoDir
    <3>1. UNCHANGED <<beat, takeover, faults>>
      BY <1>5 DEF WriteToken
    <3> QED
      BY <1>5, <2>2, <3>1, WriteFacts
  <2> QED
    BY <2>1, <2>2
<1>6. ASSUME NEW i \in Inst, CleanOwner(i), UNCHANGED leaderVars PROVE CallInv'
  BY <1>6 DEF CleanOwner
<1>7. ASSUME NEW i \in Inst, CleanDir(i), UNCHANGED leaderVars PROVE CallInv'
  BY <1>7 DEF CleanDir
<1>8. ASSUME NEW i \in Inst, HeartbeatTouch(i), UNCHANGED leaderVars PROVE CallInv'
  BY <1>8 DEF HeartbeatTouch
<1>9. ASSUME NEW i \in Inst, UnlockOwner(i), UNCHANGED leaderVars PROVE CallInv'
  BY <1>9 DEF UnlockOwner
<1>10. ASSUME NEW i \in Inst, UnlockDir(i), UNCHANGED leaderVars PROVE CallInv'
  BY <1>10 DEF UnlockDir
<1>11. ASSUME NEW i \in Inst, Start(i) PROVE CallInv'
  BY <1>11 DEF Start
<1>12. ASSUME NEW i \in Inst, LockTry(i) PROVE CallInv'
  BY <1>12 DEF LockTry, TryLock
<1>13. ASSUME NEW i \in Inst, LockReturns(i) PROVE CallInv'
  BY <1>13 DEF LockReturns
<1>14. ASSUME NEW i \in Inst, LockHeldStore(i) PROVE CallInv'
  BY <1>14 DEF LockHeldStore
<1>15. ASSUME NEW i \in Inst, StartupChecks(i) PROVE CallInv'
  BY <1>15 DEF StartupChecks
<1>16. ASSUME NEW i \in Inst, Started(i) PROVE CallInv'
  BY <1>16 DEF Started
<1>17. ASSUME NEW i \in Inst, StartupFails(i) PROVE CallInv'
  BY <1>17 DEF StartupFails
<1>18. ASSUME NEW i \in Inst, CleanupFailedStartup(i) PROVE CallInv'
  BY <1>18 DEF CleanupFailedStartup, UnlockRead, VerifyToken, Owns
<1>19. ASSUME NEW i \in Inst, CleanupUnlocked(i) PROVE CallInv'
  BY <1>19 DEF CleanupUnlocked
<1>20. ASSUME NEW i \in Inst, StartReturns(i) PROVE CallInv'
  BY <1>20 DEF StartReturns
<1>21. ASSUME NEW i \in Inst, Heartbeat(i) PROVE CallInv'
  BY <1>21 DEF Heartbeat, HeartbeatRead, Beating, VerifyToken, Owns
<1>22. ASSUME NEW i \in Inst, HeartbeatOk(i) PROVE CallInv'
  BY <1>22 DEF HeartbeatOk
<1>23. ASSUME NEW i \in Inst, SelfFence(i) PROVE CallInv'
  BY <1>23 DEF SelfFence
<1>24. ASSUME NEW i \in Inst, CronTick(i) PROVE CallInv'
  BY <1>24 DEF CronTick
<1>25. ASSUME NEW i \in Inst, CronTickEnds(i) PROVE CallInv'
  BY <1>25 DEF CronTickEnds
<1>26. ASSUME NEW i \in Inst, CronQuits(i) PROVE CallInv'
  BY <1>26 DEF CronQuits
<1>27. ASSUME NEW i \in Inst, StopReleases(i) PROVE CallInv'
  BY <1>27 DEF StopReleases, UnlockRead, VerifyToken, Owns
<1>28. ASSUME NEW i \in Inst, StopReturns(i) PROVE CallInv'
  BY <1>28 DEF StopReturns
<1>29. ASSUME NEW i \in Inst, StopBegins(i) PROVE CallInv'
  BY <1>29 DEF StopBegins
<1>30. ASSUME NEW i \in Inst, Signal(i) PROVE CallInv'
  BY <1>30 DEF Signal
<1>31. ASSUME NEW i \in Inst, Crash(i) PROVE CallInv'
  BY <1>31 DEF Crash, Die
<1>32. CASE UNCHANGED vars
  BY <1>32 DEF vars, lockVars, leaderVars
<1> QED
  BY <1>1, <1>2, <1>3, <1>4, <1>5, <1>6, <1>7, <1>8, <1>9, <1>10, <1>11, <1>12, <1>13, <1>14, <1>15, <1>16, <1>17, <1>18, <1>19, <1>20, <1>21, <1>22, <1>23, <1>24, <1>25, <1>26, <1>27, <1>28, <1>29, <1>30, <1>31, <1>32 DEF Next, CallStep, StartStep, BeatStep, StopStep, Finished

\* Every step keeps lockHeld and Stop in step.
LEMMA ReleaseStep ==
  ASSUME TypeOK, CallInv, TokenInv, ReleaseInv, [Next]_vars
  PROVE  ReleaseInv'
<1> USE DEF TypeOK, LockTypeOK, leaderVars, lockVars, Goto, To, IsHeld, CallInv, ReleaseInv, Locking, Past, Owns, VerifyToken
<1>1. CASE Age /\ UNCHANGED leaderVars
  BY <1>1 DEF Age
<1>2. ASSUME NEW i \in Inst, RemoveStaleOwner(i), UNCHANGED leaderVars PROVE ReleaseInv'
  BY <1>2, DirSteps DEF RemoveStaleOwner
<1>3. ASSUME NEW i \in Inst, RemoveStaleDir(i), UNCHANGED leaderVars PROVE ReleaseInv'
  BY <1>3 DEF RemoveStaleDir
<1>4. ASSUME NEW i \in Inst, Mkdir(i), UNCHANGED leaderVars PROVE ReleaseInv'
  BY <1>4, MkdirFacts
<1>5. ASSUME NEW i \in Inst, WriteToken(i), UNCHANGED leaderVars PROVE ReleaseInv'
  <2>1. CASE lockDir = NoDir
    BY <1>5, <2>1 DEF WriteToken
  <2>2. CASE lockDir # NoDir
    <3>1. UNCHANGED <<beat, takeover, faults>>
      BY <1>5 DEF WriteToken
    <3> QED
      BY <1>5, <2>2, <3>1, WriteFacts
  <2> QED
    BY <2>1, <2>2
<1>6. ASSUME NEW i \in Inst, CleanOwner(i), UNCHANGED leaderVars PROVE ReleaseInv'
  BY <1>6, DirSteps DEF CleanOwner
<1>7. ASSUME NEW i \in Inst, CleanDir(i), UNCHANGED leaderVars PROVE ReleaseInv'
  BY <1>7 DEF CleanDir
<1>8. ASSUME NEW i \in Inst, HeartbeatTouch(i), UNCHANGED leaderVars PROVE ReleaseInv'
  BY <1>8 DEF HeartbeatTouch
<1>9. ASSUME NEW i \in Inst, UnlockOwner(i), UNCHANGED leaderVars PROVE ReleaseInv'
  BY <1>9, DirSteps DEF UnlockOwner
<1>10. ASSUME NEW i \in Inst, UnlockDir(i), UNCHANGED leaderVars PROVE ReleaseInv'
  BY <1>10 DEF UnlockDir
<1>11. ASSUME NEW i \in Inst, Start(i) PROVE ReleaseInv'
  BY <1>11 DEF Start
<1>12. ASSUME NEW i \in Inst, LockTry(i) PROVE ReleaseInv'
  BY <1>12 DEF LockTry, TryLock
<1>13. ASSUME NEW i \in Inst, LockReturns(i) PROVE ReleaseInv'
  BY <1>13 DEF LockReturns
<1>14. ASSUME NEW i \in Inst, LockHeldStore(i) PROVE ReleaseInv'
  BY <1>14 DEF LockHeldStore
<1>15. ASSUME NEW i \in Inst, StartupChecks(i) PROVE ReleaseInv'
  BY <1>15 DEF StartupChecks
<1>16. ASSUME NEW i \in Inst, Started(i) PROVE ReleaseInv'
  BY <1>16 DEF Started
<1>17. ASSUME NEW i \in Inst, StartupFails(i) PROVE ReleaseInv'
  BY <1>17 DEF StartupFails
<1>18. ASSUME NEW i \in Inst, CleanupFailedStartup(i) PROVE ReleaseInv'
  BY <1>18 DEF CleanupFailedStartup, UnlockRead
<1>19. ASSUME NEW i \in Inst, CleanupUnlocked(i) PROVE ReleaseInv'
  BY <1>19 DEF CleanupUnlocked
<1>20. ASSUME NEW i \in Inst, StartReturns(i) PROVE ReleaseInv'
  BY <1>20 DEF StartReturns
<1>21. ASSUME NEW i \in Inst, Heartbeat(i) PROVE ReleaseInv'
  BY <1>21 DEF Heartbeat, HeartbeatRead, Beating
<1>22. ASSUME NEW i \in Inst, HeartbeatOk(i) PROVE ReleaseInv'
  BY <1>22 DEF HeartbeatOk
<1>23. ASSUME NEW i \in Inst, SelfFence(i) PROVE ReleaseInv'
  BY <1>23 DEF SelfFence
<1>24. ASSUME NEW i \in Inst, CronTick(i) PROVE ReleaseInv'
  BY <1>24 DEF CronTick
<1>25. ASSUME NEW i \in Inst, CronTickEnds(i) PROVE ReleaseInv'
  BY <1>25 DEF CronTickEnds
<1>26. ASSUME NEW i \in Inst, CronQuits(i) PROVE ReleaseInv'
  BY <1>26 DEF CronQuits
<1>27. ASSUME NEW i \in Inst, StopReleases(i) PROVE ReleaseInv'
  BY <1>27 DEF StopReleases, UnlockRead
<1>28. ASSUME NEW i \in Inst, StopReturns(i) PROVE ReleaseInv'
  BY <1>28 DEF StopReturns
<1>29. ASSUME NEW i \in Inst, StopBegins(i) PROVE ReleaseInv'
  BY <1>29 DEF StopBegins
<1>30. ASSUME NEW i \in Inst, Signal(i) PROVE ReleaseInv'
  BY <1>30 DEF Signal
<1>31. ASSUME NEW i \in Inst, Crash(i) PROVE ReleaseInv'
  BY <1>31 DEF Crash, Die
<1>32. CASE UNCHANGED vars
  BY <1>32 DEF vars, lockVars, leaderVars
<1> QED
  BY <1>1, <1>2, <1>3, <1>4, <1>5, <1>6, <1>7, <1>8, <1>9, <1>10, <1>11, <1>12, <1>13, <1>14, <1>15, <1>16, <1>17, <1>18, <1>19, <1>20, <1>21, <1>22, <1>23, <1>24, <1>25, <1>26, <1>27, <1>28, <1>29, <1>30, <1>31, <1>32 DEF Next, CallStep, StartStep, BeatStep, StopStep, Finished

\* Every step keeps the maker alone.
LEMMA MakerStep ==
  ASSUME TypeOK, CallInv, ReleaseInv, MakerInv, [Next]_vars
  PROVE  MakerInv'
<1> USE DEF TypeOK, LockTypeOK, leaderVars, lockVars, Goto, To, IsHeld, CallInv, ReleaseInv, MakerInv, Maker, Locking, Past, Owns, VerifyToken
<1>1. CASE Age /\ UNCHANGED leaderVars
  <2>1. lockDir # NoDir /\ lockDir' # NoDir /\ lockDir'.owner = lockDir.owner
    BY <1>1, FreshenFacts DEF Age
  <2>2. UNCHANGED <<pc, fenceToken, res, beat, takeover, phase, quit>>
    BY <1>1 DEF Age
  <2> QED
    BY <2>1, <2>2
<1>2. ASSUME NEW i \in Inst, RemoveStaleOwner(i), UNCHANGED leaderVars PROVE MakerInv'
  BY <1>2 DEF RemoveStaleOwner
<1>3. ASSUME NEW i \in Inst, RemoveStaleDir(i), UNCHANGED leaderVars PROVE MakerInv'
  BY <1>3 DEF RemoveStaleDir
<1>4. ASSUME NEW i \in Inst, Mkdir(i), UNCHANGED leaderVars PROVE MakerInv'
  BY <1>4, MkdirFacts
<1>5. ASSUME NEW i \in Inst, WriteToken(i), UNCHANGED leaderVars PROVE MakerInv'
  <2>1. CASE lockDir = NoDir
    BY <1>5, <2>1 DEF WriteToken
  <2>2. CASE lockDir # NoDir
    <3>1. UNCHANGED <<takeover, phase, quit>> /\ pc[i] = "write"
      BY <1>5 DEF WriteToken
    <3>2. SUFFICES ASSUME ~takeover PROVE MakerInv'
      BY <3>1
    <3>3. \A j \in Inst : Maker(j) => j = i
      BY <3>1, <3>2
    <3> QED
      BY <1>5, <2>2, <3>1, <3>2, <3>3, WriteFacts
  <2> QED
    BY <2>1, <2>2
<1>6. ASSUME NEW i \in Inst, CleanOwner(i), UNCHANGED leaderVars PROVE MakerInv'
  BY <1>6 DEF CleanOwner
<1>7. ASSUME NEW i \in Inst, CleanDir(i), UNCHANGED leaderVars PROVE MakerInv'
  BY <1>7 DEF CleanDir
<1>8. ASSUME NEW i \in Inst, HeartbeatTouch(i), UNCHANGED leaderVars PROVE MakerInv'
  <2>1. lockDir # NoDir => lockDir' # NoDir /\ lockDir'.owner = lockDir.owner
    BY <1>8, FreshenFacts DEF HeartbeatTouch
  <2>2. lockDir = NoDir => lockDir' = NoDir
    BY <1>8 DEF HeartbeatTouch
  <2>3. pc[i] = "touch" /\ pc' = [pc EXCEPT ![i] = "idle"]
    BY <1>8 DEF HeartbeatTouch
  <2>4. UNCHANGED <<fenceToken, res, takeover, phase, quit>>
    BY <1>8 DEF HeartbeatTouch
  <2> QED
    BY <2>1, <2>2, <2>3, <2>4
<1>9. ASSUME NEW i \in Inst, UnlockOwner(i), UNCHANGED leaderVars PROVE MakerInv'
  BY <1>9, DirSteps DEF UnlockOwner
<1>10. ASSUME NEW i \in Inst, UnlockDir(i), UNCHANGED leaderVars PROVE MakerInv'
  BY <1>10 DEF UnlockDir, Removable
<1>11. ASSUME NEW i \in Inst, Start(i) PROVE MakerInv'
  BY <1>11 DEF Start
<1>12. ASSUME NEW i \in Inst, LockTry(i) PROVE MakerInv'
  BY <1>12 DEF LockTry, TryLock
<1>13. ASSUME NEW i \in Inst, LockReturns(i) PROVE MakerInv'
  BY <1>13 DEF LockReturns
<1>14. ASSUME NEW i \in Inst, LockHeldStore(i) PROVE MakerInv'
  BY <1>14 DEF LockHeldStore
<1>15. ASSUME NEW i \in Inst, StartupChecks(i) PROVE MakerInv'
  BY <1>15 DEF StartupChecks
<1>16. ASSUME NEW i \in Inst, Started(i) PROVE MakerInv'
  BY <1>16 DEF Started
<1>17. ASSUME NEW i \in Inst, StartupFails(i) PROVE MakerInv'
  BY <1>17 DEF StartupFails
<1>18. ASSUME NEW i \in Inst, CleanupFailedStartup(i) PROVE MakerInv'
  BY <1>18 DEF CleanupFailedStartup, UnlockRead
<1>19. ASSUME NEW i \in Inst, CleanupUnlocked(i) PROVE MakerInv'
  BY <1>19 DEF CleanupUnlocked
<1>20. ASSUME NEW i \in Inst, StartReturns(i) PROVE MakerInv'
  BY <1>20 DEF StartReturns
<1>21. ASSUME NEW i \in Inst, Heartbeat(i) PROVE MakerInv'
  BY <1>21 DEF Heartbeat, HeartbeatRead, Beating
<1>22. ASSUME NEW i \in Inst, HeartbeatOk(i) PROVE MakerInv'
  BY <1>22 DEF HeartbeatOk
<1>23. ASSUME NEW i \in Inst, SelfFence(i) PROVE MakerInv'
  BY <1>23 DEF SelfFence
<1>24. ASSUME NEW i \in Inst, CronTick(i) PROVE MakerInv'
  BY <1>24 DEF CronTick
<1>25. ASSUME NEW i \in Inst, CronTickEnds(i) PROVE MakerInv'
  BY <1>25 DEF CronTickEnds
<1>26. ASSUME NEW i \in Inst, CronQuits(i) PROVE MakerInv'
  BY <1>26 DEF CronQuits
<1>27. ASSUME NEW i \in Inst, StopReleases(i) PROVE MakerInv'
  BY <1>27 DEF StopReleases, UnlockRead
<1>28. ASSUME NEW i \in Inst, StopReturns(i) PROVE MakerInv'
  BY <1>28 DEF StopReturns
<1>29. ASSUME NEW i \in Inst, StopBegins(i) PROVE MakerInv'
  BY <1>29 DEF StopBegins
<1>30. ASSUME NEW i \in Inst, Signal(i) PROVE MakerInv'
  BY <1>30 DEF Signal
<1>31. ASSUME NEW i \in Inst, Crash(i) PROVE MakerInv'
  BY <1>31 DEF Crash, Die
<1>32. CASE UNCHANGED vars
  BY <1>32 DEF vars, lockVars, leaderVars
<1> QED
  BY <1>1, <1>2, <1>3, <1>4, <1>5, <1>6, <1>7, <1>8, <1>9, <1>10, <1>11, <1>12, <1>13, <1>14, <1>15, <1>16, <1>17, <1>18, <1>19, <1>20, <1>21, <1>22, <1>23, <1>24, <1>25, <1>26, <1>27, <1>28, <1>29, <1>30, <1>31, <1>32 DEF Next, CallStep, StartStep, BeatStep, StopStep, Finished

-----------------------------------------------------------------------------
(* The lock, seen through its directory and its tokens *)

\* A token is written.
Takes(i) ==
  /\ ~IsHeld(i)
  /\ lockDir' # NoDir /\ lockDir'.owner # NoToken
  /\ fenceToken' = [fenceToken EXCEPT ![i] = lockDir'.owner]
  /\ \A j \in Inst : fenceToken[j] # lockDir'.owner

\* The directory loses its token, or is removed without one, or is made.
Clears ==
  /\ UNCHANGED fenceToken
  /\ lockDir' # NoDir => lockDir'.owner = NoToken

\* An instance drops a token that is not the directory's.
Drops(i) ==
  /\ ~Owns(i)
  /\ fenceToken' = [fenceToken EXCEPT ![i] = NoToken]
  /\ \/ lockDir' = lockDir
     \/ Removable /\ lockDir' = NoDir

\* An instance dies.
Ends(i) ==
  /\ crashed'
  /\ fenceToken' = [fenceToken EXCEPT ![i] = NoToken]
  /\ lockDir' = lockDir

\* Neither the directory's token nor an instance's changes.
Keeps ==
  /\ UNCHANGED fenceToken
  /\ lockDir' = NoDir <=> lockDir = NoDir
  /\ lockDir # NoDir => lockDir'.owner = lockDir.owner

LockMove == Clears \/ Keeps \/ \E i \in Inst : Takes(i) \/ Drops(i) \/ Ends(i)

\* Every step of a scheduler does one of these five things to the lock.
LEMMA LockMoves ==
  ASSUME TypeOK, CallInv, ReleaseInv, [Next]_vars
  PROVE  LockMove
<1>1. ASSUME UNCHANGED <<lockDir, fenceToken>> PROVE LockMove
  BY <1>1 DEF LockMove, Keeps
<1>2. CASE Age
  BY <1>2, FreshenFacts DEF Age, LockMove, Keeps, TypeOK
<1>3. ASSUME NEW i \in Inst, CallStep(i) PROVE LockMove
  <2>1. CASE RemoveStaleOwner(i) \/ CleanOwner(i) \/ UnlockOwner(i)
    BY <2>1, DirSteps
       DEF RemoveStaleOwner, CleanOwner, UnlockOwner, LockMove, Clears, TypeOK
  <2>2. CASE RemoveStaleDir(i) \/ CleanDir(i)
    <3>1. CASE lockDir' = NoDir
      BY <2>2, <3>1 DEF RemoveStaleDir, CleanDir, LockMove, Clears
    <3>2. CASE lockDir' = lockDir
      BY <1>1, <2>2, <3>2 DEF RemoveStaleDir, CleanDir
    <3> QED
      BY <2>2, <3>1, <3>2 DEF RemoveStaleDir, CleanDir
  <2>3. CASE Mkdir(i)
    BY <2>3, MkdirFacts DEF LockMove, Clears, Keeps
  <2>4. CASE WriteToken(i)
    <3>1. CASE lockDir = NoDir
      BY <1>1, <2>4, <3>1 DEF WriteToken
    <3>2. CASE lockDir # NoDir
      BY <2>4, <3>2, WriteFacts DEF LockMove, Takes
    <3> QED
      BY <3>1, <3>2
  <2>5. CASE HeartbeatTouch(i)
    BY <2>5, FreshenFacts DEF HeartbeatTouch, LockMove, Keeps, TypeOK
  <2>6. CASE UnlockDir(i)
    <3>1. CASE Removable
      <4>1. ~Owns(i)
        BY <3>1 DEF Removable, Owns, IsHeld
      <4> QED
        BY <2>6, <3>1, <4>1 DEF UnlockDir, LockMove, Drops
    <3>2. CASE ~Removable
      <4>1. fenceToken' = [fenceToken EXCEPT ![i] = fenceToken[i]] /\ lockDir' = lockDir
        BY <2>6, <3>2 DEF UnlockDir
      <4> QED
        BY <1>1, <4>1 DEF TypeOK, LockTypeOK
    <3> QED
      BY <3>1, <3>2
  <2> QED
    BY <1>3, <2>1, <2>2, <2>3, <2>4, <2>5, <2>6 DEF CallStep
<1>4. ASSUME NEW i \in Inst, UnlockRead(i) \/ HeartbeatRead(i) PROVE LockMove
  <2>1. CASE VerifyToken(i)
    BY <1>1, <1>4, <2>1 DEF UnlockRead, HeartbeatRead
  <2>2. CASE ~VerifyToken(i)
    BY <1>4, <2>2 DEF UnlockRead, HeartbeatRead, VerifyToken, LockMove, Drops
  <2> QED
    BY <2>1, <2>2
<1>5. ASSUME NEW i \in Inst, StartStep(i) \/ StartupFails(i) PROVE LockMove
  <2>1. \/ UNCHANGED <<lockDir, fenceToken>>
        \/ UnlockRead(i)
    BY <1>5 DEF StartStep, Start, LockTry, TryLock, LockReturns, LockHeldStore,
         StartupChecks, Started, StartupFails, CleanupFailedStartup,
         CleanupUnlocked, StartReturns, lockVars
  <2> QED
    BY <1>1, <1>4, <2>1
<1>6. ASSUME NEW i \in Inst, BeatStep(i) PROVE LockMove
  <2>1. UNCHANGED <<lockDir, fenceToken>> \/ HeartbeatRead(i)
    BY <1>6 DEF BeatStep, Heartbeat, HeartbeatOk, SelfFence
  <2> QED
    BY <1>1, <1>4, <2>1
<1>7. ASSUME NEW i \in Inst, StopStep(i) PROVE LockMove
  <2>1. UNCHANGED <<lockDir, fenceToken>> \/ UnlockRead(i)
    BY <1>7 DEF StopStep, StopReleases, StopReturns, lockVars
  <2> QED
    BY <1>1, <1>4, <2>1
<1>8. ASSUME NEW i \in Inst,
             CronTick(i) \/ CronTickEnds(i) \/ CronQuits(i) \/ StopBegins(i) \/ Signal(i)
      PROVE  LockMove
  BY <1>1, <1>8 DEF CronTick, CronTickEnds, CronQuits, StopBegins, Signal, lockVars
<1>9. ASSUME NEW i \in Inst, Crash(i) PROVE LockMove
  BY <1>9 DEF Crash, Die, LockMove, Ends
<1>10. CASE UNCHANGED vars
  BY <1>1, <1>10 DEF vars, lockVars
<1> QED
  BY <1>2, <1>3, <1>5, <1>6, <1>7, <1>8, <1>9, <1>10 DEF Next, Finished

\* Every step leaves the tokens different.
LEMMA TokenStep ==
  ASSUME TypeOK, CallInv, ReleaseInv, TokenInv, [Next]_vars
  PROVE  TokenInv'
<1> USE DEF TypeOK, LockTypeOK, TokenInv, IsHeld
<1>1. CASE Clears \/ Keeps
  BY <1>1 DEF Clears, Keeps
<1>2. ASSUME NEW i \in Inst, Takes(i) PROVE TokenInv'
  BY <1>2 DEF Takes
<1>3. ASSUME NEW i \in Inst, Drops(i) \/ Ends(i) PROVE TokenInv'
  BY <1>3 DEF Drops, Ends
<1> QED
  BY <1>1, <1>2, <1>3, LockMoves DEF LockMove


\* Every step leaves a directory somebody minds, as long as nobody dies.
LEMMA OrphanStep ==
  ASSUME TypeOK, CallInv, ReleaseInv, OrphanInv, [Next]_vars
  PROVE  OrphanInv'
<1> DEFINE Minds == {"write", "staleDir", "cleanDir", "unlockDir"}
<1>1. crashed => crashed'
  BY DEF Next, CallStep, StartStep, BeatStep, StopStep, Finished, leaderVars, vars,
       Start, LockTry, LockReturns, LockHeldStore, StartupChecks, Started,
       StartupFails, CleanupFailedStartup, CleanupUnlocked, StartReturns,
       Heartbeat, HeartbeatOk, SelfFence, CronTick, CronTickEnds, CronQuits,
       StopReleases, StopReturns, StopBegins, Signal, Crash
<1>2. SUFFICES ASSUME ~crashed', lockDir' # NoDir PROVE OrphanInv'
  BY DEF OrphanInv
<1>3. CASE lockDir'.owner # NoToken
  <2>1. SUFFICES \E i \in Inst : fenceToken'[i] = lockDir'.owner
    BY <1>3 DEF OrphanInv
  <2>2. CASE Keeps
    BY <1>1, <1>2, <1>3, <2>2 DEF Keeps, OrphanInv
  <2>3. ASSUME NEW i \in Inst, Takes(i)
        PROVE  \E j \in Inst : fenceToken'[j] = lockDir'.owner
    BY <2>3 DEF Takes, TypeOK, LockTypeOK
  <2>4. ASSUME NEW i \in Inst, Drops(i)
        PROVE  \E j \in Inst : fenceToken'[j] = lockDir'.owner
    <3>1. lockDir' = lockDir
      BY <1>2, <2>4 DEF Drops
    <3>2. PICK j \in Inst : fenceToken[j] = lockDir.owner
      BY <1>1, <1>2, <1>3, <3>1 DEF OrphanInv
    <3>3. j # i
      BY <1>2, <1>3, <2>4, <3>1, <3>2 DEF Drops, Owns, IsHeld
    <3> QED
      BY <2>4, <3>1, <3>2, <3>3 DEF Drops, TypeOK, LockTypeOK
  <2> QED
    BY <1>2, <1>3, <2>2, <2>3, <2>4, LockMoves DEF LockMove, Clears, Ends
<1>4. CASE lockDir'.owner = NoToken
  <2>1. SUFFICES \E i \in Inst : pc'[i] \in Minds
    BY <1>4 DEF OrphanInv
  <2>2. ASSUME UNCHANGED pc, lockDir' = lockDir
        PROVE  \E j \in Inst : pc'[j] \in Minds
    BY <1>1, <1>2, <1>4, <2>2 DEF OrphanInv
  <2>3. ASSUME NEW i \in Inst, NEW l, pc[i] \notin Minds, lockDir' = lockDir,
               pc' = [pc EXCEPT ![i] = l]
        PROVE  \E j \in Inst : pc'[j] \in Minds
    <3>1. PICK j \in Inst : pc[j] \in Minds
      BY <1>1, <1>2, <1>4, <2>3 DEF OrphanInv
    <3> QED
      BY <2>3, <3>1 DEF TypeOK, LockTypeOK
  <2>4. CASE Age /\ UNCHANGED leaderVars
    <3>1. lockDir # NoDir /\ lockDir.owner = NoToken /\ UNCHANGED pc
      BY <1>4, <2>4, FreshenFacts DEF Age, TypeOK
    <3> QED
      BY <1>1, <1>2, <3>1 DEF OrphanInv
  <2>5. ASSUME NEW i \in Inst, CallStep(i)
        PROVE  \E j \in Inst : pc'[j] \in Minds
    <3> USE DEF Goto, TypeOK, LockTypeOK
    <3>1. CASE RemoveStaleOwner(i) \/ UnlockOwner(i) \/ CleanOwner(i)
      BY <3>1 DEF RemoveStaleOwner, UnlockOwner, CleanOwner
    <3>2. CASE RemoveStaleDir(i) \/ CleanDir(i) \/ UnlockDir(i)
      BY <1>2, <1>4, <3>2 DEF RemoveStaleDir, CleanDir, UnlockDir, Removable
    <3>3. CASE Mkdir(i)
      <4>1. CASE pc' = [pc EXCEPT ![i] = "write"]
        BY <4>1
      <4>2. CASE pc' = [pc EXCEPT ![i] = "idle"] /\ UNCHANGED lockDir
        BY <2>3, <3>3, <4>2, MkdirFacts
      <4> QED
        BY <3>3, <4>1, <4>2, MkdirFacts
    <3>4. CASE WriteToken(i)
      <4>1. lockDir # NoDir
        BY <1>2, <3>4 DEF WriteToken
      <4> QED
        BY <1>4, <3>4, <4>1, WriteFacts
    <3>5. CASE HeartbeatTouch(i)
      <4>1. /\ lockDir # NoDir /\ lockDir.owner = NoToken
            /\ pc[i] = "touch" /\ pc' = [pc EXCEPT ![i] = "idle"]
        BY <1>2, <1>4, <3>5, FreshenFacts DEF HeartbeatTouch
      <4>2. PICK j \in Inst : pc[j] \in Minds
        BY <1>1, <1>2, <4>1 DEF OrphanInv
      <4> QED
        BY <4>1, <4>2
    <3> QED
      BY <2>5, <3>1, <3>2, <3>3, <3>4, <3>5 DEF CallStep
  <2>6. ASSUME NEW i \in Inst, UnlockRead(i) \/ HeartbeatRead(i) \/ TryLock(i)
        PROVE  \E j \in Inst : pc'[j] \in Minds
    <3>1. /\ lockDir' = lockDir /\ pc[i] = "idle"
          /\ \/ UNCHANGED pc
             \/ pc' = [pc EXCEPT ![i] = "unlockOwner"]
             \/ pc' = [pc EXCEPT ![i] = "touch"]
             \/ pc' = [pc EXCEPT ![i] = "mkdir"]
             \/ pc' = [pc EXCEPT ![i] = "staleOwner"]
      BY <2>6 DEF UnlockRead, HeartbeatRead, TryLock, Goto
    <3> QED
      BY <2>2, <2>3, <3>1
  <2>7. ASSUME NEW i \in Inst, StartStep(i) \/ StartupFails(i)
        PROVE  \E j \in Inst : pc'[j] \in Minds
    <3>1. UNCHANGED <<lockDir, pc>> \/ UnlockRead(i) \/ TryLock(i)
      BY <2>7 DEF StartStep, Start, LockTry, LockReturns, LockHeldStore,
           StartupChecks, Started, StartupFails, CleanupFailedStartup,
           CleanupUnlocked, StartReturns, lockVars
    <3> QED
      BY <2>2, <2>6, <3>1
  <2>8. ASSUME NEW i \in Inst, BeatStep(i) \/ StopStep(i)
        PROVE  \E j \in Inst : pc'[j] \in Minds
    <3>1. UNCHANGED <<lockDir, pc>> \/ HeartbeatRead(i) \/ UnlockRead(i)
      BY <2>8 DEF BeatStep, Heartbeat, HeartbeatOk, SelfFence,
           StopStep, StopReleases, StopReturns, lockVars
    <3> QED
      BY <2>2, <2>6, <3>1
  <2>9. ASSUME NEW i \in Inst,
               CronTick(i) \/ CronTickEnds(i) \/ CronQuits(i) \/ StopBegins(i) \/ Signal(i)
        PROVE  \E j \in Inst : pc'[j] \in Minds
    BY <2>2, <2>9 DEF CronTick, CronTickEnds, CronQuits, StopBegins, Signal, lockVars
  <2>10. CASE UNCHANGED vars
    BY <2>2, <2>10 DEF vars, lockVars
  <2> QED
    BY <1>2, <2>4, <2>5, <2>7, <2>8, <2>9, <2>10 DEF Next, Finished, Crash
<1> QED
  BY <1>3, <1>4

-----------------------------------------------------------------------------
(* The theorems *)

\* The invariant holds when every process is down.
LEMMA InitInv == Init => IInv
<1> SUFFICES ASSUME Init PROVE IInv
  OBVIOUS
<1> USE DirAssumption DEF Init, LockInit, DirAssumption, IsHeld, Locking, Past
<1>1. TypeOK
  <2>1. LockTypeOK
    <3>1. lockDir = NoDir /\ takeover \in BOOLEAN
      OBVIOUS
    <3>2. faults = 0 /\ MaxFaults \in Nat
      OBVIOUS
    <3>3. faults \in 0..MaxFaults
      BY <3>2
    <3>4. /\ pc \in [Inst -> {"idle"}] /\ fenceToken \in [Inst -> Token \cup {NoToken}]
          /\ res \in [Inst -> {"none"}] /\ beat \in [Inst -> {"none"}]
      OBVIOUS
    <3> QED
      BY <3>1, <3>3, <3>4 DEF LockTypeOK
  <2>2. \A i \in Inst : res[i] = "none"
    OBVIOUS
  <2>3. /\ lockHeld \in [Inst -> BOOLEAN] /\ quit \in [Inst -> BOOLEAN]
        /\ crashed \in BOOLEAN
    OBVIOUS
  <2>4. /\ phase \in [Inst -> {"down"}] /\ stop \in [Inst -> {"none"}]
        /\ cron \in [Inst -> {"off"}]
    OBVIOUS
  <2> QED
    BY <2>1, <2>2, <2>3, <2>4 DEF TypeOK
<1>2. CallInv /\ TokenInv
  BY DEF CallInv, TokenInv
<1>3. MakerInv
  BY DEF MakerInv, Maker
<1>4. ReleaseInv /\ OrphanInv
  BY DEF ReleaseInv, OrphanInv, Owns
<1> QED
  BY <1>1, <1>2, <1>3, <1>4 DEF IInv

\* It is inductive.
LEMMA StepInv == IInv /\ [Next]_vars => IInv'
BY TypeStep, CallStepInv, TokenStep, MakerStep, ReleaseStep, OrphanStep DEF IInv

\* So it holds always.
LEMMA Invariant == Spec => []IInv
BY InitInv, StepInv, PTL DEF Spec

\* The directory lock and the schedulers keep their types, for any number of
\* schedulers, tokens and faults.
THEOREM LeaderTypeCorrect == Spec => []TypeOK
<1>1. IInv => TypeOK
  BY DEF IInv
<1> QED
  BY <1>1, Invariant, PTL

\* However many schedulers try, no two of them believe in the lock unless
\* one took over a lock it had found stale.
THEOREM HoldersExcluded == Spec => []TwoHoldersMeansTakeover
<1>1. IInv => TwoHoldersMeansTakeover
  BY DEF IInv, MakerInv, Maker, TwoHoldersMeansTakeover
<1> QED
  BY <1>1, Invariant, PTL

\* However many schedulers run, two of them are in a tick of their cron loops
\* only after a takeover or when one of them has been told to quit.
THEOREM TicksExcluded == Spec => []TwoTicksExplained
<1>1. IInv => TwoTicksExplained
  BY DEF IInv, TypeOK, MakerInv, Maker, ReleaseInv, TwoTicksExplained
<1> QED
  BY <1>1, Invariant, PTL

\* Unless a process dies, no scheduler that has ended leaves a lock behind,
\* whenever Stop came and whatever failed.
THEOREM LocksAreMinded == Spec => []NoOrphanLock
<1>1. IInv => NoOrphanLock
  <2> SUFFICES ASSUME IInv, ~crashed, lockDir # NoDir
               PROVE  \E i \in Inst : (Alive(i) /\ Owns(i)) \/ pc[i] # "idle"
    BY DEF NoOrphanLock
  <2>1. CASE lockDir.owner = NoToken
    BY <2>1 DEF IInv, OrphanInv
  <2>2. CASE lockDir.owner # NoToken
    <3>1. PICK i \in Inst : fenceToken[i] = lockDir.owner
      BY <2>2 DEF IInv, OrphanInv
    <3>2. Owns(i)
      BY <2>2, <3>1 DEF Owns, IsHeld
    <3> QED
      BY <3>2 DEF IInv, TypeOK, ReleaseInv, Past, Alive
  <2> QED
    BY <2>1, <2>2
<1> QED
  BY <1>1, Invariant, PTL

-----------------------------------------------------------------------------
(* The refinement *)

\* The owner of the abstract lock is the instance whose token is in the
\* directory: there is at most one.
OwnerFacts ==
  /\ \A i \in Inst : Owns(i) <=> Owner = i
  /\ (\A i \in Inst : ~Owns(i)) <=> Owner = NoInst
  /\ Owner \in Inst \cup {NoInst}

\* Different instances never have the same token, so OwnerFacts holds.
LEMMA OwnerIs == TokenInv => OwnerFacts
<1> SUFFICES ASSUME TokenInv PROVE OwnerFacts
  OBVIOUS
<1> USE DEF OwnerFacts
<1>1. \A i, j \in Inst : Owns(i) /\ Owns(j) => i = j
  BY DEF TokenInv, Owns, IsHeld
<1>2. CASE \E i \in Inst : Owns(i)
  <2>1. Owner \in Inst /\ Owns(Owner)
    BY <1>2 DEF Owner
  <2> QED
    BY <1>1, <2>1, LeaderAssumption DEF LeaderAssumption
<1>3. CASE ~\E i \in Inst : Owns(i)
  BY <1>3, LeaderAssumption DEF Owner, LeaderAssumption
<1> QED
  BY <1>2, <1>3

\* So every step of the schedulers is one of the fenced lock, or none.
LEMMA FencedStep ==
  ASSUME IInv, IInv', [Next]_vars
  PROVE  [Fenced!Next]_<<Owner, {i \in Inst : IsHeld(i)}>>
<1> DEFINE Held == {i \in Inst : IsHeld(i)}
<1>1. OwnerFacts /\ OwnerFacts'
  <2>1. TokenInv /\ TokenInv'
    BY DEF IInv
  <2> QED
    BY <2>1, OwnerIs, PTL
<1>2. ASSUME \A i \in Inst : Owns(i)' <=> Owns(i) PROVE Owner' = Owner
  BY <1>1, <1>2 DEF OwnerFacts
<1>3. ASSUME \A i \in Inst : ~Owns(i)' PROVE Owner' = NoInst
  BY <1>1, <1>3 DEF OwnerFacts
<1>4. CASE Keeps
  <2>1. \A i \in Inst : Owns(i)' <=> Owns(i)
    BY <1>4 DEF Keeps, Owns, IsHeld
  <2>2. Held' = Held
    BY <1>4 DEF Keeps, IsHeld
  <2> QED
    BY <1>2, <2>1, <2>2
<1>5. CASE Clears
  <2>1. \A i \in Inst : ~Owns(i)'
    BY <1>5 DEF Clears, Owns, IsHeld
  <2>2. Held' = Held
    BY <1>5 DEF Clears, IsHeld
  <2> QED
    BY <1>3, <2>1, <2>2 DEF Fenced!Next, Fenced!Expire
<1>6. ASSUME NEW i \in Inst, Takes(i) PROVE Fenced!Next
  <2> USE DEF IInv, TypeOK, LockTypeOK
  <2>1. Owns(i)'
    BY <1>6 DEF Takes, Owns, IsHeld
  <2>2. Owner' = i
    BY <1>1, <2>1 DEF OwnerFacts
  <2>3. Held' = Held \cup {i} /\ i \notin Held
    BY <1>6 DEF Takes, IsHeld
  <2> QED
    BY <2>2, <2>3 DEF Fenced!Next, Fenced!Acquire
<1>7. ASSUME NEW i \in Inst, ~Owns(i), Drops(i) \/ Ends(i)
      PROVE  Fenced!Next \/ (Owner' = Owner /\ Held' = Held)
  <2> USE DEF IInv, TypeOK, LockTypeOK
  <2>1. \A j \in Inst : Owns(j)' <=> Owns(j)
    <3>1. CASE lockDir' = lockDir
      BY <1>7, <3>1 DEF Drops, Ends, Owns, IsHeld
    <3>2. CASE Removable /\ lockDir' = NoDir
      BY <3>2 DEF Removable, Owns, IsHeld
    <3> QED
      BY <1>7, <3>1, <3>2 DEF Drops, Ends
  <2>2. Owner' = Owner
    BY <1>2, <2>1
  <2>3. Held' = Held \ {i}
    BY <1>7 DEF Drops, Ends, IsHeld
  <2>4. Owner # i
    BY <1>1, <1>7 DEF OwnerFacts
  <2>5. CASE i \in Held
    <3>1. Fenced!Fence(i)
      BY <2>2, <2>3, <2>4, <2>5 DEF Fenced!Fence
    <3> QED
      BY <3>1 DEF Fenced!Next
  <2>6. CASE i \notin Held
    BY <2>2, <2>3, <2>6
  <2> QED
    BY <2>5, <2>6
<1>8. ASSUME NEW i \in Inst, Owns(i), Ends(i) PROVE Fenced!Next
  <2> USE DEF IInv, TypeOK, LockTypeOK
  <2>1. Owner = i
    BY <1>1, <1>8 DEF OwnerFacts
  <2>2. \A j \in Inst : ~Owns(j)'
    BY <1>8 DEF Ends, Owns, IsHeld, TokenInv
  <2>3. Owner' = NoInst
    BY <1>3, <2>2
  <2>4. Held' = Held \ {i}
    BY <1>8 DEF Ends, IsHeld
  <2> QED
    BY <2>1, <2>3, <2>4 DEF Fenced!Next, Fenced!Release
<1>9. LockMove
  BY LockMoves DEF IInv
<1> QED
  BY <1>4, <1>5, <1>6, <1>7, <1>8, <1>9 DEF LockMove, Drops

\* For any number of schedulers the directory lock implements the fenced
\* lock: one owner at a time, and who has lost the lock can only notice.
THEOREM LeaderImplementsFencedLock == Spec => ImplementsFencedLock
<1>1. Init => Fenced!Init
  <2> SUFFICES ASSUME Init PROVE Fenced!Init
    OBVIOUS
  <2>1. \A i \in Inst : ~IsHeld(i)
    BY DEF Init, LockInit, IsHeld
  <2>2. Owner = NoInst
    BY <2>1 DEF Owner, Owns
  <2> QED
    BY <2>1, <2>2 DEF Fenced!Init
<1>2. IInv /\ IInv' /\ [Next]_vars => [Fenced!Next]_<<Owner, {i \in Inst : IsHeld(i)}>>
  BY FencedStep
<1> QED
  BY <1>1, <1>2, Invariant, PTL DEF Spec, ImplementsFencedLock, Fenced!Spec

=============================================================================
