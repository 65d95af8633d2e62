---------------------- MODULE DispatchTaskStoreProofs ----------------------
(***************************************************************************)
(* Proofs about DispatchTaskStore: that no task is lost, for any number of *)
(* processes, workers, tasks and tokens, and that none is claimed or       *)
(* accepted twice where one process serves the store.                      *)
(***************************************************************************)
EXTENDS DispatchTaskStore, TLAPS

\* The states of an operation and of a worker's poller.
OpState ==
  [pc : {"idle", "recycle", "rewrite", "requeue", "pick", "stamp", "save"},
   worker : Worker \cup {NoWorker}, seen : SUBSET Token, left : SUBSET Task,
   token : Token \cup {NoToken}, task : Task \cup {NoTask}]

WorkState ==
  [pc : {"idle", "polling", "claimed", "found", "leased", "running"},
   proc : Proc \cup {NoWorker}, token : Token \cup {NoToken}, task : Task \cup {NoTask}]

\* The types of the variables that TypeOK leaves out.
StateInv ==
  /\ op \in [Proc -> OpState]
  /\ work \in [Worker -> WorkState]
  /\ used \subseteq Token
  /\ accepts \in [Task -> Nat]

\* Whoever has a token in hand got it from TakePending, with an enqueued task.
TokenInv ==
  /\ \A p \in Proc : op[p].token # NoToken =>
       op[p].token \in used /\ op[p].task \in enqueued
  /\ \A w \in Worker : work[w].token # NoToken =>
       work[w].token \in used /\ work[w].task \in enqueued

\* A token stands for one task, wherever it is: in a claim file, in the hands
\* of the operations that make or recycle the claim, and of workers.  This is
\* what makes a late rewrite or a late delete of a claim file harmless.
SameTaskInv ==
  /\ \A p \in Proc : op[p].token # NoToken /\ claim[op[p].token] # NoTask =>
       claim[op[p].token] = op[p].task
  /\ \A p, q \in Proc : op[p].token # NoToken /\ op[p].token = op[q].token =>
       op[p].task = op[q].task
  /\ \A w \in Worker : work[w].token # NoToken /\ claim[work[w].token] # NoTask =>
       claim[work[w].token] = work[w].task
  /\ \A p \in Proc, w \in Worker :
       op[p].token # NoToken /\ op[p].token = work[w].token => op[p].task = work[w].task

LostInv == TypeOK /\ StateInv /\ TokenInv /\ SameTaskInv /\ NoTaskLost

\* One process serves the store and workers acknowledge in time.
OneInTime == (\A p, q \in Proc : p = q) /\ ~LateAcks

\* Workers that may still acknowledge their claim.
Acking(w) == work[w].pc \in {"claimed", "found", "leased"}

\* Every task has one file at most, and none once it is acknowledged.
OneFileInv ==
  /\ \A j, k \in Files : claim[j] = claim[k] => j = k
  /\ \A k \in Files : claim[k] \notin pending \cup acked
  /\ pending \cap acked = {}

\* A claim is in the hands of one operation or one worker.
OneHolderInv ==
  /\ \A p \in Proc : op[p].token # NoToken =>
       /\ claim[op[p].token] = op[p].task
       /\ \A w \in Worker : Acking(w) => work[w].token # op[p].token
  /\ \A p \in Proc : op[p].pc \in {"requeue", "stamp", "save"} => op[p].token \notin stamped
  /\ \A p \in Proc : op[p].pc = "save" => op[p].token \notin oldClaim
  /\ \A w \in Worker : Acking(w) =>
       claim[work[w].token] = work[w].task /\ work[w].token \notin oldClaim
  /\ \A v, w \in Worker : Acking(v) /\ Acking(w) /\ work[v].token = work[w].token => v = w

\* A worker was told to run a task once, and only when it was acknowledged.
AcceptInv ==
  /\ \A t \in Task : accepts[t] > 0 => t \in acked
  /\ AtMostOnce

OnceInv == LostInv /\ OneFileInv /\ OneHolderInv /\ AcceptInv


\* Every step keeps the states of the operations and the pollers in their types.
LEMMA StateStep ==
  ASSUME TypeOK, StateInv, [Next]_vars
  PROVE  StateInv'
<1> USE StoreAssumption DEF StoreAssumption, StateInv, OpState, WorkState, IdleOp, IdleWork, files, Files
<1>1. ASSUME NEW t \in Task, Enqueue(t) PROVE StateInv'
  BY <1>1 DEF Enqueue
<1>2. ASSUME NEW t \in Task, AgePending(t) PROVE StateInv'
  BY <1>2 DEF AgePending
<1>3. ASSUME NEW p \in Proc, NEW k \in Token, ReadClaim(p, k) PROVE StateInv'
  <2>1. claim[k] \in Task \cup {NoTask}
    BY DEF TypeOK
  <2>2. CASE Expired(k)
    <3>1. op' = [op EXCEPT ![p] = [op[p] EXCEPT !.seen = op[p].seen \ {k}, !.pc = "rewrite",
                                               !.token = k, !.task = claim[k]]]
      BY <1>3, <2>2 DEF ReadClaim
    <3>2. op'[p] \in OpState
      <4>1. op[p] \in OpState /\ op[p].seen \ {k} \in SUBSET Token
        OBVIOUS
      <4> QED
        BY <2>1, <3>1, <4>1
    <3>3. \A q \in Proc : op'[q] \in OpState
      BY <3>1, <3>2
    <3> QED
      BY <1>3, <3>1, <3>3 DEF ReadClaim
  <2>3. CASE ~Expired(k)
    <3>1. op' = [op EXCEPT ![p] = [op[p] EXCEPT !.seen = op[p].seen \ {k}, !.pc = "recycle",
                                               !.token = NoToken, !.task = NoTask]]
      BY <1>3, <2>3 DEF ReadClaim
    <3>2. op'[p] \in OpState
      <4>1. op[p] \in OpState /\ op[p].seen \ {k} \in SUBSET Token
        OBVIOUS
      <4> QED
        BY <3>1, <4>1
    <3>3. \A q \in Proc : op'[q] \in OpState
      BY <3>1, <3>2
    <3> QED
      BY <1>3, <3>1, <3>3 DEF ReadClaim
  <2> QED
    BY <2>2, <2>3
<1>4. ASSUME NEW p \in Proc, RewriteClaim(p) PROVE StateInv'
  BY <1>4 DEF RewriteClaim, Cleared
<1>5. ASSUME NEW p \in Proc, RequeueClaim(p) PROVE StateInv'
  BY <1>5 DEF RequeueClaim, Requeued, RequeuedAge, Cleared, TypeOK
<1>6. ASSUME NEW p \in Proc, EndRecycle(p) PROVE StateInv'
  <2>1. pending \in SUBSET Task
    BY DEF TypeOK
  <2>2. CASE op' = [op EXCEPT ![p] = IdleOp]
    BY <1>6, <2>2 DEF EndRecycle
  <2>3. CASE op' = [op EXCEPT ![p] = [op[p] EXCEPT !.pc = "pick", !.left = pending]]
    <3>1. op'[p] \in OpState
      <4>1. op[p] \in OpState
        OBVIOUS
      <4> QED
        BY <2>1, <2>3, <4>1
    <3>2. \A q \in Proc : op'[q] \in OpState
      BY <2>3, <3>1
    <3> QED
      BY <1>6, <2>3, <3>2 DEF EndRecycle
  <2> QED
    BY <1>6, <2>2, <2>3 DEF EndRecycle
<1>7. ASSUME NEW p \in Proc, NEW t \in Task, SkipPending(p, t) PROVE StateInv'
  BY SMTT(30), <1>7 DEF SkipPending, NextPending
<1>8. ASSUME NEW p \in Proc, NEW t \in Task, NEW k \in Token, TakePending(p, t, k) PROVE StateInv'
  BY <1>8 DEF TakePending, Taken, NextPending, TypeOK
<1>9. ASSUME NEW p \in Proc, StampClaim(p) PROVE StateInv'
  BY SMTT(30), <1>9 DEF StampClaim
<1>10. ASSUME NEW p \in Proc, SaveClaim(p) PROVE StateInv'
  BY <1>10 DEF SaveClaim
<1>11. ASSUME NEW p \in Proc, SaveFails(p) PROVE StateInv'
  BY <1>11 DEF SaveFails, Requeued, RequeuedAge, Cleared
<1>12. ASSUME NEW p \in Proc, OpFails(p) PROVE StateInv'
  BY <1>12 DEF OpFails
<1>13. ASSUME NEW p \in Proc, NothingPending(p) PROVE StateInv'
  BY <1>13 DEF NothingPending
<1>14. ASSUME NEW p \in Proc, StartCount(p) PROVE StateInv'
  BY <1>14 DEF StartCount
<1>15. ASSUME NEW p \in Proc, CrashProc(p) PROVE StateInv'
  BY <1>15 DEF CrashProc
<1>16. ASSUME NEW p \in Proc, NEW w \in Worker, StartClaim(p, w) PROVE StateInv'
  BY <1>16 DEF StartClaim
<1>17. ASSUME NEW w \in Worker, GetClaim(w) PROVE StateInv'
  BY <1>17 DEF GetClaim, AckStep
<1>18. ASSUME NEW w \in Worker, UpsertLease(w) PROVE StateInv'
  BY <1>18 DEF UpsertLease, AckStep
<1>19. ASSUME NEW w \in Worker, DeleteClaim(w) PROVE StateInv'
  BY <1>19 DEF DeleteClaim, ClaimFreed, Cleared
<1>20. ASSUME NEW w \in Worker, Finish(w) PROVE StateInv'
  BY <1>20 DEF Finish
<1>21. ASSUME NEW w \in Worker, CrashWorker(w) PROVE StateInv'
  BY <1>21 DEF CrashWorker
<1>22. ASSUME NEW k \in Token, AgeClaim(k) PROVE StateInv'
  BY <1>22 DEF AgeClaim
<1>23. CASE UNCHANGED vars
  BY <1>23 DEF vars, files
<1> QED
  BY <1>1, <1>2, <1>3, <1>4, <1>5, <1>6, <1>7, <1>8, <1>9, <1>10, <1>11, <1>12, <1>13, <1>14, <1>15, <1>16, <1>17, <1>18, <1>19, <1>20, <1>21, <1>22, <1>23
     DEF Next, ProcStep, AckWork

\* Every step keeps the files in their types.
LEMMA TypeStep ==
  ASSUME TypeOK, StateInv, TokenInv, [Next]_vars
  PROVE  TypeOK'
<1> USE StoreAssumption DEF StoreAssumption, TypeOK, StateInv, TokenInv, OpState, WorkState, IdleOp, IdleWork, files, Files
<1>1. ASSUME NEW t \in Task, Enqueue(t) PROVE TypeOK'
  BY <1>1 DEF Enqueue
<1>2. ASSUME NEW t \in Task, AgePending(t) PROVE TypeOK'
  BY <1>2 DEF AgePending
<1>3. ASSUME NEW p \in Proc, NEW k \in Token, ReadClaim(p, k) PROVE TypeOK'
  BY <1>3 DEF ReadClaim, Expired
<1>4. ASSUME NEW p \in Proc, RewriteClaim(p) PROVE TypeOK'
  BY <1>4 DEF RewriteClaim, Cleared
<1>5. ASSUME NEW p \in Proc, RequeueClaim(p) PROVE TypeOK'
  BY <1>5 DEF RequeueClaim, Requeued, RequeuedAge, Cleared
<1>6. ASSUME NEW p \in Proc, EndRecycle(p) PROVE TypeOK'
  BY <1>6 DEF EndRecycle
<1>7. ASSUME NEW p \in Proc, NEW t \in Task, SkipPending(p, t) PROVE TypeOK'
  BY <1>7 DEF SkipPending, NextPending
<1>8. ASSUME NEW p \in Proc, NEW t \in Task, NEW k \in Token, TakePending(p, t, k) PROVE TypeOK'
  BY <1>8 DEF TakePending, Taken, NextPending
<1>9. ASSUME NEW p \in Proc, StampClaim(p) PROVE TypeOK'
  BY <1>9 DEF StampClaim
<1>10. ASSUME NEW p \in Proc, SaveClaim(p) PROVE TypeOK'
  <2>1. /\ op[p].pc = "save" /\ op[p].token \in Token /\ op[p].token # NoToken
        /\ op[p].task \in Task /\ op[p].task # NoTask
    BY <1>10 DEF SaveClaim
  <2>2. /\ claim' = [claim EXCEPT ![op[p].token] = op[p].task]
        /\ stamped' = stamped \cup {op[p].token}
        /\ op' = [op EXCEPT ![p] = IdleOp]
        /\ UNCHANGED <<enqueued, pending, oldPending, oldClaim, used, lease, acked, accepts>>
    BY <1>10 DEF SaveClaim
  <2>3. CASE work' = [work EXCEPT ![op[p].worker] = IdleWork]
    BY <2>1, <2>2, <2>3
  <2>4. CASE work' = [work EXCEPT ![op[p].worker] =
                        [pc |-> "claimed", proc |-> p, token |-> op[p].token,
                         task |-> op[p].task]]
    BY <2>1, <2>2, <2>4
  <2> QED
    BY <1>10, <2>3, <2>4 DEF SaveClaim
<1>11. ASSUME NEW p \in Proc, SaveFails(p) PROVE TypeOK'
  BY ZenonT(60), <1>11 DEF SaveFails, Requeued, RequeuedAge, Cleared
<1>12. ASSUME NEW p \in Proc, OpFails(p) PROVE TypeOK'
  BY <1>12 DEF OpFails
<1>13. ASSUME NEW p \in Proc, NothingPending(p) PROVE TypeOK'
  BY <1>13 DEF NothingPending
<1>14. ASSUME NEW p \in Proc, StartCount(p) PROVE TypeOK'
  BY <1>14 DEF StartCount
<1>15. ASSUME NEW p \in Proc, CrashProc(p) PROVE TypeOK'
  BY <1>15 DEF CrashProc
<1>16. ASSUME NEW p \in Proc, NEW w \in Worker, StartClaim(p, w) PROVE TypeOK'
  BY <1>16 DEF StartClaim
<1>17. ASSUME NEW w \in Worker, GetClaim(w) PROVE TypeOK'
  BY <1>17 DEF GetClaim, AckStep
<1>18. ASSUME NEW w \in Worker, UpsertLease(w) PROVE TypeOK'
  BY <1>18 DEF UpsertLease, AckStep
<1>19. ASSUME NEW w \in Worker, DeleteClaim(w) PROVE TypeOK'
  BY <1>19 DEF DeleteClaim, ClaimFreed, Cleared
<1>20. ASSUME NEW w \in Worker, Finish(w) PROVE TypeOK'
  BY <1>20 DEF Finish
<1>21. ASSUME NEW w \in Worker, CrashWorker(w) PROVE TypeOK'
  BY <1>21 DEF CrashWorker
<1>22. ASSUME NEW k \in Token, AgeClaim(k) PROVE TypeOK'
  BY <1>22 DEF AgeClaim
<1>23. CASE UNCHANGED vars
  BY <1>23 DEF vars, files
<1> QED
  BY <1>1, <1>2, <1>3, <1>4, <1>5, <1>6, <1>7, <1>8, <1>9, <1>10, <1>11, <1>12, <1>13, <1>14, <1>15, <1>16, <1>17, <1>18, <1>19, <1>20, <1>21, <1>22, <1>23
     DEF Next, ProcStep, AckWork

\* Tokens in hand stay tokens that were handed out.
LEMMA TokenStep ==
  ASSUME TypeOK, StateInv, TokenInv, [Next]_vars
  PROVE  TokenInv'
<1> USE StoreAssumption DEF StoreAssumption, TypeOK, StateInv, TokenInv, OpState, WorkState, IdleOp, IdleWork, files
<1>1. ASSUME NEW t \in Task, Enqueue(t) PROVE TokenInv'
  BY <1>1 DEF Enqueue
<1>2. ASSUME NEW t \in Task, AgePending(t) PROVE TokenInv'
  BY <1>2 DEF AgePending
<1>3. ASSUME NEW p \in Proc, NEW k \in Token, ReadClaim(p, k) PROVE TokenInv'
  BY <1>3 DEF ReadClaim, Expired
<1>4. ASSUME NEW p \in Proc, RewriteClaim(p) PROVE TokenInv'
  BY <1>4 DEF RewriteClaim, Cleared
<1>5. ASSUME NEW p \in Proc, RequeueClaim(p) PROVE TokenInv'
  BY <1>5 DEF RequeueClaim, Requeued, RequeuedAge, Cleared
<1>6. ASSUME NEW p \in Proc, EndRecycle(p) PROVE TokenInv'
  BY <1>6 DEF EndRecycle
<1>7. ASSUME NEW p \in Proc, NEW t \in Task, SkipPending(p, t) PROVE TokenInv'
  BY <1>7 DEF SkipPending, NextPending
<1>8. ASSUME NEW p \in Proc, NEW t \in Task, NEW k \in Token, TakePending(p, t, k) PROVE TokenInv'
  BY <1>8 DEF TakePending, Taken, NextPending
<1>9. ASSUME NEW p \in Proc, StampClaim(p) PROVE TokenInv'
  BY <1>9 DEF StampClaim
<1>10. ASSUME NEW p \in Proc, SaveClaim(p) PROVE TokenInv'
  <2>1. /\ op[p].pc = "save" /\ op[p].token \in Token /\ op[p].token # NoToken
        /\ op[p].task \in Task /\ op[p].task # NoTask
    BY <1>10 DEF SaveClaim
  <2>2. /\ claim' = [claim EXCEPT ![op[p].token] = op[p].task]
        /\ stamped' = stamped \cup {op[p].token}
        /\ op' = [op EXCEPT ![p] = IdleOp]
        /\ UNCHANGED <<enqueued, pending, oldPending, oldClaim, used, lease, acked, accepts>>
    BY <1>10 DEF SaveClaim
  <2>3. CASE work' = [work EXCEPT ![op[p].worker] = IdleWork]
    BY <2>1, <2>2, <2>3
  <2>4. CASE work' = [work EXCEPT ![op[p].worker] =
                        [pc |-> "claimed", proc |-> p, token |-> op[p].token,
                         task |-> op[p].task]]
    BY <2>1, <2>2, <2>4
  <2> QED
    BY <1>10, <2>3, <2>4 DEF SaveClaim
<1>11. ASSUME NEW p \in Proc, SaveFails(p) PROVE TokenInv'
  BY <1>11 DEF SaveFails, Requeued, RequeuedAge, Cleared
<1>12. ASSUME NEW p \in Proc, OpFails(p) PROVE TokenInv'
  BY <1>12 DEF OpFails
<1>13. ASSUME NEW p \in Proc, NothingPending(p) PROVE TokenInv'
  BY <1>13 DEF NothingPending
<1>14. ASSUME NEW p \in Proc, StartCount(p) PROVE TokenInv'
  BY <1>14 DEF StartCount
<1>15. ASSUME NEW p \in Proc, CrashProc(p) PROVE TokenInv'
  BY <1>15 DEF CrashProc
<1>16. ASSUME NEW p \in Proc, NEW w \in Worker, StartClaim(p, w) PROVE TokenInv'
  BY <1>16 DEF StartClaim
<1>17. ASSUME NEW w \in Worker, GetClaim(w) PROVE TokenInv'
  <2>1. work[w].pc = "claimed" /\ UNCHANGED <<enqueued, claim, stamped, used, op>>
    BY <1>17 DEF GetClaim
  <2>2. CASE work' = [work EXCEPT ![w] = IdleWork]
    BY <2>1, <2>2
  <2>3. CASE work' = [work EXCEPT ![w].pc = "found"]
    BY <2>1, <2>3
  <2> QED
    BY <1>17, <2>2, <2>3 DEF GetClaim, AckStep
<1>18. ASSUME NEW w \in Worker, UpsertLease(w) PROVE TokenInv'
  BY <1>18 DEF UpsertLease, AckStep
<1>19. ASSUME NEW w \in Worker, DeleteClaim(w) PROVE TokenInv'
  BY <1>19 DEF DeleteClaim, ClaimFreed, Cleared
<1>20. ASSUME NEW w \in Worker, Finish(w) PROVE TokenInv'
  BY <1>20 DEF Finish
<1>21. ASSUME NEW w \in Worker, CrashWorker(w) PROVE TokenInv'
  BY <1>21 DEF CrashWorker
<1>22. ASSUME NEW k \in Token, AgeClaim(k) PROVE TokenInv'
  BY <1>22 DEF AgeClaim
<1>23. CASE UNCHANGED vars
  BY <1>23 DEF vars, files
<1> QED
  BY <1>1, <1>2, <1>3, <1>4, <1>5, <1>6, <1>7, <1>8, <1>9, <1>10, <1>11, <1>12, <1>13, <1>14, <1>15, <1>16, <1>17, <1>18, <1>19, <1>20, <1>21, <1>22, <1>23
     DEF Next, ProcStep, AckWork

\* A token goes on standing for the same task, whoever holds it.
LEMMA SameTaskStep ==
  ASSUME TypeOK, StateInv, TokenInv, SameTaskInv, [Next]_vars
  PROVE  SameTaskInv'
<1> USE StoreAssumption DEF StoreAssumption, TypeOK, StateInv, TokenInv, SameTaskInv, OpState, WorkState, IdleOp, IdleWork, files, Files
<1>1. ASSUME NEW t \in Task, Enqueue(t) PROVE SameTaskInv'
  BY <1>1 DEF Enqueue
<1>2. ASSUME NEW t \in Task, AgePending(t) PROVE SameTaskInv'
  BY <1>2 DEF AgePending
<1>3. ASSUME NEW p \in Proc, NEW k \in Token, ReadClaim(p, k) PROVE SameTaskInv'
  <2>1. claim' = claim /\ work' = work
    BY <1>3 DEF ReadClaim
  <2>2. \A q \in Proc : q # p => op'[q] = op[q]
    BY <1>3 DEF ReadClaim
  <2>3. op'[p].token # NoToken =>
          op'[p].token = k /\ op'[p].task = claim[k] /\ claim[k] # NoTask
    BY <1>3 DEF ReadClaim, Expired
  <2> QED
    BY <2>1, <2>2, <2>3
<1>4. ASSUME NEW p \in Proc, RewriteClaim(p) PROVE SameTaskInv'
  BY <1>4 DEF RewriteClaim, Cleared
<1>5. ASSUME NEW p \in Proc, RequeueClaim(p) PROVE SameTaskInv'
  BY <1>5 DEF RequeueClaim, Requeued, RequeuedAge, Cleared
<1>6. ASSUME NEW p \in Proc, EndRecycle(p) PROVE SameTaskInv'
  BY <1>6 DEF EndRecycle
<1>7. ASSUME NEW p \in Proc, NEW t \in Task, SkipPending(p, t) PROVE SameTaskInv'
  BY <1>7 DEF SkipPending, NextPending
<1>8. ASSUME NEW p \in Proc, NEW t \in Task, NEW k \in Token, TakePending(p, t, k) PROVE SameTaskInv'
  BY <1>8 DEF TakePending, Taken, NextPending
<1>9. ASSUME NEW p \in Proc, StampClaim(p) PROVE SameTaskInv'
  BY <1>9 DEF StampClaim
<1>10. ASSUME NEW p \in Proc, SaveClaim(p) PROVE SameTaskInv'
  <2>1. /\ op[p].pc = "save" /\ op[p].token \in Token /\ op[p].token # NoToken
        /\ op[p].task \in Task /\ op[p].task # NoTask
    BY <1>10 DEF SaveClaim
  <2>2. /\ claim' = [claim EXCEPT ![op[p].token] = op[p].task]
        /\ stamped' = stamped \cup {op[p].token}
        /\ op' = [op EXCEPT ![p] = IdleOp]
        /\ UNCHANGED <<enqueued, pending, oldPending, oldClaim, used, lease, acked, accepts>>
    BY <1>10 DEF SaveClaim
  <2>3. CASE work' = [work EXCEPT ![op[p].worker] = IdleWork]
    BY <2>1, <2>2, <2>3
  <2>4. CASE work' = [work EXCEPT ![op[p].worker] =
                        [pc |-> "claimed", proc |-> p, token |-> op[p].token,
                         task |-> op[p].task]]
    BY <2>1, <2>2, <2>4
  <2> QED
    BY <1>10, <2>3, <2>4 DEF SaveClaim
<1>11. ASSUME NEW p \in Proc, SaveFails(p) PROVE SameTaskInv'
  BY <1>11 DEF SaveFails, Requeued, RequeuedAge, Cleared
<1>12. ASSUME NEW p \in Proc, OpFails(p) PROVE SameTaskInv'
  BY <1>12 DEF OpFails
<1>13. ASSUME NEW p \in Proc, NothingPending(p) PROVE SameTaskInv'
  BY <1>13 DEF NothingPending
<1>14. ASSUME NEW p \in Proc, StartCount(p) PROVE SameTaskInv'
  BY <1>14 DEF StartCount
<1>15. ASSUME NEW p \in Proc, CrashProc(p) PROVE SameTaskInv'
  BY <1>15 DEF CrashProc
<1>16. ASSUME NEW p \in Proc, NEW w \in Worker, StartClaim(p, w) PROVE SameTaskInv'
  BY <1>16 DEF StartClaim
<1>17. ASSUME NEW w \in Worker, GetClaim(w) PROVE SameTaskInv'
  <2>1. work[w].pc = "claimed" /\ UNCHANGED <<enqueued, claim, stamped, used, op>>
    BY <1>17 DEF GetClaim
  <2>2. CASE work' = [work EXCEPT ![w] = IdleWork]
    BY <2>1, <2>2
  <2>3. CASE work' = [work EXCEPT ![w].pc = "found"]
    BY <2>1, <2>3
  <2> QED
    BY <1>17, <2>2, <2>3 DEF GetClaim, AckStep
<1>18. ASSUME NEW w \in Worker, UpsertLease(w) PROVE SameTaskInv'
  BY <1>18 DEF UpsertLease, AckStep
<1>19. ASSUME NEW w \in Worker, DeleteClaim(w) PROVE SameTaskInv'
  BY SMTT(30), <1>19 DEF DeleteClaim, ClaimFreed, Cleared
<1>20. ASSUME NEW w \in Worker, Finish(w) PROVE SameTaskInv'
  BY <1>20 DEF Finish
<1>21. ASSUME NEW w \in Worker, CrashWorker(w) PROVE SameTaskInv'
  BY <1>21 DEF CrashWorker
<1>22. ASSUME NEW k \in Token, AgeClaim(k) PROVE SameTaskInv'
  BY <1>22 DEF AgeClaim
<1>23. CASE UNCHANGED vars
  BY <1>23 DEF vars, files
<1> QED
  BY <1>1, <1>2, <1>3, <1>4, <1>5, <1>6, <1>7, <1>8, <1>9, <1>10, <1>11, <1>12, <1>13, <1>14, <1>15, <1>16, <1>17, <1>18, <1>19, <1>20, <1>21, <1>22, <1>23
     DEF Next, ProcStep, AckWork

\* No step loses a task.
LEMMA LostStep ==
  ASSUME TypeOK, StateInv, TokenInv, SameTaskInv, NoTaskLost, [Next]_vars
  PROVE  NoTaskLost'
<1> USE StoreAssumption DEF StoreAssumption, TypeOK, StateInv, TokenInv, SameTaskInv, NoTaskLost, OpState, WorkState, files
<1>1. ASSUME NEW t \in Task, Enqueue(t) PROVE NoTaskLost'
  BY <1>1 DEF Enqueue
<1>2. ASSUME NEW t \in Task, AgePending(t) PROVE NoTaskLost'
  BY <1>2 DEF AgePending
<1>3. ASSUME NEW p \in Proc, NEW k \in Token, ReadClaim(p, k) PROVE NoTaskLost'
  BY <1>3 DEF ReadClaim, Expired
<1>4. ASSUME NEW p \in Proc, RewriteClaim(p) PROVE NoTaskLost'
  BY <1>4 DEF RewriteClaim, Cleared
<1>5. ASSUME NEW p \in Proc, RequeueClaim(p) PROVE NoTaskLost'
  BY <1>5 DEF RequeueClaim, Requeued, RequeuedAge, Cleared
<1>6. ASSUME NEW p \in Proc, EndRecycle(p) PROVE NoTaskLost'
  BY <1>6 DEF EndRecycle
<1>7. ASSUME NEW p \in Proc, NEW t \in Task, SkipPending(p, t) PROVE NoTaskLost'
  BY <1>7 DEF SkipPending, NextPending
<1>8. ASSUME NEW p \in Proc, NEW t \in Task, NEW k \in Token, TakePending(p, t, k) PROVE NoTaskLost'
  BY <1>8 DEF TakePending, Taken, NextPending
<1>9. ASSUME NEW p \in Proc, StampClaim(p) PROVE NoTaskLost'
  BY <1>9 DEF StampClaim
<1>10. ASSUME NEW p \in Proc, SaveClaim(p) PROVE NoTaskLost'
  BY <1>10 DEF SaveClaim
<1>11. ASSUME NEW p \in Proc, SaveFails(p) PROVE NoTaskLost'
  BY <1>11 DEF SaveFails, Requeued, RequeuedAge, Cleared
<1>12. ASSUME NEW p \in Proc, OpFails(p) PROVE NoTaskLost'
  BY <1>12 DEF OpFails
<1>13. ASSUME NEW p \in Proc, NothingPending(p) PROVE NoTaskLost'
  BY <1>13 DEF NothingPending
<1>14. ASSUME NEW p \in Proc, StartCount(p) PROVE NoTaskLost'
  BY <1>14 DEF StartCount
<1>15. ASSUME NEW p \in Proc, CrashProc(p) PROVE NoTaskLost'
  BY <1>15 DEF CrashProc
<1>16. ASSUME NEW p \in Proc, NEW w \in Worker, StartClaim(p, w) PROVE NoTaskLost'
  BY <1>16 DEF StartClaim
<1>17. ASSUME NEW w \in Worker, GetClaim(w) PROVE NoTaskLost'
  BY <1>17 DEF GetClaim, AckStep
<1>18. ASSUME NEW w \in Worker, UpsertLease(w) PROVE NoTaskLost'
  BY <1>18 DEF UpsertLease, AckStep
<1>19. ASSUME NEW w \in Worker, DeleteClaim(w) PROVE NoTaskLost'
  BY <1>19 DEF DeleteClaim, ClaimFreed, Cleared
<1>20. ASSUME NEW w \in Worker, Finish(w) PROVE NoTaskLost'
  BY <1>20 DEF Finish
<1>21. ASSUME NEW w \in Worker, CrashWorker(w) PROVE NoTaskLost'
  BY <1>21 DEF CrashWorker
<1>22. ASSUME NEW k \in Token, AgeClaim(k) PROVE NoTaskLost'
  BY <1>22 DEF AgeClaim
<1>23. CASE UNCHANGED vars
  BY <1>23 DEF vars, files
<1> QED
  BY <1>1, <1>2, <1>3, <1>4, <1>5, <1>6, <1>7, <1>8, <1>9, <1>10, <1>11, <1>12, <1>13, <1>14, <1>15, <1>16, <1>17, <1>18, <1>19, <1>20, <1>21, <1>22, <1>23
     DEF Next, ProcStep, AckWork

\* The invariant holds of an empty store.
LEMMA LostInit == Init => LostInv
<1> SUFFICES ASSUME Init PROVE LostInv
  OBVIOUS
<1> USE StoreAssumption DEF StoreAssumption, Init, IdleOp, IdleWork
<1>1. TypeOK
  BY DEF TypeOK, Files
<1>2. StateInv
  BY DEF StateInv, OpState, WorkState
<1>3. TokenInv /\ SameTaskInv /\ NoTaskLost
  BY DEF TokenInv, SameTaskInv, NoTaskLost
<1> QED
  BY <1>1, <1>2, <1>3 DEF LostInv

\* Every step of any process keeps the invariant behind NoTaskLost.
LEMMA LostNext == LostInv /\ [Next]_vars => LostInv'
BY TypeStep, StateStep, TokenStep, SameTaskStep, LostStep DEF LostInv

\* So it holds in every state, however many processes share the directory.
LEMMA LostInvariant == Spec => []LostInv
BY LostInit, LostNext, PTL DEF Spec

\* The store keeps its types, however many processes share it.
THEOREM StoreTypeCorrect == Spec => []TypeOK
<1>1. LostInv => TypeOK
  BY DEF LostInv
<1> QED
  BY <1>1, LostInvariant, PTL

\* An enqueued task that no worker has acknowledged has a file in pending/ or
\* in claims/, however many processes share the directories, whatever crashes
\* and however late workers acknowledge.
THEOREM TasksAreKept == Spec => []NoTaskLost
<1>1. LostInv => NoTaskLost
  BY DEF LostInv
<1> QED
  BY <1>1, LostInvariant, PTL

\* Where one process serves the store, no step makes a second file of a task.
LEMMA OneFileStep ==
  ASSUME OneInTime, LostInv, OneFileInv, OneHolderInv, [Next]_vars
  PROVE  OneFileInv'
<1> USE StoreAssumption DEF StoreAssumption, OneInTime, LostInv, TypeOK, StateInv, TokenInv, OneFileInv, OneHolderInv, Acking, OpState, WorkState, files, Files
<1>1. ASSUME NEW t \in Task, Enqueue(t) PROVE OneFileInv'
  BY <1>1 DEF Enqueue
<1>2. ASSUME NEW t \in Task, AgePending(t) PROVE OneFileInv'
  BY <1>2 DEF AgePending
<1>3. ASSUME NEW p \in Proc, NEW k \in Token, ReadClaim(p, k) PROVE OneFileInv'
  BY <1>3 DEF ReadClaim, Expired
<1>4. ASSUME NEW p \in Proc, RewriteClaim(p) PROVE OneFileInv'
  BY <1>4 DEF RewriteClaim, Cleared
<1>5. ASSUME NEW p \in Proc, RequeueClaim(p) PROVE OneFileInv'
  BY <1>5 DEF RequeueClaim, Requeued, RequeuedAge, Cleared
<1>6. ASSUME NEW p \in Proc, EndRecycle(p) PROVE OneFileInv'
  BY <1>6 DEF EndRecycle
<1>7. ASSUME NEW p \in Proc, NEW t \in Task, SkipPending(p, t) PROVE OneFileInv'
  BY <1>7 DEF SkipPending, NextPending
<1>8. ASSUME NEW p \in Proc, NEW t \in Task, NEW k \in Token, TakePending(p, t, k) PROVE OneFileInv'
  BY <1>8 DEF TakePending, Taken, NextPending
<1>9. ASSUME NEW p \in Proc, StampClaim(p) PROVE OneFileInv'
  BY <1>9 DEF StampClaim
<1>10. ASSUME NEW p \in Proc, SaveClaim(p) PROVE OneFileInv'
  BY <1>10 DEF SaveClaim
<1>11. ASSUME NEW p \in Proc, SaveFails(p) PROVE OneFileInv'
  <2> DEFINE k == op[p].token
  <2>1. k \in Token /\ claim[k] = op[p].task /\ claim[k] \in Task /\ claim[k] # NoTask
    <3>1. op[p].pc = "save" /\ k \in Token /\ k # NoToken
      BY <1>11 DEF SaveFails
    <3>2. claim[k] = op[p].task /\ op[p].task \in enqueued
      BY <3>1
    <3>3. enqueued \subseteq Task /\ NoTask \notin Task
      OBVIOUS
    <3> HIDE DEF LostInv, OneHolderInv, OneFileInv
    <3> QED
      BY <3>1, <3>2, <3>3
  <2>2. /\ pending' = pending \cup {claim[k]}
        /\ claim' = [claim EXCEPT ![k] = NoTask]
        /\ UNCHANGED acked
    BY <1>11, <2>1 DEF SaveFails, Requeued
  <2>3. \A j \in Token : j # k /\ claim[j] # NoTask => claim[j] # claim[k]
    BY <2>1
  <2>4. claim[k] \notin acked
    BY <2>1
  <2> HIDE DEF k
  <2>5. \A j \in Files' : j # k /\ j \in Files /\ claim'[j] = claim[j]
    BY <2>1, <2>2
  <2>6. \A i, j \in Files' : claim'[i] = claim'[j] => i = j
    BY <2>5
  <2>7. \A j \in Files' : claim'[j] \notin pending' \cup acked'
    BY <2>2, <2>3, <2>5
  <2>8. pending' \cap acked' = {}
    <3> HIDE DEF LostInv, OneHolderInv
    <3> QED
      BY <2>2, <2>4
  <2> QED
    BY <2>6, <2>7, <2>8
<1>12. ASSUME NEW p \in Proc, OpFails(p) PROVE OneFileInv'
  BY <1>12 DEF OpFails
<1>13. ASSUME NEW p \in Proc, NothingPending(p) PROVE OneFileInv'
  BY <1>13 DEF NothingPending
<1>14. ASSUME NEW p \in Proc, StartCount(p) PROVE OneFileInv'
  BY <1>14 DEF StartCount
<1>15. ASSUME NEW p \in Proc, CrashProc(p) PROVE OneFileInv'
  BY <1>15 DEF CrashProc
<1>16. ASSUME NEW p \in Proc, NEW w \in Worker, StartClaim(p, w) PROVE OneFileInv'
  BY <1>16 DEF StartClaim
<1>17. ASSUME NEW w \in Worker, GetClaim(w) PROVE OneFileInv'
  BY <1>17 DEF GetClaim, AckStep
<1>18. ASSUME NEW w \in Worker, UpsertLease(w) PROVE OneFileInv'
  BY <1>18 DEF UpsertLease, AckStep
<1>19. ASSUME NEW w \in Worker, DeleteClaim(w) PROVE OneFileInv'
  BY <1>19 DEF DeleteClaim, ClaimFreed, Cleared
<1>20. ASSUME NEW w \in Worker, Finish(w) PROVE OneFileInv'
  BY <1>20 DEF Finish
<1>21. ASSUME NEW w \in Worker, CrashWorker(w) PROVE OneFileInv'
  BY <1>21 DEF CrashWorker
<1>22. ASSUME NEW k \in Token, AgeClaim(k) PROVE OneFileInv'
  BY <1>22 DEF AgeClaim
<1>23. CASE UNCHANGED vars
  BY <1>23 DEF vars, files
<1> QED
  BY <1>1, <1>2, <1>3, <1>4, <1>5, <1>6, <1>7, <1>8, <1>9, <1>10, <1>11, <1>12, <1>13, <1>14, <1>15, <1>16, <1>17, <1>18, <1>19, <1>20, <1>21, <1>22, <1>23
     DEF Next, ProcStep, AckWork

\* Where one process serves the store, a claim stays in one pair of hands.
LEMMA OneHolderStep ==
  ASSUME OneInTime, LostInv, OneFileInv, OneHolderInv, [Next]_vars
  PROVE  OneHolderInv'
<1> USE StoreAssumption DEF StoreAssumption, OneInTime, LostInv, TypeOK, StateInv, TokenInv, OneHolderInv, Acking, OpState, WorkState, IdleOp, IdleWork, files, Files
<1>1. ASSUME NEW t \in Task, Enqueue(t) PROVE OneHolderInv'
  BY <1>1 DEF Enqueue
<1>2. ASSUME NEW t \in Task, AgePending(t) PROVE OneHolderInv'
  BY <1>2 DEF AgePending
<1>3. ASSUME NEW p \in Proc, NEW k \in Token, ReadClaim(p, k) PROVE OneHolderInv'
  BY SMTT(30), <1>3 DEF ReadClaim, Expired
<1>4. ASSUME NEW p \in Proc, RewriteClaim(p) PROVE OneHolderInv'
  BY <1>4 DEF RewriteClaim, Cleared
<1>5. ASSUME NEW p \in Proc, RequeueClaim(p) PROVE OneHolderInv'
  BY <1>5 DEF RequeueClaim, Requeued, RequeuedAge, Cleared
<1>6. ASSUME NEW p \in Proc, EndRecycle(p) PROVE OneHolderInv'
  BY <1>6 DEF EndRecycle
<1>7. ASSUME NEW p \in Proc, NEW t \in Task, SkipPending(p, t) PROVE OneHolderInv'
  BY <1>7 DEF SkipPending, NextPending
<1>8. ASSUME NEW p \in Proc, NEW t \in Task, NEW k \in Token, TakePending(p, t, k) PROVE OneHolderInv'
  BY <1>8 DEF TakePending, Taken, NextPending
<1>9. ASSUME NEW p \in Proc, StampClaim(p) PROVE OneHolderInv'
  BY <1>9 DEF StampClaim
<1>10. ASSUME NEW p \in Proc, SaveClaim(p) PROVE OneHolderInv'
  <2>1. /\ op[p].pc = "save" /\ op[p].token \in Token /\ op[p].token # NoToken
        /\ op[p].task \in Task /\ op[p].task # NoTask
    BY <1>10 DEF SaveClaim
  <2>2. /\ claim' = [claim EXCEPT ![op[p].token] = op[p].task]
        /\ stamped' = stamped \cup {op[p].token}
        /\ op' = [op EXCEPT ![p] = IdleOp]
        /\ UNCHANGED <<enqueued, pending, oldPending, oldClaim, used, lease, acked, accepts>>
    BY <1>10 DEF SaveClaim
  <2>3. CASE work' = [work EXCEPT ![op[p].worker] = IdleWork]
    BY <2>1, <2>2, <2>3
  <2>4. CASE work' = [work EXCEPT ![op[p].worker] =
                        [pc |-> "claimed", proc |-> p, token |-> op[p].token,
                         task |-> op[p].task]]
    BY <2>1, <2>2, <2>4
  <2> QED
    BY <1>10, <2>3, <2>4 DEF SaveClaim
<1>11. ASSUME NEW p \in Proc, SaveFails(p) PROVE OneHolderInv'
  BY <1>11 DEF SaveFails, Requeued, RequeuedAge, Cleared
<1>12. ASSUME NEW p \in Proc, OpFails(p) PROVE OneHolderInv'
  BY <1>12 DEF OpFails
<1>13. ASSUME NEW p \in Proc, NothingPending(p) PROVE OneHolderInv'
  BY <1>13 DEF NothingPending
<1>14. ASSUME NEW p \in Proc, StartCount(p) PROVE OneHolderInv'
  BY <1>14 DEF StartCount
<1>15. ASSUME NEW p \in Proc, CrashProc(p) PROVE OneHolderInv'
  BY <1>15 DEF CrashProc
<1>16. ASSUME NEW p \in Proc, NEW w \in Worker, StartClaim(p, w) PROVE OneHolderInv'
  BY <1>16 DEF StartClaim
<1>17. ASSUME NEW w \in Worker, GetClaim(w) PROVE OneHolderInv'
  <2>1. work[w].pc = "claimed" /\ UNCHANGED <<enqueued, claim, stamped, oldClaim, used, op>>
    BY <1>17 DEF GetClaim, files
  <2>2. CASE work' = [work EXCEPT ![w] = IdleWork]
    BY <2>1, <2>2
  <2>3. CASE work' = [work EXCEPT ![w].pc = "found"]
    BY <2>1, <2>3
  <2> QED
    BY <1>17, <2>2, <2>3 DEF GetClaim, AckStep
<1>18. ASSUME NEW w \in Worker, UpsertLease(w) PROVE OneHolderInv'
  BY <1>18 DEF UpsertLease, AckStep
<1>19. ASSUME NEW w \in Worker, DeleteClaim(w) PROVE OneHolderInv'
  <2> DEFINE k == work[w].token
  <2>1. k \in Token /\ k # NoToken /\ Acking(w) /\ work[w].task \in Task
        /\ claim[k] = work[w].task /\ work[w].task # NoTask
    BY <1>19 DEF DeleteClaim
  <2>2. /\ claim' = [claim EXCEPT ![k] = NoTask]
        /\ stamped' = stamped \ {k} /\ oldClaim' = oldClaim \ {k}
        /\ UNCHANGED op
    BY <1>19 DEF DeleteClaim, ClaimFreed, Cleared
  <2>3. \A v \in Worker : v # w /\ Acking(v) => work[v].token # k
    BY <2>1
  <2>4. \A p \in Proc : op[p].token # k
    BY <2>1
  <2>5. \A v \in Worker : v # w => work'[v] = work[v]
    BY <1>19 DEF DeleteClaim
  <2>6. work'[w].pc \notin {"claimed", "found", "leased"}
    BY <1>19 DEF DeleteClaim
  <2> HIDE DEF k
  <2> QED
    BY <2>1, <2>2, <2>3, <2>4, <2>5, <2>6
<1>20. ASSUME NEW w \in Worker, Finish(w) PROVE OneHolderInv'
  BY <1>20 DEF Finish
<1>21. ASSUME NEW w \in Worker, CrashWorker(w) PROVE OneHolderInv'
  BY <1>21 DEF CrashWorker
<1>22. ASSUME NEW k \in Token, AgeClaim(k) PROVE OneHolderInv'
  BY <1>22 DEF AgeClaim, Held
<1>23. CASE UNCHANGED vars
  BY <1>23 DEF vars, files
<1> QED
  BY <1>1, <1>2, <1>3, <1>4, <1>5, <1>6, <1>7, <1>8, <1>9, <1>10, <1>11, <1>12, <1>13, <1>14, <1>15, <1>16, <1>17, <1>18, <1>19, <1>20, <1>21, <1>22, <1>23
     DEF Next, ProcStep, AckWork

\* Where one process serves the store, no step lets a second worker in.
LEMMA AcceptStep ==
  ASSUME OneInTime, LostInv, OneFileInv, OneHolderInv, AcceptInv, [Next]_vars
  PROVE  AcceptInv'
<1> USE StoreAssumption DEF StoreAssumption, LostInv, TypeOK, StateInv, TokenInv, OneFileInv, OneHolderInv, AcceptInv, AtMostOnce, Acking, OpState, WorkState, files, Files
<1>1. ASSUME NEW t \in Task, Enqueue(t) PROVE AcceptInv'
  BY <1>1 DEF Enqueue
<1>2. ASSUME NEW t \in Task, AgePending(t) PROVE AcceptInv'
  BY <1>2 DEF AgePending
<1>3. ASSUME NEW p \in Proc, NEW k \in Token, ReadClaim(p, k) PROVE AcceptInv'
  BY <1>3 DEF ReadClaim, Expired
<1>4. ASSUME NEW p \in Proc, RewriteClaim(p) PROVE AcceptInv'
  BY <1>4 DEF RewriteClaim, Cleared
<1>5. ASSUME NEW p \in Proc, RequeueClaim(p) PROVE AcceptInv'
  BY <1>5 DEF RequeueClaim, Requeued, RequeuedAge, Cleared
<1>6. ASSUME NEW p \in Proc, EndRecycle(p) PROVE AcceptInv'
  BY <1>6 DEF EndRecycle
<1>7. ASSUME NEW p \in Proc, NEW t \in Task, SkipPending(p, t) PROVE AcceptInv'
  BY <1>7 DEF SkipPending, NextPending
<1>8. ASSUME NEW p \in Proc, NEW t \in Task, NEW k \in Token, TakePending(p, t, k) PROVE AcceptInv'
  BY <1>8 DEF TakePending, Taken, NextPending
<1>9. ASSUME NEW p \in Proc, StampClaim(p) PROVE AcceptInv'
  BY <1>9 DEF StampClaim
<1>10. ASSUME NEW p \in Proc, SaveClaim(p) PROVE AcceptInv'
  BY <1>10 DEF SaveClaim
<1>11. ASSUME NEW p \in Proc, SaveFails(p) PROVE AcceptInv'
  BY <1>11 DEF SaveFails, Requeued, RequeuedAge, Cleared
<1>12. ASSUME NEW p \in Proc, OpFails(p) PROVE AcceptInv'
  BY <1>12 DEF OpFails
<1>13. ASSUME NEW p \in Proc, NothingPending(p) PROVE AcceptInv'
  BY <1>13 DEF NothingPending
<1>14. ASSUME NEW p \in Proc, StartCount(p) PROVE AcceptInv'
  BY <1>14 DEF StartCount
<1>15. ASSUME NEW p \in Proc, CrashProc(p) PROVE AcceptInv'
  BY <1>15 DEF CrashProc
<1>16. ASSUME NEW p \in Proc, NEW w \in Worker, StartClaim(p, w) PROVE AcceptInv'
  BY <1>16 DEF StartClaim
<1>17. ASSUME NEW w \in Worker, GetClaim(w) PROVE AcceptInv'
  BY <1>17 DEF GetClaim, AckStep
<1>18. ASSUME NEW w \in Worker, UpsertLease(w) PROVE AcceptInv'
  BY <1>18 DEF UpsertLease, AckStep
<1>19. ASSUME NEW w \in Worker, DeleteClaim(w) PROVE AcceptInv'
  <2>1. /\ work[w].token \in Token /\ work[w].task \in Task
        /\ claim[work[w].token] = work[w].task /\ work[w].task # NoTask
    BY <1>19 DEF DeleteClaim
  <2>2. work[w].task \notin acked
    <3>1. work[w].token \in Files
      BY <2>1
    <3> QED
      BY <2>1, <3>1
  <2>3. accepts[work[w].task] = 0
    <3>1. accepts[work[w].task] \in Nat
      BY <2>1
    <3> HIDE DEF LostInv, OneHolderInv, OneFileInv
    <3>2. work[w].task \in Task
      BY <2>1
    <3>3. \A t \in Task : accepts[t] > 0 => t \in acked
      OBVIOUS
    <3>4. ~(accepts[work[w].task] > 0)
      BY <2>2, <3>2, <3>3
    <3> QED
      BY <3>1, <3>4
  <2>4. acked' = acked \cup {work[w].task}
    BY <1>19 DEF DeleteClaim
  <2>5. CASE UNCHANGED accepts
    BY <2>4, <2>5
  <2>6. CASE accepts' = [accepts EXCEPT ![work[w].task] = @ + 1]
    BY <2>1, <2>3, <2>4, <2>6
  <2> QED
    BY <1>19, <2>5, <2>6 DEF DeleteClaim
<1>20. ASSUME NEW w \in Worker, Finish(w) PROVE AcceptInv'
  BY <1>20 DEF Finish
<1>21. ASSUME NEW w \in Worker, CrashWorker(w) PROVE AcceptInv'
  BY <1>21 DEF CrashWorker
<1>22. ASSUME NEW k \in Token, AgeClaim(k) PROVE AcceptInv'
  BY <1>22 DEF AgeClaim
<1>23. CASE UNCHANGED vars
  BY <1>23 DEF vars, files
<1> QED
  BY <1>1, <1>2, <1>3, <1>4, <1>5, <1>6, <1>7, <1>8, <1>9, <1>10, <1>11, <1>12, <1>13, <1>14, <1>15, <1>16, <1>17, <1>18, <1>19, <1>20, <1>21, <1>22, <1>23
     DEF Next, ProcStep, AckWork

\* Every invariant holds of an empty store.
LEMMA OnceInit == Init => OnceInv
<1> SUFFICES ASSUME Init PROVE OnceInv
  OBVIOUS
<1> USE StoreAssumption DEF StoreAssumption, Init, IdleOp, IdleWork
<1>1. OneFileInv
  BY DEF OneFileInv, Files
<1>2. OneHolderInv
  BY DEF OneHolderInv, Acking
<1>3. AcceptInv
  BY DEF AcceptInv, AtMostOnce
<1> QED
  BY <1>1, <1>2, <1>3, LostInit DEF OnceInv

\* With one process and timely acknowledgements every step keeps the stronger
\* invariant.
LEMMA OnceNext == OneInTime /\ OnceInv /\ [Next]_vars => OnceInv'
BY LostNext, OneFileStep, OneHolderStep, AcceptStep DEF OnceInv

\* So it holds in every state of such a deployment.
LEMMA OnceInvariant ==
  ASSUME OneInTime
  PROVE  Spec => []OnceInv
<1>1. OnceInv /\ [Next]_vars => OnceInv'
  BY OnceNext
<1> QED
  BY <1>1, OnceInit, PTL DEF Spec

\* Where one process serves the store and workers acknowledge in time, a
\* complete claim that has not expired is its task's only file, for any number
\* of tasks and workers and whatever crashes.
THEOREM ClaimsHide ==
  ASSUME OneInTime
  PROVE  Spec => []ClaimHidesTask
<1>1. OnceInv => ClaimHidesTask
  BY DEF OnceInv, LostInv, TypeOK, OneFileInv, ClaimHidesTask
<1> QED
  BY <1>1, OnceInvariant, PTL

\* Under the same conditions no task is handed to a worker twice.
THEOREM AcceptedOnce ==
  ASSUME OneInTime
  PROVE  Spec => []AtMostOnce
<1>1. OnceInv => AtMostOnce
  BY DEF OnceInv, AcceptInv
<1> QED
  BY <1>1, OnceInvariant, PTL

=============================================================================
