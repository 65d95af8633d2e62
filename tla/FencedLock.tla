----------------------------- MODULE FencedLock -----------------------------
(***************************************************************************)
(* What a directory lock promises its users.  It does not promise mutual   *)
(* exclusion: a lock may expire under its owner, and the owner goes on     *)
(* believing in it for a while.  It promises that there is one owner at a  *)
(* time, and that a claimant that has lost the ownership can only notice   *)
(* the loss: it never becomes the owner again without acquiring the lock   *)
(* anew.                                                                   *)
(***************************************************************************)
CONSTANTS Inst, NoInst

VARIABLES owner,      \* the instance the lock belongs to, or NoInst
          claimants   \* the instances that believe they hold it

Init ==
  /\ owner = NoInst
  /\ claimants = {}

\* The lock is taken by one that does not claim it, from whoever had it.
Acquire(i) ==
  /\ i \notin claimants
  /\ owner' = i
  /\ claimants' = claimants \cup {i}

\* The lock expires, is taken down or is given up under its owner.
Expire ==
  /\ owner' = NoInst
  /\ UNCHANGED claimants

\* A claimant that is not the owner (any more) notices, or ends.
Fence(i) ==
  /\ i \in claimants
  /\ owner # i
  /\ claimants' = claimants \ {i}
  /\ UNCHANGED owner

\* The owner ends.
Release(i) ==
  /\ owner = i
  /\ owner' = NoInst
  /\ claimants' = claimants \ {i}

Next ==
  \/ Expire
  \/ \E i \in Inst : Acquire(i) \/ Fence(i) \/ Release(i)

Spec == Init /\ [][Next]_<<owner, claimants>>
=============================================================================
