------------------------- MODULE MCSchedulerLeader -------------------------
(***************************************************************************)
(* Small instances of SchedulerLeader: two processes and a third token.    *)
(***************************************************************************)
EXTENDS SchedulerLeader
=============================================================================
