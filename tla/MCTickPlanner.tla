--------------------------- MODULE MCTickPlanner ---------------------------
(***************************************************************************)
(* Small instances of TickPlanner.                                         *)
(***************************************************************************)
EXTENDS TickPlanner

Base == [start |-> {2, 3}, stop |-> {}, restart |-> {}, oneOff |-> 0, window |-> 3,
         policy |-> "all", skipIfSuccessful |-> FALSE]

\* Catch-up under each policy, and live, one-off, stop and restart schedules.
Mixed == { Base,
           [Base EXCEPT !.policy = "latest"],
           [Base EXCEPT !.start = {1, 2, 3}, !.policy = "skip"],
           [Base EXCEPT !.start = {2}, !.oneOff = 2, !.policy = "skip", !.skipIfSuccessful = TRUE],
           [Base EXCEPT !.window = 0, !.stop = {3}, !.restart = {3}] }

CatchUp == {Base}
=============================================================================
