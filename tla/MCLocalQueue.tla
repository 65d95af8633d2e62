---------------------------- MODULE MCLocalQueue ----------------------------
(* A queue with one slot.  Faults, automatic retries and commands of users are *)
(* combined two by two.                                                        *)
EXTENDS LocalQueue

PairsOfCauses ==
  { [retries |-> <<0>>, faults |-> 1, commands |-> 1],
    [retries |-> <<0>>, faults |-> 2, commands |-> 0],
    [retries |-> <<1>>, faults |-> 0, commands |-> 2],
    [retries |-> <<1>>, faults |-> 1, commands |-> 0],
    [retries |-> <<0, 0>>, faults |-> 1, commands |-> 0],
    [retries |-> <<0, 0>>, faults |-> 0, commands |-> 2] }

RetryThenDequeue == { [retries |-> <<0>>, faults |-> 0, commands |-> 2] }
=============================================================================
