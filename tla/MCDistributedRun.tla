-------------------------- MODULE MCDistributedRun --------------------------
(***************************************************************************)
(* Small instances of DistributedRun.                                      *)
(***************************************************************************)
EXTENDS DistributedRun

\* How a worker's run may end: with a result, or waiting for an approval.
Endings == {"Succeeded", "Waiting"}

\* One attempt that meets two faults, or an attempt that is superseded.
FaultsOrRetry == { [attempts |-> 1, finals |-> Endings, faults |-> 2],
                   [attempts |-> 2, finals |-> {"Succeeded"}, faults |-> 0] }

OneFault == { [attempts |-> 1, finals |-> Endings, faults |-> 1] }
=============================================================================
