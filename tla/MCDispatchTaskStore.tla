------------------------ MODULE MCDispatchTaskStore ------------------------
(***************************************************************************)
(* Small instances of DispatchTaskStore.                                   *)
(***************************************************************************)
EXTENDS DispatchTaskStore, TLC

CONSTANTS w1, w2

\* The second worker's labels match every task, the first one's all but task 2.
Labels == (w1 :> Task \ {2}) @@ (w2 :> Task)

\* Tokens and processes are interchangeable; neither is compared or ordered.
Symmetric == Permutations(Token) \cup Permutations(Proc)

=============================================================================
