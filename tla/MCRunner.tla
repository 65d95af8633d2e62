------------------------------ MODULE MCRunner ------------------------------
(***************************************************************************)
(* Plans for model-checking Runner.  Every plan is over the model values   *)
(* s1 .. s5, listed in that order.                                         *)
(***************************************************************************)
EXTENDS Runner, TLC

CONSTANTS s1, s2, s3, s4, s5

\* All steps succeed and nothing else happens to them.
Calm == [n \in Node |-> {"ok"}]

None == [n \in Node |-> 0]

\* runtime.NewPlan: every node is NotStarted.
Fresh == {[n \in Node |-> "NotStarted"]}

Seq4 == <<s1, s2, s3, s4>>

\* Two roots, a join, and a step behind the join.
JoinDeps == (s1 :> <<>>) @@ (s2 :> <<>>) @@ (s3 :> <<s1, s2>>) @@ (s4 :> <<s3>>)

\* The same, and a third root for the two slots.
ThreeRootsDeps == JoinDeps @@ (s5 :> <<>>)

JoinOutcomes == (s1 :> {"ok", "error"}) @@ (s2 :> {"ok", "skip", "fatalExit"})
                @@ (s3 :> {"ok", "prepareError", "error"}) @@ (s4 :> {"ok"})

RetryA == [n \in Node |-> IF n = s1 THEN 1 ELSE 0]

\* A sub-DAG step and a step with an approval gate before the join, which may
\* panic, and beside them a repeated step with a timeout and a failing teardown.
GateOutcomes == (s1 :> {"ok", "waiting", "partial", "error", "fatalExit"})
                @@ (s2 :> {"ok", "skip"}) @@ (s3 :> {"ok", "error", "panic"}) @@ (s4 :> {"ok"})
                @@ (s5 :> {"ok", "deadline", "teardownError"})

TwiceE == [n \in Node |-> IF n = s5 THEN 2 ELSE 0]

Seq5 == <<s1, s2, s3, s4, s5>>

\* Two parents, and three children that depend on both.
FanDeps == (s1 :> <<>>) @@ (s2 :> <<>>)
           @@ (s3 :> <<s1, s2>>) @@ (s4 :> <<s1, s2>>) @@ (s5 :> <<s1, s2>>)

\* A new plan, and what CreateRetryPlan leaves of a run whose later steps
\* failed: they and their descendants are cleared, s1 keeps its result.
FreshOrRetried == Fresh \cup {[n \in Node |-> IF n = s1 THEN "Succeeded" ELSE "NotStarted"]}
=============================================================================
