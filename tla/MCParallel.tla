----------------------------- MODULE MCParallel -----------------------------
(* Two threads of the program and a pool of two workers.  The programs mix   *)
(* two parallel loops; launches that nest a loop, and a launch and its wait; *)
(* and a collectAll whose sources are completed from three threads.          *)
EXTENDS Parallel, TLC

CONSTANTS m1, m2, w1, w2, j1, j2, j3, j4, j5, l1, l2, l3, l4, p1, p2, c, a

MCMains == {m1, m2}
MCWorkers == {w1, w2}
MCJobs == {j1, j2, j3, j4, j5}
MCSize == (j1 :> 5) @@ (j2 :> 3) @@ (j3 :> 2) @@ (j4 :> 3) @@ (j5 :> 2)
MCGrain == (j1 :> 1) @@ (j2 :> 2) @@ (j3 :> 0) @@ (j4 :> 2) @@ (j5 :> 0)

MCFutures == {l1, l2, l3, l4, p1, p2, c, a}
MCKind == [f \in MCFutures |->
    IF f \in {l1, l2, l3, l4} THEN "launch" ELSE IF f = c THEN "then" ELSE IF f = a THEN "all" ELSE "promise"]
MCSources == [f \in MCFutures |-> IF f = c THEN <<p1>> ELSE IF f = a THEN <<c, p2, p1>> ELSE <<>>]

MCBody == (j1 :> <<<<"for", j3>>>>) @@ (j2 :> <<>>) @@ (j3 :> <<>>) @@ (j4 :> <<>>) @@ (j5 :> <<>>)
    @@ (l1 :> <<<<"launch", l3>>, <<"wait", l3>>>>) @@ (l2 :> <<<<"for", j4>>>>) @@ (l3 :> <<>>) @@ (l4 :> <<>>)
MCMayThrow == {j1, j3, j5, l3}

MCPrograms == {
    (m1 :> <<<<"for", j1>>, <<"complete">>, <<"destroy">>>>) @@ (m2 :> <<<<"for", j2>>>>),
    (m1 :> <<<<"launch", l1>>, <<"launch", l2>>, <<"wait", l1>>, <<"wait", l2>>, <<"destroy">>>>)
      @@ (m2 :> <<<<"launch", l4>>, <<"for", j5>>>>),
    (m1 :> <<<<"make", c>>, <<"make", a>>, <<"fulfil", p1>>, <<"wait", a>>, <<"destroy">>>>)
      @@ (m2 :> <<<<"fulfil", p2>>, <<"wait", c>>, <<"wait", a>>>>)}
=============================================================================
