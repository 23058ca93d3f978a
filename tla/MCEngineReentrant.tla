-------------------------- MODULE MCEngineReentrant --------------------------
(***************************************************************************)
(* Nested backward passes on the threads that called them.  The caller's    *)
(* pass g0 has a node on d1 whose function runs pass g1; g1 starts on d2,   *)
(* where its root runs pass g2, and ends on d1.  Functions may throw at     *)
(* every level.  Afterwards the same thread runs g3, reusing its ready      *)
(* queue with whatever the failed passes left in it.                        *)
(***************************************************************************)
EXTENDS Engine, TLC

CONSTANTS c1, d1, d2, g0, g1, g2, g3, r, a, b, x, y, z

MCNextEdges == (r :> <<a, b>>) @@ (a :> <<>>) @@ (b :> <<>>)
               @@ (x :> <<y>>) @@ (y :> <<>>) @@ (z :> <<>>)
MCTopologicalNr == (r :> 1) @@ (x :> 1) @@ [n \in {a, b, y, z} |-> 0]
MCNodeDevice == (r :> CPU) @@ (a :> d1) @@ (b :> CPU) @@ (x :> d2) @@ (y :> d1) @@ (z :> CPU)
MCSequenceNr == (r :> 9) @@ (a :> 1) @@ (b :> 2) @@ (x :> 3) @@ (y :> 2) @@ (z :> 5)
MCRoot == (g0 :> r) @@ (g1 :> x) @@ (g2 :> z) @@ (g3 :> b)
MCOutputs == [g \in GraphTasks |-> {}]
MCAccumulateGrad == [g \in GraphTasks |-> TRUE]
MCKeepGraph == [g \in GraphTasks |-> g # g0]
MCTopLevel == c1 :> {g0, g3}
MCReenters == [g \in GraphTasks |-> [n \in Nodes |->
                  IF g = g0 /\ n = a THEN g1 ELSE IF g = g1 /\ n = x THEN g2 ELSE None]]
MCMayThrow == {<<g0, b>>, <<g1, y>>, <<g2, z>>}
=============================================================================
