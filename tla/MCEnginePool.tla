---------------------------- MODULE MCEnginePool ----------------------------
(***************************************************************************)
(* Nested passes that exceed max_recursion_depth_ (here 0 or 1, 60 in the   *)
(* code) and go to the thread pool.  Callers c1 and c2 run ga and gb; a     *)
(* node of each runs an inner pass, and the inner pass of ga a third one.   *)
(***************************************************************************)
EXTENDS Engine, TLC

CONSTANTS c1, c2, p1, p2, p3, ga, ha, ka, gb, hb, a, x, y

MCNextEdges == (a :> <<>>) @@ (x :> <<y>>) @@ (y :> <<>>)
MCTopologicalNr == (a :> 0) @@ (x :> 1) @@ (y :> 0)
MCNodeDevice == [n \in Nodes |-> CPU]
MCSequenceNr == (a :> 2) @@ (x :> 3) @@ (y :> 2)
MCRoot == (ga :> a) @@ (ha :> x) @@ (ka :> a) @@ (gb :> a) @@ (hb :> a)
MCOutputs == [g \in GraphTasks |-> {}]
MCAccumulateGrad == [g \in GraphTasks |-> TRUE]
MCKeepGraph == [g \in GraphTasks |-> TRUE]
MCTopLevel == (c1 :> {ga}) @@ (c2 :> {gb})
MCReenters == [g \in GraphTasks |-> [n \in Nodes |->
                  IF g = ga /\ n = a THEN ha
                  ELSE IF g = ha /\ n = y THEN ka
                  ELSE IF g = gb /\ n = a THEN hb ELSE None]]
MCMayThrow == {<<ka, a>>}
=============================================================================
