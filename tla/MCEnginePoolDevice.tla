------------------------- MODULE MCEnginePoolDevice -------------------------
(***************************************************************************)
(* A nested pass that goes to the thread pool and ends on a device: the     *)
(* root of g0 runs pass g1, which a pool thread drives on c1's ready queue  *)
(* while x runs on d1.  b is the rest of g0.                                *)
(***************************************************************************)
EXTENDS Engine, TLC

CONSTANTS c1, d1, p1, g0, g1, a, b, x

MCNextEdges == (a :> <<b>>) @@ (b :> <<>>) @@ (x :> <<>>)
MCTopologicalNr == (a :> 1) @@ (b :> 0) @@ (x :> 0)
MCNodeDevice == (a :> CPU) @@ (b :> CPU) @@ (x :> d1)
MCSequenceNr == (a :> 2) @@ (b :> 1) @@ (x :> 3)
MCRoot == (g0 :> a) @@ (g1 :> x)
MCOutputs == [g \in GraphTasks |-> {}]
MCAccumulateGrad == [g \in GraphTasks |-> TRUE]
MCKeepGraph == [g \in GraphTasks |-> TRUE]
MCTopLevel == c1 :> {g0}
MCReenters == [g \in GraphTasks |-> [n \in Nodes |-> IF g = g0 /\ n = a THEN g1 ELSE None]]
=============================================================================
