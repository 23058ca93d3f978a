--------------------------- MODULE MCEngineDevices ---------------------------
(***************************************************************************)
(* Two user threads run backward over a diamond whose branches live on two  *)
(* devices, sharing the device threads; c2 then differentiates part of the  *)
(* graph with grad().  Functions on a device may throw.                     *)
(***************************************************************************)
EXTENDS Engine, TLC

CONSTANTS c1, c2, d1, d2, ga, gb, loss, left, right, leaf

MCNextEdges == (loss :> <<left, right>>) @@ (left :> <<leaf, None>>)
               @@ (right :> <<leaf>>) @@ (leaf :> <<>>)
MCTopologicalNr == (loss :> 2) @@ (left :> 1) @@ (right :> 1) @@ (leaf :> 0)
MCNodeDevice == (loss :> CPU) @@ (left :> d1) @@ (right :> d2) @@ (leaf :> CPU)
MCSequenceNr == (loss :> 3) @@ (left :> 2) @@ (right :> 1) @@ (leaf :> 9)
MCRoot == (ga :> loss) @@ (gb :> loss)
MCOutputs == (ga :> {}) @@ (gb :> {left})
MCAccumulateGrad == (ga :> TRUE) @@ (gb :> FALSE)
MCKeepGraph == (ga :> TRUE) @@ (gb :> TRUE)
MCTopLevel == (c1 :> {ga}) @@ (c2 :> {gb})
MCReenters == [g \in GraphTasks |-> [n \in Nodes |-> None]]
MCMayThrow == {<<ga, right>>}
MCQueuesCallback == {<<ga, leaf>>}
=============================================================================
