---------------------------- MODULE MCInputBuffer ----------------------------
(* Two devices with two streams each, and two producers: all assignments   *)
(* of streams to the nodes and the caller, one block of memory reused.      *)
EXTENDS InputBuffer, TLC

CONSTANTS d0, d1, a1, a2, b1, b2

MCDeviceOf == (a1 :> d0) @@ (a2 :> d0) @@ (b1 :> d1) @@ (b2 :> d1)
MCDefault == (d0 :> a1) @@ (d1 :> b1)
Symmetric == Permutations(Producers)
=============================================================================
