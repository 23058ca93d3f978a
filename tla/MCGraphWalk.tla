---------------------------- MODULE MCGraphWalk ----------------------------
(* Graphs of four nodes, diamonds, double edges and an invalid edge         *)
(* included.  Operators record edges to older nodes; add_next_edge may also *)
(* give the second node edges, to a newer node too, after or between walks. *)
EXTENDS GraphWalk

FourNodes == 1..4

SomeNodes == [n \in Nodes |->
    CASE n = 1 -> {}
      [] n = 2 -> {1, 3}
      [] n = 3 -> {1, 2, None}
      [] n = 4 -> {1, 2, 3}]
=============================================================================
