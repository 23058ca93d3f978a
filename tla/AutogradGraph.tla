---------------------------- MODULE AutogradGraph ----------------------------
(***************************************************************************)
(* The static backward graph the engine walks: nodes with ordered next      *)
(* edges, each node's topological number, and what Engine::execute derives  *)
(* from them before the first task is queued (the dependency counts and     *)
(* the set of nodes that are to be executed).  The definitions here say     *)
(* WHAT is derived; module GraphWalk models the worklist and the iterative  *)
(* depth-first search of the code that derive it.                           *)
(***************************************************************************)
EXTENDS Integers, Sequences, FiniteSets

CONSTANTS
    Nodes,          \* the Node objects of the graph
    None,           \* "no node", "no thread", "no task": a null pointer
    NextEdges,      \* NextEdges[n]: n's next_edges(), None for an invalid edge
    TopologicalNr   \* TopologicalNr[n]: n->topological_nr()

(* Node::update_topological_nr keeps a parent's number above its children's *)
ASSUME GraphAssumption ==
    /\ None \notin Nodes
    /\ NextEdges \in [Nodes -> Seq(Nodes \cup {None})]
    /\ TopologicalNr \in [Nodes -> Nat]
    /\ \A m \in Nodes : \A i \in DOMAIN NextEdges[m] :
          NextEdges[m][i] # None
             => TopologicalNr[NextEdges[m][i]] < TopologicalNr[m]

Children(n) == {NextEdges[n][i] : i \in DOMAIN NextEdges[n]} \ {None}

(* The valid edges, named by their source node and output index *)
Edges == {e \in UNION {{<<m, i>> : i \in DOMAIN NextEdges[m]} : m \in Nodes} :
             NextEdges[e[1]][e[2]] # None}

(* compute_min_topological_nr: the smallest number among the outputs *)
MinTopologicalNr(outputs) ==
    IF outputs = {} THEN 0
    ELSE CHOOSE k \in {TopologicalNr[o] : o \in outputs} :
            \A o \in outputs : k <= TopologicalNr[o]

(* A node older than every output is not expanded *)
Expanded(n, outputs) == TopologicalNr[n] >= MinTopologicalNr(outputs)

(* nodes_in_graph_ plus the root: what is reachable from the root through   *)
(* expanded nodes, as the least set closed under that step                  *)
NodesInGraph(root, outputs) ==
    {n \in Nodes : \A S \in SUBSET Nodes :
        (/\ root \in S
         /\ \A m \in S : Expanded(m, outputs) => Children(m) \subseteq S)
        => n \in S}

(* The edges gradients may flow along from this root *)
GraphEdges(root, outputs) ==
    {e \in Edges : e[1] \in NodesInGraph(root, outputs) /\ Expanded(e[1], outputs)}

(* compute_dependencies: how many such edges arrive at each node *)
Dependencies(root, outputs) ==
    [n \in Nodes |->
        Cardinality({e \in GraphEdges(root, outputs) : NextEdges[e[1]][e[2]] = n})]

(* Nodes with a path, possibly empty, to an output *)
LeadsTo(outputs) ==
    {n \in Nodes : \A S \in SUBSET Nodes :
        (/\ outputs \subseteq S
         /\ \A m \in Nodes : Children(m) \cap S # {} => m \in S)
        => n \in S}

(* exec_info_[n].needed_ after init_to_execute: an ancestor of an output,   *)
(* or, for .backward(inputs=...), an output itself                          *)
NeededNodes(root, outputs, accumulate_grad) ==
    IF outputs = {} THEN NodesInGraph(root, outputs)
    ELSE {n \in NodesInGraph(root, outputs) : Children(n) \cap LeadsTo(outputs) # {}}
            \cup (IF accumulate_grad THEN outputs ELSE {})

(* exec_info_[n].should_execute(): needed_ or captured *)
ShouldExecute(root, outputs, accumulate_grad) ==
    NeededNodes(root, outputs, accumulate_grad) \cup outputs
=============================================================================
