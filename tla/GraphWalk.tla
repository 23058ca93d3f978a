----------------------------- MODULE GraphWalk -----------------------------
(***************************************************************************)
(* How the backward graph is built and how Engine::execute walks it before  *)
(* it queues the root.  Operators record nodes and their next edges;        *)
(* Node::update_topological_nr numbers them so that a parent's number is    *)
(* above its children's.  compute_dependencies then counts the edges that   *)
(* arrive at each node, with a worklist, and GraphTask::init_to_execute     *)
(* marks the nodes that lead to a requested output, with an explicit stack; *)
(* both use the numbers to prune nodes older than every output.             *)
(*                                                                          *)
(* One step is one iteration of a loop of the code.  The graph may grow     *)
(* between two walks.  The results are compared with module AutogradGraph,  *)
(* whose definitions module Engine starts from.                             *)
(***************************************************************************)
EXTENDS Integers, Sequences, FiniteSets

CONSTANTS
    Nodes,      \* the nodes that may be created, in the order 1, 2, ...
    None,       \* the function of an invalid edge
    MaxEdges,   \* bound on the next edges of a node
    MaxTotal,   \* bound on the edges of the graph
    Targets,    \* Targets[n]: what the edges of n may lead to, None included
    Roots,      \* the nodes a call may start from
    MaxOutputs  \* bound on the outputs of a call

ASSUME WalkAssumption ==
    /\ IsFiniteSet(Nodes) /\ Nodes = 1..Cardinality(Nodes)
    /\ None \notin Nodes
    /\ Targets \in [Nodes -> SUBSET (Nodes \cup {None})] /\ Roots \subseteq Nodes
    /\ MaxEdges \in Nat /\ MaxTotal \in Nat /\ MaxOutputs \in Nat

VARIABLES
    created,          \* the nodes recorded so far
    next_edges, topological_nr, has_parent,
    walk,             \* "build", "deps", "exec" or "done"
    root, outputs, accumulate_grad, min_topo_nr,
    \* compute_dependencies: the worklist, and the node whose edges are being
    \* counted with the index of the next one
    queue, fn, edge, nodes_in_graph, dependencies,
    \* init_to_execute: frames [fn, next_next_fn], and exec_info_
    stack, seen, needed

graphVars == <<created, next_edges, topological_nr>>
argVars   == <<root, outputs, accumulate_grad, min_topo_nr>>
depVars   == <<queue, fn, edge, nodes_in_graph, dependencies>>
execVars  == <<stack, seen, needed>>
vars      == <<graphVars, has_parent, walk, argVars, depVars, execVars>>

Graph == INSTANCE AutogradGraph WITH
            NextEdges <- next_edges, TopologicalNr <- topological_nr

Top(s)  == s[Len(s)]
Pop(s)  == SubSeq(s, 1, Len(s) - 1)
Lists   == UNION {[1..k -> created \cup {None}] : k \in 0..MaxEdges}
Choices(n) == (Targets[n] \cap (created \cup {None})) \ {n}
Slots   == UNION {{n} \X DOMAIN next_edges[n] : n \in Nodes}
Valid(l) == {l[i] : i \in DOMAIN l} \ {None}

-----------------------------------------------------------------------------
NewNode(n) ==
    /\ walk = "build" /\ n = Cardinality(created) + 1
    /\ created' = created \cup {n}
    /\ UNCHANGED <<next_edges, topological_nr, has_parent, walk, argVars, depVars, execVars>>

(* update_topological_nr, for every new edge of a node numbered nr *)
UpdatedTopologicalNr(nr, children) ==
    IF \E c \in children : topological_nr[c] >= nr
      THEN 1 + CHOOSE k \in {topological_nr[c] : c \in children} :
                  \A c \in children : topological_nr[c] <= k
      ELSE nr

(* Mutant: the check for a parent is left out *)
AlwaysChangeable(n) == n \in created

(* The assertion of update_topological_nr; a call that fails it changes     *)
(* nothing here, as set_next_edges is only called on fresh nodes            *)
Changeable(n) == n \in created /\ n \notin has_parent

(* A node whose next edges are the list l; reading a child's topological_nr *)
(* marks the child as having a parent                                       *)
SetEdges(n, l, new) ==
    /\ Cardinality(Slots) + Len(l) - Len(next_edges[n]) <= MaxTotal
    /\ next_edges' = [next_edges EXCEPT ![n] = l]
    /\ topological_nr' = [topological_nr EXCEPT ![n] = UpdatedTopologicalNr(@, new)]
    /\ has_parent' = has_parent \cup new
    /\ UNCHANGED <<created, walk, argVars, depVars, execVars>>

set_next_edges(n) ==
    /\ walk = "build" /\ Changeable(n) /\ next_edges[n] = <<>>
    /\ \E k \in 1..MaxEdges : \E l \in [1..k -> Choices(n)] : SetEdges(n, l, Valid(l))

add_next_edge(n) ==
    /\ walk = "build" /\ Changeable(n) /\ Len(next_edges[n]) < MaxEdges
    /\ \E m \in Choices(n) :
          SetEdges(n, Append(next_edges[n], m), {m} \ {None})

-----------------------------------------------------------------------------
(* Engine::execute up to compute_dependencies: grad() names its outputs *)
Execute(r, outs, acc) ==
    /\ walk = "build" /\ Cardinality(outs) <= MaxOutputs
    /\ acc \/ outs # {}
    /\ walk' = "deps"
    /\ root' = r /\ outputs' = outs /\ accumulate_grad' = acc
    /\ min_topo_nr' = Graph!MinTopologicalNr(outs)
    /\ has_parent' = has_parent \cup outs
    /\ queue' = <<r>> /\ fn' = None /\ edge' = 1
    /\ nodes_in_graph' = {}
    /\ dependencies' = [n \in Nodes |-> 0]
    /\ UNCHANGED <<graphVars, execVars>>

(* Mutant: nodes as old as the oldest output are pruned as well *)
TooOldOrEqual(n) == topological_nr[n] <= min_topo_nr /\ outputs # {}

(* Created before every output: no path leads to one *)
TooOld(n) == topological_nr[n] < min_topo_nr

(* compute_dependencies: take a node from the back of the queue *)
DepsPop ==
    /\ walk = "deps" /\ fn = None /\ queue # <<>>
    /\ queue' = Pop(queue)
    /\ has_parent' = has_parent \cup {Top(queue)}
    /\ fn' = IF TooOld(Top(queue)) THEN None ELSE Top(queue)
    /\ edge' = 1
    /\ UNCHANGED <<graphVars, walk, argVars, nodes_in_graph, dependencies, execVars>>

(* nodes_in_graph_.insert succeeds *)
WasInserted(n) == n \notin nodes_in_graph

(* edge.function is not null *)
IsValid(n) == n # None

(* ... and count one of its edges *)
DepsEdge ==
    /\ walk = "deps" /\ fn # None
    /\ IF edge > Len(next_edges[fn])
         THEN fn' = None /\ UNCHANGED <<queue, edge, nodes_in_graph, dependencies>>
         ELSE LET n == next_edges[fn][edge]
              IN  /\ edge' = edge + 1
                  /\ IF IsValid(n)
                       THEN /\ dependencies' = [dependencies EXCEPT ![n] = @ + 1]
                            /\ nodes_in_graph' = nodes_in_graph \cup {n}
                            /\ queue' = IF WasInserted(n) THEN Append(queue, n) ELSE queue
                       ELSE UNCHANGED <<queue, nodes_in_graph, dependencies>>
                  /\ UNCHANGED fn
    /\ UNCHANGED <<graphVars, has_parent, walk, argVars, execVars>>

(* The queue is empty: init_to_execute starts if outputs were named *)
DepsDone ==
    /\ walk = "deps" /\ fn = None /\ queue = <<>>
    /\ IF outputs = {}
         THEN walk' = "done" /\ UNCHANGED execVars
         ELSE /\ walk' = "exec"
              /\ stack' = <<[fn |-> root, next_next_fn |-> 1]>>
              /\ seen' = {}
              /\ needed' = IF accumulate_grad THEN outputs ELSE {}
    /\ UNCHANGED <<graphVars, has_parent, argVars, depVars>>

-----------------------------------------------------------------------------
(* exec_info_[n].should_execute(): needed_, or captured by grad() *)
ShouldExecute(n) == n \in needed \/ (~accumulate_grad /\ n \in outputs)

(* Mutant: a child seen on another path does not count *)
MarkOnlyFirst(f, child) == needed

(* Mutant: every child seen before counts *)
MarkAlways(f, child) == needed \cup {f}

(* (1) a child that was seen before makes its parent needed if it runs *)
MarkSeen(f, child) == IF ShouldExecute(child) THEN needed \cup {f} ELSE needed

(* Mutant: the frame stays at the child it looked at *)
StaysAtChild(s) == s

(* Frame::get_next_fn moves the top frame past the child it returns *)
Advance(s) == [s EXCEPT ![Len(s)].next_next_fn = @ + 1]

(* init_to_execute: the frame on top of the stack looks at its next child *)
ExecChild ==
    /\ walk = "exec" /\ stack # <<>>
    /\ LET f == Top(stack).fn
           i == Top(stack).next_next_fn
           child == next_edges[f][i]
           advanced == Advance(stack)
       IN  /\ i <= Len(next_edges[f])
           /\ IF child = None
                THEN stack' = advanced /\ UNCHANGED <<seen, needed, has_parent>>
              ELSE IF child \in seen
                THEN /\ stack' = advanced
                     /\ needed' = MarkSeen(f, child)
                     /\ UNCHANGED <<seen, has_parent>>
              ELSE /\ seen' = seen \cup {child}
                   /\ has_parent' = has_parent \cup {child}
                   /\ stack' = IF TooOld(child) THEN advanced
                               ELSE Append(advanced, [fn |-> child, next_next_fn |-> 1])
                   /\ UNCHANGED needed
    /\ UNCHANGED <<graphVars, walk, argVars, depVars>>

(* (3) no child is left: the frame is popped and tells its parent *)
ExecPop ==
    /\ walk = "exec" /\ stack # <<>>
    /\ Top(stack).next_next_fn > Len(next_edges[Top(stack).fn])
    /\ stack' = Pop(stack)
    /\ needed' = IF ShouldExecute(Top(stack).fn) /\ Len(stack) > 1
                   THEN needed \cup {Top(Pop(stack)).fn} ELSE needed
    /\ UNCHANGED <<graphVars, has_parent, walk, argVars, depVars, seen>>

ExecDone ==
    /\ walk = "exec" /\ stack = <<>>
    /\ walk' = "done"
    /\ UNCHANGED <<graphVars, has_parent, argVars, depVars, execVars>>

(* The graph task is gone; the graph may grow and be walked again *)
Forget ==
    /\ walk = "done"
    /\ walk' = "build"
    /\ root' = None /\ outputs' = {} /\ accumulate_grad' = TRUE /\ min_topo_nr' = 0
    /\ nodes_in_graph' = {} /\ dependencies' = [n \in Nodes |-> 0]
    /\ seen' = {} /\ needed' = {}
    /\ UNCHANGED <<graphVars, has_parent, queue, fn, edge, stack>>

-----------------------------------------------------------------------------
Init ==
    /\ created = {}
    /\ next_edges = [n \in Nodes |-> <<>>]
    /\ topological_nr = [n \in Nodes |-> 0]
    /\ has_parent = {}
    /\ walk = "build"
    /\ root = None /\ outputs = {} /\ accumulate_grad = TRUE /\ min_topo_nr = 0
    /\ queue = <<>> /\ fn = None /\ edge = 1
    /\ nodes_in_graph = {} /\ dependencies = [n \in Nodes |-> 0]
    /\ stack = <<>> /\ seen = {} /\ needed = {}

Build ==
    \/ \E n \in Nodes : NewNode(n) \/ set_next_edges(n) \/ add_next_edge(n)
    \/ \E r \in Roots \cap created, outs \in SUBSET created, acc \in BOOLEAN : Execute(r, outs, acc)

Walk == DepsPop \/ DepsEdge \/ DepsDone \/ ExecChild \/ ExecPop \/ ExecDone

Next == Build \/ Walk \/ Forget

Spec == Init /\ [][Next]_vars

(* The walk is sequential code of the calling thread; nobody waits in it *)
FairSpec == Spec /\ WF_vars(Walk)

-----------------------------------------------------------------------------
(* The types of the variables *)
TypeOK ==
    /\ created \subseteq Nodes /\ has_parent \subseteq created
    /\ next_edges \in [Nodes -> Lists] /\ topological_nr \in [Nodes -> Nat]
    /\ walk \in {"build", "deps", "exec", "done"}
    /\ root \in created \cup {None} /\ outputs \subseteq created
    /\ accumulate_grad \in BOOLEAN /\ min_topo_nr \in Nat
    /\ queue \in Seq(created) /\ fn \in created \cup {None} /\ edge \in Nat
    /\ nodes_in_graph \subseteq created /\ dependencies \in [Nodes -> Nat]
    /\ stack \in Seq([fn : created, next_next_fn : Nat])
    /\ seen \subseteq created /\ needed \subseteq created

(* NOTE [ Topological Number ]: "existence of a directed path from X to Y   *)
(* implies topo_nr(X) > topo_nr(Y)", edge by edge, however the graph was    *)
(* put together and whenever it was walked in between.                      *)
ParentsAreNewer ==
    \A m \in created : \A n \in Valid(next_edges[m]) : topological_nr[n] < topological_nr[m]

(* compute_dependencies counts, for every node, the edges from the nodes    *)
(* that are expanded: the counts evaluate_function will bring down to zero. *)
DependenciesAreRight ==
    walk \in {"exec", "done"} =>
        /\ nodes_in_graph \cup {root} = Graph!NodesInGraph(root, outputs)
        /\ dependencies = Graph!Dependencies(root, outputs)

(* Pruning by topological_nr loses nothing: every node on a path from the   *)
(* root to an output is found and marked.                                   *)
NothingIsPruned ==
    walk = "done" /\ outputs # {} =>
        \A n \in Graph!NodesInGraph(root, {}) :
            Graph!Children(n) \cap Graph!LeadsTo(outputs) # {} => n \in needed

(* init_to_execute marks exactly the nodes that lead to an output.          *)
ExecInfoIsRight ==
    walk = "done" /\ outputs # {} =>
        needed = Graph!NeededNodes(root, outputs, accumulate_grad)

(* Every walk ends. *)
WalkEnds == (walk = "deps") ~> (walk = "done")
=============================================================================
