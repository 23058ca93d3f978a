-------------------------- MODULE GraphWalkProofs --------------------------
(***************************************************************************)
(* Proofs about module GraphWalk, for every graph that can be built: the    *)
(* topological numbers decrease along every edge, the worklist of           *)
(* compute_dependencies counts every edge of the walked graph exactly once, *)
(* and the depth-first search of init_to_execute marks exactly the nodes    *)
(* that lead to an output, so that nothing is lost by pruning.              *)
(***************************************************************************)
EXTENDS GraphWalk, FiniteSetTheorems, SequenceTheorems, WellFoundedInduction, TLAPS

-----------------------------------------------------------------------------
(* The inductive invariant *)

(* Of the numbers: a node that is the child of another cannot be renumbered, *)
(* as reading its number marked it; nodes not created have no edges         *)
Numbered ==
    /\ \A m \in Nodes : \A n \in Valid(next_edges[m]) :
          n \in has_parent /\ topological_nr[n] < topological_nr[m]
    /\ \A m \in Nodes \ created : next_edges[m] = <<>>
    /\ \E b \in Nat : \A n \in Nodes : topological_nr[n] <= b

(* Of the indices into next_edges *)
Indexed == edge >= 1 /\ \A k \in DOMAIN stack : stack[k].next_next_fn >= 1

(* Of the arguments of a call *)
Called ==
    walk # "build" => root \in created /\ min_topo_nr = Graph!MinTopologicalNr(outputs)

Reach == Graph!NodesInGraph(root, outputs)
Leads == Graph!LeadsTo(outputs)

(* The nodes compute_dependencies has found, the ones it still has to       *)
(* expand, and the edges it has counted                                     *)
Found == nodes_in_graph \cup {root}
Queued == {queue[i] : i \in DOMAIN queue}
Counted ==
    {e \in Graph!Edges :
        \/ e[1] \in Found \ (Queued \cup {fn}) /\ ~TooOld(e[1])
        \/ e[1] = fn /\ e[2] < edge}

(* Of compute_dependencies.  No node is queued twice, the root never again, *)
(* as it is newer than everything below it; the children of a node that has *)
(* been expanded are found.                                                 *)
FoundIsReached ==
    /\ \A n \in nodes_in_graph : n \in Reach /\ topological_nr[n] < topological_nr[root]
    /\ Queued \subseteq Found
    /\ fn # None => fn \in Found \ Queued /\ ~TooOld(fn)
QueuedOnce == \A i, j \in DOMAIN queue : queue[i] = queue[j] => i = j
ExpandedIsFound ==
    /\ \A n \in Found \ (Queued \cup {fn}) :
          TooOld(n) \/ Graph!Children(n) \subseteq nodes_in_graph
    /\ fn # None => \A i \in DOMAIN next_edges[fn] :
          i < edge /\ next_edges[fn][i] # None => next_edges[fn][i] \in nodes_in_graph
CountedOnce ==
    dependencies = [n \in Nodes |-> Cardinality({e \in Counted : next_edges[e[1]][e[2]] = n})]

Counting ==
    walk = "deps" =>
        FoundIsReached /\ QueuedOnce /\ ExpandedIsFound /\ CountedOnce

(* Of init_to_execute: what the frames of the stack look like, and what is  *)
(* known of the nodes that are seen and no longer on the stack              *)
OnStack == {stack[k].fn : k \in DOMAIN stack}
Finished == (seen \cup {root}) \ OnStack

(* The children frame k is done with: the one it is waiting for is not      *)
Answered(k) == IF k < Len(stack) THEN stack[k].next_next_fn - 1 ELSE stack[k].next_next_fn

(* One frame is the parent of the next: the stack is a path *)
StackIsPath ==
    /\ stack # <<>> => stack[1].fn = root
    /\ \A k \in DOMAIN stack :
          /\ stack[k].next_next_fn \in 1 .. Len(next_edges[stack[k].fn]) + 1
          /\ k < Len(stack) =>
                /\ stack[k].next_next_fn > 1
                /\ stack[k + 1].fn = next_edges[stack[k].fn][stack[k].next_next_fn - 1]
          /\ k > 1 => stack[k].fn \in seen /\ ~TooOld(stack[k].fn)
    /\ \A j, k \in DOMAIN stack :
          j < k => topological_nr[stack[k].fn] < topological_nr[stack[j].fn]

SeenIsReached ==
    \A n \in seen : topological_nr[n] < topological_nr[root] /\ (TooOld(n) \/ n \in Reach)

ChildrenAreSeen ==
    /\ \A n \in Finished : TooOld(n) \/ Graph!Children(n) \subseteq seen
    /\ \A k \in DOMAIN stack : \A i \in DOMAIN next_edges[stack[k].fn] :
          i < stack[k].next_next_fn /\ next_edges[stack[k].fn][i] # None
             => next_edges[stack[k].fn][i] \in seen

(* What needed says of a node before, during and after its visit *)
Wanted(n) == accumulate_grad /\ n \in outputs
Marked ==
    /\ \A n \in Nodes \ (seen \cup {root}) : n \in needed <=> Wanted(n)
    /\ \A k \in DOMAIN stack :
          stack[k].fn \in needed <=>
             \/ Wanted(stack[k].fn)
             \/ \E i \in DOMAIN next_edges[stack[k].fn] :
                   i < Answered(k) /\ next_edges[stack[k].fn][i] \in Leads
    /\ \A n \in Finished : n \in needed <=> Wanted(n) \/ Graph!Children(n) \cap Leads # {}

Marking ==
    walk = "exec" => StackIsPath /\ SeenIsReached /\ ChildrenAreSeen /\ Marked

WalkInv ==
    /\ TypeOK /\ Numbered /\ Indexed /\ Called /\ Counting /\ Marking
    /\ DependenciesAreRight /\ ExecInfoIsRight

-----------------------------------------------------------------------------
(* Numbers and lists *)

LEMMA SmallestNumber ==
  ASSUME NEW S \in SUBSET Nat, S # {}
  PROVE  \E k \in S : \A x \in S : k <= x
  <1>1. \E k \in S : \A x \in S : ~ (<<x, k>> \in OpToRel(<, Nat))
    BY NatLessThanWellFounded, WFMin
  <1>2. PICK k \in S : \A x \in S : ~ (<<x, k>> \in OpToRel(<, Nat))
    BY <1>1
  <1>3. ASSUME NEW x \in S PROVE k <= x
    <2>1. ~ (x < k)
      BY <1>2 DEF OpToRel
    <2> QED BY <2>1
  <1> QED BY <1>2, <1>3

(* A bounded set of numbers has a largest one: the least of its bounds *)
LEMMA LargestNumber ==
  ASSUME NEW S \in SUBSET Nat, S # {}, NEW b \in Nat, \A x \in S : x <= b
  PROVE  \E k \in S : \A x \in S : x <= k
  <1> DEFINE Bounds == {k \in Nat : \A x \in S : x <= k}
  <1>1. PICK k \in Bounds : \A y \in Bounds : k <= y
    <2>1. Bounds \in SUBSET Nat /\ Bounds # {}
      OBVIOUS
    <2> HIDE DEF Bounds
    <2> QED BY <2>1, SmallestNumber
  <1>2. k \in Nat /\ \A x \in S : x <= k
    BY <1>1
  <1>3. CASE k \in S
    BY <1>2, <1>3
  <1>4. CASE k \notin S
    <2>1. \A x \in S : x < k
      BY <1>2, <1>4
    <2>2. k - 1 \in Nat /\ \A x \in S : x <= k - 1
      <3>1. PICK y \in S : y < k
        BY <2>1
      <3>2. y \in Nat
        OBVIOUS
      <3>3. k - 1 \in Nat
        BY <1>2, <3>1, <3>2
      <3>4. ASSUME NEW x \in S PROVE x <= k - 1
        <4>1. x \in Nat /\ x < k
          BY <2>1
        <4> QED BY <1>2, <4>1
      <3> QED BY <3>3, <3>4
    <2>3. k <= k - 1
      BY <1>1, <2>2
    <2> QED BY <1>2, <2>3
  <1> QED BY <1>3, <1>4

LEMMA ListFacts ==
  ASSUME MaxEdges \in Nat, NEW l \in Lists
  PROVE  /\ l \in Seq(created \cup {None}) /\ Len(l) \in 0..MaxEdges
         /\ DOMAIN l = 1..Len(l)
  <1>1. PICK k \in 0..MaxEdges : l \in [1..k -> created \cup {None}]
    BY DEF Lists
  <1>2. k \in Nat /\ [i \in 1..k |-> l[i]] \in Seq(created \cup {None})
    BY <1>1, IsASeq
  <1>3. l = [i \in 1..k |-> l[i]]
    BY <1>1
  <1>4. l \in Seq(created \cup {None})
    BY <1>2, <1>3
  <1>5. Len(l) = k
    BY <1>1, <1>2, <1>4
  <1> QED BY <1>1, <1>4, <1>5

LEMMA ListIntro ==
  ASSUME MaxEdges \in Nat, NEW l \in Seq(created \cup {None}), Len(l) <= MaxEdges
  PROVE  l \in Lists
  <1>1. Len(l) \in 0..MaxEdges /\ l \in [1..Len(l) -> created \cup {None}]
    BY LenProperties
  <1> QED BY <1>1 DEF Lists

(* compute_min_topological_nr returns the least number of the outputs *)
LEMMA MinIsLeast ==
  ASSUME topological_nr \in [Nodes -> Nat], NEW outs \in SUBSET Nodes
  PROVE  /\ Graph!MinTopologicalNr(outs) \in Nat
         /\ \A o \in outs : Graph!MinTopologicalNr(outs) <= topological_nr[o]
  <1> DEFINE S == {topological_nr[o] : o \in outs}
  <1>1. CASE outs = {}
    BY <1>1 DEF Graph!MinTopologicalNr
  <1>2. CASE outs # {}
    <2>1. S \in SUBSET Nat /\ S # {}
      BY <1>2
    <2>2. \E k \in S : \A o \in outs : k <= topological_nr[o]
      <3>1. \E k \in S : \A x \in S : k <= x
        <4> HIDE DEF S
        <4> QED BY <2>1, SmallestNumber
      <3> QED BY <3>1
    <2>3. Graph!MinTopologicalNr(outs) = CHOOSE k \in S : \A o \in outs : k <= topological_nr[o]
      BY <1>2 DEF Graph!MinTopologicalNr
    <2>4. Graph!MinTopologicalNr(outs) \in S
          /\ \A o \in outs : Graph!MinTopologicalNr(outs) <= topological_nr[o]
      <3> HIDE DEF S
      <3> QED BY <2>2, <2>3
    <2> QED BY <2>1, <2>4
  <1> QED BY <1>1, <1>2

(* update_topological_nr never lowers a number and puts it above the new    *)
(* children's                                                               *)
LEMMA UpdatedIsAbove ==
  ASSUME topological_nr \in [Nodes -> Nat], NEW nr \in Nat, NEW children \in SUBSET Nodes,
         NEW b \in Nat, \A n \in Nodes : topological_nr[n] <= b
  PROVE  LET new == UpdatedTopologicalNr(nr, children)
         IN  /\ new \in Nat /\ nr <= new
             /\ \A c \in children : topological_nr[c] < new
             /\ new <= nr \/ new <= b + 1
  <1> DEFINE S == {topological_nr[c] : c \in children}
  <1> DEFINE new == UpdatedTopologicalNr(nr, children)
  <1>1. CASE \E c \in children : topological_nr[c] >= nr
    <2>1. S \in SUBSET Nat /\ S # {} /\ \A x \in S : x <= b
      BY <1>1
    <2>2. \E k \in S : \A c \in children : topological_nr[c] <= k
      <3>1. \E k \in S : \A x \in S : x <= k
        <4> HIDE DEF S
        <4> QED BY <2>1, LargestNumber
      <3> QED BY <3>1
    <2> DEFINE k == CHOOSE k \in S : \A c \in children : topological_nr[c] <= k
    <2>3. k \in S /\ \A c \in children : topological_nr[c] <= k
      <3> HIDE DEF S
      <3> QED BY <2>2
    <2>4. new = 1 + k
      BY <1>1 DEF UpdatedTopologicalNr
    <2> HIDE DEF k, new
    <2>5. k \in Nat /\ k <= b
      <3> HIDE DEF S
      <3> QED BY <2>1, <2>3
    <2>6. PICK c \in children : topological_nr[c] >= nr
      BY <1>1
    <2>7. topological_nr[c] \in Nat /\ topological_nr[c] <= k
      BY <2>3, <2>6
    <2>8. new \in Nat /\ nr <= new /\ new <= b + 1
      BY <2>4, <2>5, <2>6, <2>7
    <2>9. ASSUME NEW d \in children PROVE topological_nr[d] < new
      <3>1. topological_nr[d] \in Nat /\ topological_nr[d] <= k
        BY <2>3
      <3> QED BY <2>4, <2>5, <3>1
    <2> QED BY <2>8, <2>9 DEF new
  <1>2. CASE ~ \E c \in children : topological_nr[c] >= nr
    <2>1. new = nr
      BY <1>2 DEF UpdatedTopologicalNr
    <2>2. ASSUME NEW c \in children PROVE topological_nr[c] < nr
      BY <1>2
    <2> QED BY <2>1, <2>2
  <1> QED BY <1>1, <1>2

-----------------------------------------------------------------------------
(* The graph as it is built *)

LEMMA SetEdgesIsSafe ==
  ASSUME TypeOK, Numbered, NEW n \in Nodes, Changeable(n),
         NEW l \in Lists, NEW new \in SUBSET created, n \notin new,
         Valid(l) = Valid(next_edges[n]) \cup new, SetEdges(n, l, new)
  PROVE  TypeOK' /\ Numbered'
  <1> DEFINE nr == UpdatedTopologicalNr(topological_nr[n], new)
  <1>0. PICK b \in Nat : \A m \in Nodes : topological_nr[m] <= b
    BY DEF Numbered
  <1>1. /\ topological_nr \in [Nodes -> Nat] /\ next_edges \in [Nodes -> Lists]
        /\ created \subseteq Nodes /\ has_parent \subseteq created
        /\ n \in created /\ n \notin has_parent
    BY DEF TypeOK, Changeable
  <1>2. /\ nr \in Nat /\ topological_nr[n] <= nr
        /\ \A c \in new : topological_nr[c] < nr
        /\ nr <= topological_nr[n] \/ nr <= b + 1
    <2>1. topological_nr[n] \in Nat /\ new \in SUBSET Nodes
      BY <1>1
    <2> QED BY <1>0, <1>1, <2>1, UpdatedIsAbove
  <1>3. /\ next_edges' = [next_edges EXCEPT ![n] = l]
        /\ topological_nr' = [topological_nr EXCEPT ![n] = nr]
        /\ has_parent' = has_parent \cup new
        /\ UNCHANGED <<created, walk, argVars, depVars, execVars>>
    BY <1>1 DEF SetEdges
  <1> HIDE DEF nr
  <1>4. Lists' = Lists
    BY <1>3 DEF Lists
  <1>5. TypeOK'
    <2>1. topological_nr' \in [Nodes -> Nat] /\ next_edges' \in [Nodes -> Lists]
      BY <1>1, <1>2, <1>3
    <2>2. has_parent' \subseteq created
      BY <1>1, <1>3
    <2> QED BY <1>3, <1>4, <2>1, <2>2 DEF TypeOK, argVars, depVars, execVars
  <1>6. ASSUME NEW m \in Nodes, NEW c, c \in Valid(next_edges'[m])
        PROVE  c \in has_parent' /\ topological_nr'[c] < topological_nr'[m]
    <2>1. CASE m = n
      <3>1. next_edges'[m] = l /\ topological_nr'[m] = nr
        BY <1>1, <1>3, <2>1
      <3>2. CASE c \in new
        BY <1>1, <1>2, <1>3, <3>1, <3>2
      <3>3. CASE c \in Valid(next_edges[n])
        <4>1. c \in has_parent /\ topological_nr[c] < topological_nr[n]
          BY <3>3 DEF Numbered
        <4>2. c \in Nodes /\ c # n /\ topological_nr'[c] = topological_nr[c]
          BY <1>1, <1>3, <4>1
        <4>3. topological_nr[c] \in Nat /\ topological_nr[n] \in Nat
          BY <1>1, <4>2
        <4> QED BY <1>2, <1>3, <3>1, <4>1, <4>2, <4>3
      <3>4. c \in Valid(l)
        BY <1>6, <3>1
      <3> QED BY <3>2, <3>3, <3>4
    <2>2. CASE m # n
      <3>1. next_edges'[m] = next_edges[m] /\ topological_nr'[m] = topological_nr[m]
        BY <1>1, <1>3, <2>2
      <3>2. c \in has_parent /\ topological_nr[c] < topological_nr[m]
        BY <1>6, <3>1 DEF Numbered
      <3>3. c # n /\ c \in Nodes
        BY <1>1, <3>2
      <3> QED BY <1>1, <1>3, <3>1, <3>2, <3>3
    <2> QED BY <2>1, <2>2
  <1>7. ASSUME NEW m \in Nodes \ created' PROVE next_edges'[m] = <<>>
    <2>1. m # n /\ m \in Nodes \ created
      BY <1>1, <1>3
    <2>2. next_edges'[m] = next_edges[m]
      BY <1>1, <1>3, <2>1
    <2> QED BY <2>1, <2>2 DEF Numbered
  <1>8. \E d \in Nat : \A m \in Nodes : topological_nr'[m] <= d
    <2>1. ASSUME NEW m \in Nodes PROVE topological_nr'[m] <= b + 1
      <3>1. topological_nr[m] \in Nat /\ topological_nr[n] \in Nat
            /\ topological_nr[m] <= b /\ topological_nr[n] <= b
        BY <1>0, <1>1
      <3>2. topological_nr'[m] = topological_nr[m] \/ topological_nr'[m] = nr
        BY <1>1, <1>3
      <3> QED BY <1>2, <3>1, <3>2
    <2>2. b + 1 \in Nat
      OBVIOUS
    <2> QED BY <2>1, <2>2
  <1>9. Valid(l)' = Valid(l) /\ \A m \in Nodes : Valid(next_edges[m])' = Valid(next_edges'[m])
    BY DEF Valid
  <1> QED BY <1>5, <1>6, <1>7, <1>8, <1>9 DEF Numbered

LEMMA BuildIsSafe ==
  ASSUME TypeOK, Numbered, NEW n \in Nodes,
         NewNode(n) \/ set_next_edges(n) \/ add_next_edge(n)
  PROVE  TypeOK' /\ Numbered'
  <1>0. /\ next_edges \in [Nodes -> Lists] /\ created \subseteq Nodes /\ MaxEdges \in Nat
        /\ None \notin Nodes /\ has_parent \subseteq created
    BY WalkAssumption DEF TypeOK
  <1>1. CASE NewNode(n)
    <2>1. created' = created \cup {n}
          /\ UNCHANGED <<next_edges, topological_nr, has_parent, walk, argVars, depVars, execVars>>
      BY <1>1 DEF NewNode
    <2>2. \A l \in Lists : l \in Lists'
      <3> SUFFICES ASSUME NEW l \in Lists PROVE l \in Lists'
        OBVIOUS
      <3>1. PICK k \in 0..MaxEdges : l \in [1..k -> created \cup {None}]
        BY DEF Lists
      <3>2. l \in [1..k -> created' \cup {None}]
        BY <2>1, <3>1
      <3> QED BY <3>1, <3>2 DEF Lists
    <2>3. next_edges' \in [Nodes -> Lists']
      BY <1>0, <2>1, <2>2
    <2>4. /\ queue \in Seq(created) => queue \in Seq(created')
          /\ stack \in Seq([fn : created, next_next_fn : Nat])
                => stack \in Seq([fn : created', next_next_fn : Nat])
      <3>1. created \subseteq created'
            /\ [fn : created, next_next_fn : Nat] \subseteq [fn : created', next_next_fn : Nat]
        BY <2>1
      <3> QED BY <3>1, SeqMonotonic
    <2>5. TypeOK'
      BY <1>0, <2>1, <2>3, <2>4 DEF TypeOK, argVars, depVars, execVars
    <2>6. Numbered'
      <3>1. \A m \in Nodes : Valid(next_edges[m])' = Valid(next_edges[m])
        BY <2>1 DEF Valid
      <3> QED BY <2>1, <3>1 DEF Numbered
    <2> QED BY <2>5, <2>6
  <1>2. CASE set_next_edges(n)
    <2>0. PICK k \in 1..MaxEdges : \E l \in [1..k -> Choices(n)] : SetEdges(n, l, Valid(l))
      BY <1>2 DEF set_next_edges
    <2>1. PICK l \in [1..k -> Choices(n)] : SetEdges(n, l, Valid(l))
      BY <2>0
    <2>2. Changeable(n) /\ next_edges[n] = <<>>
      BY <1>2 DEF set_next_edges
    <2>3. l \in Lists
      BY <1>0, <2>1 DEF Lists, Choices
    <2>4. Valid(l) \in SUBSET created /\ n \notin Valid(l)
      BY <2>1 DEF Valid, Choices
    <2>5. Valid(next_edges[n]) = {}
      BY <2>2 DEF Valid
    <2> QED BY <2>1, <2>2, <2>3, <2>4, <2>5, SetEdgesIsSafe
  <1>3. CASE add_next_edge(n)
    <2>1. PICK m \in Choices(n) : SetEdges(n, Append(next_edges[n], m), {m} \ {None})
      BY <1>3 DEF add_next_edge
    <2>2. Changeable(n) /\ Len(next_edges[n]) < MaxEdges
      BY <1>3 DEF add_next_edge
    <2>3. next_edges[n] \in Lists /\ m \in created \cup {None} /\ m # n
      BY <1>0, <2>1 DEF Choices
    <2>4. next_edges[n] \in Seq(created \cup {None}) /\ DOMAIN next_edges[n] = 1..Len(next_edges[n])
          /\ Len(next_edges[n]) \in Nat
      BY <1>0, <2>3, ListFacts
    <2> DEFINE l == Append(next_edges[n], m)
    <2>5. /\ l \in Seq(created \cup {None}) /\ Len(l) = Len(next_edges[n]) + 1
          /\ DOMAIN l = 1 .. Len(next_edges[n]) + 1
          /\ \A i \in 1..Len(next_edges[n]) : l[i] = next_edges[n][i]
          /\ l[Len(next_edges[n]) + 1] = m
      BY <2>3, <2>4
    <2> HIDE DEF l
    <2>6. Len(l) <= MaxEdges
      BY <1>0, <2>2, <2>4, <2>5
    <2>7. l \in Lists
      BY <1>0, <2>5, <2>6, ListIntro
    <2>8. Valid(l) = Valid(next_edges[n]) \cup ({m} \ {None})
      <3>1. ASSUME NEW c, c \in Valid(l)
            PROVE  c \in Valid(next_edges[n]) \cup ({m} \ {None})
        <4>1. PICK i \in 1 .. Len(next_edges[n]) + 1 : c = l[i] /\ c # None
          BY <2>5, <3>1 DEF Valid
        <4>2. CASE i = Len(next_edges[n]) + 1
          BY <2>5, <4>1, <4>2
        <4>3. CASE i # Len(next_edges[n]) + 1
          <5>1. i \in 1 .. Len(next_edges[n])
            BY <2>4, <4>3
          <5>2. c = next_edges[n][i]
            BY <2>5, <4>1, <5>1
          <5> QED BY <2>4, <4>1, <5>1, <5>2 DEF Valid
        <4> QED BY <4>2, <4>3
      <3>2. ASSUME NEW c, c \in Valid(next_edges[n])
            PROVE  c \in Valid(l)
        <4>1. PICK i \in 1 .. Len(next_edges[n]) : c = next_edges[n][i] /\ c # None
          BY <2>4, <3>2 DEF Valid
        <4>2. i \in DOMAIN l /\ c = l[i]
          BY <2>4, <2>5, <4>1
        <4> QED BY <4>1, <4>2 DEF Valid
      <3>3. m # None => m \in Valid(l)
        <4>1. Len(next_edges[n]) + 1 \in DOMAIN l
          BY <2>4, <2>5
        <4> QED BY <2>5, <4>1 DEF Valid
      <3> QED BY <3>1, <3>2, <3>3
    <2>9. {m} \ {None} \in SUBSET created /\ n \notin {m} \ {None}
      BY <2>3
    <2> QED BY <2>1, <2>2, <2>7, <2>8, <2>9, SetEdgesIsSafe DEF l
  <1> QED BY <1>1, <1>2, <1>3

-----------------------------------------------------------------------------
(* The walks leave the graph alone *)

LEMMA TopAndPop ==
  ASSUME NEW S, NEW s \in Seq(S), s # <<>>
  PROVE  /\ Len(s) \in Nat /\ Len(s) >= 1 /\ Top(s) = s[Len(s)] /\ Top(s) \in S
         /\ Pop(s) \in Seq(S) /\ Len(Pop(s)) = Len(s) - 1
         /\ \A i \in 1 .. Len(s) - 1 : Pop(s)[i] = s[i]
  <1>1. Len(s) \in Nat /\ Len(s) >= 1
    BY EmptySeq
  <1>2. s[Len(s)] \in S
    BY <1>1, ElementOfSeq
  <1>3. \A i \in 1 .. Len(s) - 1 : s[i] \in S
    BY <1>1, ElementOfSeq
  <1>4. /\ SubSeq(s, 1, Len(s) - 1) \in Seq(S)
        /\ Len(SubSeq(s, 1, Len(s) - 1)) = Len(s) - 1
        /\ \A i \in 1 .. Len(s) - 1 : SubSeq(s, 1, Len(s) - 1)[i] = s[i]
    <2> DEFINE d == Len(s) - 1
    <2>0. d \in Nat
      BY <1>1
    <2>1. d \in Int /\ 1 \in Int /\ d - 1 + 1 = d /\ (1 <= d \/ d = 0)
      <3> HIDE DEF d
      <3> QED BY <2>0
    <2>2. /\ SubSeq(s, 1, d) \in Seq(S)
          /\ Len(SubSeq(s, 1, d)) = IF 1 <= d THEN d - 1 + 1 ELSE 0
          /\ \A i \in 1 .. d - 1 + 1 : SubSeq(s, 1, d)[i] = s[1 + i - 1]
      <3> HIDE DEF d
      <3> QED BY <1>3, <2>1, SubSeqProperties DEF d
    <2>3. \A i \in 1 .. d : 1 + i - 1 = i
      OBVIOUS
    <2> QED BY <2>1, <2>2, <2>3
  <1> QED BY <1>1, <1>2, <1>4 DEF Top, Pop

LEMMA EdgeTarget ==
  ASSUME TypeOK, NEW m \in created, NEW i \in Nat, i >= 1, i <= Len(next_edges[m])
  PROVE  next_edges[m][i] \in created \cup {None}
  <1>1. next_edges[m] \in Lists /\ MaxEdges \in Nat
    BY WalkAssumption DEF TypeOK
  <1>2. next_edges[m] \in Seq(created \cup {None}) /\ Len(next_edges[m]) \in Nat
    BY <1>1, ListFacts
  <1> QED BY <1>2, ElementOfSeq

Frames == [fn : created, next_next_fn : Nat]

LEMMA AdvancedStack ==
  ASSUME stack \in Seq(Frames), stack # <<>>
  PROVE  /\ Advance(stack) \in Seq(Frames) /\ Len(Advance(stack)) = Len(stack)
         /\ DOMAIN Advance(stack) = 1 .. Len(stack)
         /\ \A k \in 1 .. Len(stack) : Advance(stack)[k].fn = stack[k].fn
         /\ \A k \in 1 .. Len(stack) : Advance(stack)[k].next_next_fn =
               IF k = Len(stack) THEN stack[k].next_next_fn + 1 ELSE stack[k].next_next_fn
  <1> DEFINE top == [stack[Len(stack)] EXCEPT !.next_next_fn = @ + 1]
  <1>1. Len(stack) \in Nat /\ Len(stack) \in 1 .. Len(stack) /\ DOMAIN stack = 1 .. Len(stack)
    BY EmptySeq, LenProperties
  <1>2. \A k \in 1 .. Len(stack) : stack[k] \in Frames
    BY <1>1, ElementOfSeq
  <1>3. top \in Frames /\ top.fn = stack[Len(stack)].fn
        /\ top.next_next_fn = stack[Len(stack)].next_next_fn + 1
    BY <1>1, <1>2 DEF Frames
  <1>4. Advance(stack) = [stack EXCEPT ![Len(stack)] = top]
    BY DEF Advance
  <1> HIDE DEF top
  <1>5. Advance(stack) \in Seq(Frames) /\ Len(Advance(stack)) = Len(stack)
    BY <1>1, <1>3, <1>4
  <1>6. DOMAIN Advance(stack) = 1 .. Len(stack)
    BY <1>1, <1>4
  <1>7. \A k \in 1 .. Len(stack) : Advance(stack)[k] = IF k = Len(stack) THEN top ELSE stack[k]
    BY <1>1, <1>4
  <1> QED BY <1>3, <1>5, <1>6, <1>7

LEMMA WalkTypes ==
  ASSUME TypeOK, Indexed, Called,
         \/ \E r \in Roots \cap created, outs \in SUBSET created, acc \in BOOLEAN :
               Execute(r, outs, acc)
         \/ Walk \/ Forget
  PROVE  /\ TypeOK' /\ Indexed' /\ UNCHANGED graphVars
         /\ has_parent \subseteq has_parent'
  <1>0. /\ next_edges \in [Nodes -> Lists] /\ created \subseteq Nodes /\ MaxEdges \in Nat
        /\ None \notin Nodes /\ has_parent \subseteq created
        /\ queue \in Seq(created) /\ fn \in created \cup {None} /\ edge \in Nat /\ edge >= 1
        /\ stack \in Seq(Frames) /\ root \in created \cup {None}
        /\ topological_nr \in [Nodes -> Nat] /\ dependencies \in [Nodes -> Nat]
    BY WalkAssumption DEF TypeOK, Indexed, Frames
  <1>1. ASSUME UNCHANGED graphVars
        PROVE  created' = created /\ next_edges' = next_edges
               /\ topological_nr' = topological_nr /\ Lists' = Lists
    BY <1>1 DEF graphVars, Lists
  <1>2. ASSUME NEW r \in Roots \cap created, NEW outs \in SUBSET created, NEW acc \in BOOLEAN,
               Execute(r, outs, acc)
        PROVE  TypeOK' /\ Indexed' /\ UNCHANGED graphVars /\ has_parent \subseteq has_parent'
    <2>1. Graph!MinTopologicalNr(outs) \in Nat
      BY <1>0, MinIsLeast
    <2>2. <<r>> \in Seq(created)
      OBVIOUS
    <2> QED BY <1>0, <1>1, <1>2, <2>1, <2>2 DEF Execute, TypeOK, Indexed, execVars
  <1>3. CASE DepsPop
    <2>1. Top(queue) \in created /\ Pop(queue) \in Seq(created)
      BY <1>0, <1>3, TopAndPop DEF DepsPop
    <2> QED BY <1>0, <1>1, <1>3, <2>1 DEF DepsPop, TypeOK, Indexed, execVars, argVars
  <1>4. CASE DepsEdge
    <2>1. CASE edge > Len(next_edges[fn])
      BY <1>0, <1>1, <1>4, <2>1 DEF DepsEdge, TypeOK, Indexed, execVars, argVars
    <2>2. CASE ~(edge > Len(next_edges[fn]))
      <3> DEFINE n == next_edges[fn][edge]
      <3>0. fn \in created
        BY <1>0, <1>4 DEF DepsEdge
      <3>1. n \in created \cup {None}
        <4>1. Len(next_edges[fn]) \in Nat
          BY <1>0, <3>0, ListFacts
        <4> QED BY <1>0, <2>2, <3>0, <4>1, EdgeTarget
      <3>2. /\ edge' = edge + 1 /\ UNCHANGED <<fn, graphVars, has_parent, walk, argVars, execVars>>
            /\ IF n # None
                 THEN /\ dependencies' = [dependencies EXCEPT ![n] = @ + 1]
                      /\ nodes_in_graph' = nodes_in_graph \cup {n}
                      /\ queue' = IF WasInserted(n) THEN Append(queue, n) ELSE queue
                 ELSE UNCHANGED <<queue, nodes_in_graph, dependencies>>
        BY <1>4, <2>2 DEF DepsEdge, IsValid
      <3> HIDE DEF n
      <3>3. /\ dependencies' \in [Nodes -> Nat] /\ queue' \in Seq(created)
            /\ nodes_in_graph' \subseteq created
        <4>1. CASE n = None
          BY <1>0, <3>2, <4>1 DEF TypeOK
        <4>2. CASE n # None
          <5>1. n \in created /\ n \in Nodes
            BY <1>0, <3>1, <4>2
          <5>2. dependencies' \in [Nodes -> Nat]
            <6>1. dependencies[n] + 1 \in Nat
              BY <1>0, <5>1
            <6>2. dependencies' = [dependencies EXCEPT ![n] = dependencies[n] + 1]
              BY <3>2, <4>2
            <6> QED BY <1>0, <5>1, <6>1, <6>2
          <5>3. Append(queue, n) \in Seq(created)
            BY <1>0, <5>1
          <5> QED BY <1>0, <3>2, <4>2, <5>1, <5>2, <5>3 DEF TypeOK
        <4> QED BY <4>1, <4>2
      <3> QED BY <1>0, <1>1, <3>2, <3>3 DEF TypeOK, Indexed, execVars, argVars
    <2> QED BY <2>1, <2>2
  <1>5. CASE DepsDone
    <2>1. CASE outputs = {}
      BY <1>0, <1>1, <1>5, <2>1 DEF DepsDone, TypeOK, Indexed, execVars, argVars, depVars
    <2>2. CASE outputs # {}
      <3>1. stack' = <<[fn |-> root, next_next_fn |-> 1]>>
        BY <1>5, <2>2 DEF DepsDone
      <3>2. CASE root \in created
        <4>1. stack' \in Seq(Frames)
          BY <3>1, <3>2 DEF Frames
        <4>2. \A k \in DOMAIN stack' : stack'[k].next_next_fn >= 1
          BY <3>1
        <4> QED BY <1>0, <1>1, <1>5, <2>2, <3>2, <4>1, <4>2
                DEF DepsDone, TypeOK, Indexed, execVars, argVars, depVars, Frames
      <3> QED BY <1>5, <3>2 DEF DepsDone, Called
    <2> QED BY <2>1, <2>2
  <1>6. CASE ExecChild
    <2> DEFINE f == Top(stack).fn
               i == Top(stack).next_next_fn
               child == next_edges[f][i]
    <2>1. /\ stack # <<>> /\ Top(stack) \in Frames /\ Top(stack) = stack[Len(stack)]
          /\ Len(stack) \in DOMAIN stack /\ DOMAIN stack = 1 .. Len(stack) /\ Len(stack) \in Nat
      <3>1. stack # <<>>
        BY <1>6 DEF ExecChild
      <3>2. DOMAIN stack = 1 .. Len(stack)
        BY <1>0, LenProperties
      <3>3. Top(stack) \in Frames /\ Top(stack) = stack[Len(stack)]
            /\ Len(stack) \in Nat /\ Len(stack) >= 1
        BY <1>0, <3>1, TopAndPop
      <3> QED BY <3>1, <3>2, <3>3
    <2>2. f \in created /\ i \in Nat /\ i >= 1
      BY <2>1 DEF Frames, Indexed
    <2>3. i <= Len(next_edges[f])
      BY <1>6 DEF ExecChild
    <2>4. child \in created \cup {None}
      BY <2>2, <2>3, EdgeTarget
    <2>5. /\ \/ stack' = Advance(stack)
             \/ child # None /\ stack' = Append(Advance(stack), [fn |-> child, next_next_fn |-> 1])
          /\ needed' \subseteq needed \cup {f} /\ seen' \subseteq seen \cup ({child} \ {None})
          /\ has_parent' = has_parent \/ has_parent' = has_parent \cup ({child} \ {None})
          /\ UNCHANGED <<graphVars, walk, argVars, depVars>>
      <3>1. CASE child = None
        BY <1>6, <3>1 DEF ExecChild
      <3>2. CASE child # None /\ child \in seen
        <4>1. MarkSeen(f, child) \subseteq needed \cup {f}
          BY DEF MarkSeen
        <4> QED BY <1>6, <3>2, <4>1 DEF ExecChild
      <3>3. CASE child # None /\ child \notin seen
        BY <1>6, <3>3 DEF ExecChild
      <3> QED BY <3>1, <3>2, <3>3
    <2> HIDE DEF f, i, child
    <2>6. stack' \in Seq(Frames) /\ \A k \in DOMAIN stack' : stack'[k].next_next_fn >= 1
      <3>1. /\ Advance(stack) \in Seq(Frames) /\ Len(Advance(stack)) = Len(stack)
            /\ DOMAIN Advance(stack) = 1 .. Len(stack)
            /\ \A k \in 1 .. Len(stack) : Advance(stack)[k].next_next_fn =
                  IF k = Len(stack) THEN stack[k].next_next_fn + 1 ELSE stack[k].next_next_fn
        BY <1>0, <2>1, AdvancedStack
      <3>2. \A k \in 1 .. Len(stack) : stack[k].next_next_fn \in Nat /\ stack[k].next_next_fn >= 1
        <4>1. \A k \in 1 .. Len(stack) : stack[k] \in Frames
          BY <1>0, ElementOfSeq
        <4> QED BY <2>1, <4>1 DEF Frames, Indexed
      <3>3. ASSUME NEW k \in 1 .. Len(stack) PROVE Advance(stack)[k].next_next_fn >= 1
        <4>1. stack[k].next_next_fn \in Nat /\ stack[k].next_next_fn >= 1
          BY <3>2
        <4>2. \/ Advance(stack)[k].next_next_fn = stack[k].next_next_fn + 1
              \/ Advance(stack)[k].next_next_fn = stack[k].next_next_fn
          BY <3>1
        <4> QED BY <4>1, <4>2
      <3>4. CASE stack' = Advance(stack)
        BY <3>1, <3>3, <3>4
      <3>5. CASE child # None /\ stack' = Append(Advance(stack), [fn |-> child, next_next_fn |-> 1])
        <4>1. [fn |-> child, next_next_fn |-> 1] \in Frames
          BY <2>4, <3>5 DEF Frames
        <4>2. /\ stack' \in Seq(Frames) /\ DOMAIN stack' = 1 .. Len(stack) + 1
              /\ \A k \in 1 .. Len(stack) : stack'[k] = Advance(stack)[k]
              /\ stack'[Len(stack) + 1] = [fn |-> child, next_next_fn |-> 1]
          <5> DEFINE new == [fn |-> child, next_next_fn |-> 1]
          <5>1. stack' = Append(Advance(stack), new) /\ new \in Frames
            BY <3>5, <4>1
          <5> HIDE DEF new
          <5>2. /\ stack' \in Seq(Frames) /\ Len(stack') = Len(stack) + 1
                /\ \A k \in 1 .. Len(stack) : stack'[k] = Advance(stack)[k]
                /\ stack'[Len(stack) + 1] = new
            <6> DEFINE old == Advance(stack)
            <6>1. old \in Seq(Frames) /\ Len(old) = Len(stack)
              BY <3>1
            <6>2. stack' = Append(old, new)
              BY <5>1
            <6> HIDE DEF old
            <6> QED BY <5>1, <6>1, <6>2, AppendProperties DEF old
          <5> QED BY <5>2, LenProperties DEF new
        <4>3. ASSUME NEW k \in DOMAIN stack' PROVE stack'[k].next_next_fn >= 1
          <5>1. k \in 1 .. Len(stack) \/ k = Len(stack) + 1
            BY <2>1, <4>2
          <5> QED BY <3>3, <4>2, <5>1
        <4> QED BY <4>2, <4>3
      <3> QED BY <2>5, <3>4, <3>5
    <2> QED BY <1>0, <1>1, <2>2, <2>4, <2>5, <2>6
            DEF TypeOK, Indexed, argVars, depVars, Frames
  <1>7. CASE ExecPop
    <2>1. stack # <<>> /\ stack' = Pop(stack)
      BY <1>7 DEF ExecPop
    <2>2. /\ Pop(stack) \in Seq(Frames) /\ Len(Pop(stack)) = Len(stack) - 1 /\ Len(stack) \in Nat
          /\ \A k \in 1 .. Len(stack) - 1 : Pop(stack)[k] = stack[k]
      BY <1>0, <2>1, TopAndPop
    <2>3. DOMAIN stack = 1 .. Len(stack) /\ DOMAIN stack' = 1 .. Len(stack) - 1
      BY <1>0, <2>1, <2>2, LenProperties
    <2>4. \A k \in DOMAIN stack' : stack'[k].next_next_fn >= 1
      BY <2>1, <2>2, <2>3 DEF Indexed
    <2>5. needed' \subseteq created
      <3>1. CASE Len(stack) > 1
        <4>1. Pop(stack) # <<>>
          BY <2>2, <3>1, EmptySeq
        <4>2. Top(Pop(stack)) \in Frames
          BY <2>2, <4>1, TopAndPop
        <4> QED BY <1>7, <4>2 DEF ExecPop, Frames, TypeOK
      <3>2. CASE ~(Len(stack) > 1)
        BY <1>7, <3>2 DEF ExecPop, TypeOK
      <3> QED BY <3>1, <3>2
    <2> QED BY <1>0, <1>1, <1>7, <2>1, <2>2, <2>4, <2>5
            DEF ExecPop, TypeOK, Indexed, argVars, depVars, Frames
  <1>8. CASE ExecDone
    BY <1>0, <1>1, <1>8 DEF ExecDone, TypeOK, Indexed, argVars, depVars, execVars
  <1>9. CASE Forget
    BY <1>0, <1>1, <1>9 DEF Forget, TypeOK, Indexed
  <1> QED BY <1>2, <1>3, <1>4, <1>5, <1>6, <1>7, <1>8, <1>9 DEF Walk

(* The types, the numbers and the indices are kept by every step *)
LEMMA GraphStep ==
  ASSUME TypeOK, Numbered, Indexed, Called, Next
  PROVE  TypeOK' /\ Numbered' /\ Indexed'
  <1>1. ASSUME NEW n \in Nodes, NewNode(n) \/ set_next_edges(n) \/ add_next_edge(n)
        PROVE  TypeOK' /\ Numbered' /\ Indexed'
    <2>1. TypeOK' /\ Numbered'
      BY <1>1, BuildIsSafe
    <2>2. UNCHANGED <<depVars, execVars>>
      BY <1>1 DEF NewNode, set_next_edges, add_next_edge, SetEdges
    <2> QED BY <2>1, <2>2 DEF Indexed, depVars, execVars
  <1>2. ASSUME \/ \E r \in Roots \cap created, outs \in SUBSET created, acc \in BOOLEAN :
                     Execute(r, outs, acc)
               \/ Walk \/ Forget
        PROVE  TypeOK' /\ Numbered' /\ Indexed'
    <2>1. TypeOK' /\ Indexed' /\ UNCHANGED graphVars /\ has_parent \subseteq has_parent'
      BY <1>2, WalkTypes
    <2>2. \A m \in Nodes : Valid(next_edges[m])' = Valid(next_edges[m])
      BY <2>1 DEF graphVars, Valid
    <2> QED BY <2>1, <2>2 DEF graphVars, Numbered
  <1> QED BY <1>1, <1>2 DEF Next, Build

-----------------------------------------------------------------------------
(* What module AutogradGraph says of a graph that was built *)

LEMMA ChildFacts ==
  ASSUME TypeOK, Numbered, NEW m \in Nodes
  PROVE  /\ Graph!Children(m) = Valid(next_edges[m])
         /\ \A c \in Graph!Children(m) :
               c \in Nodes /\ topological_nr[c] \in Nat /\ topological_nr[c] < topological_nr[m]
         /\ \A c : c \in Graph!Children(m)
                     <=> \E i \in DOMAIN next_edges[m] : c = next_edges[m][i] /\ c # None
         /\ topological_nr[m] \in Nat
         /\ DOMAIN next_edges[m] = 1 .. Len(next_edges[m]) /\ Len(next_edges[m]) \in Nat
  <1>1. Graph!Children(m) = Valid(next_edges[m])
    BY DEF Graph!Children, Valid
  <1>2. next_edges[m] \in Lists /\ MaxEdges \in Nat
    BY WalkAssumption DEF TypeOK
  <1>3. DOMAIN next_edges[m] = 1 .. Len(next_edges[m]) /\ Len(next_edges[m]) \in Nat
    BY <1>2, ListFacts
  <1>4. ASSUME NEW c \in Valid(next_edges[m])
        PROVE  c \in Nodes /\ topological_nr[c] \in Nat /\ topological_nr[c] < topological_nr[m]
    <2>1. c \in has_parent /\ topological_nr[c] < topological_nr[m]
      BY DEF Numbered
    <2> QED BY <2>1 DEF TypeOK
  <1>5. \A c : c \in Valid(next_edges[m])
                 <=> \E i \in DOMAIN next_edges[m] : c = next_edges[m][i] /\ c # None
    BY DEF Valid
  <1> QED BY <1>1, <1>3, <1>4, <1>5 DEF TypeOK

LEMMA ReachFacts ==
  ASSUME NEW r \in Nodes, NEW outs,
         \A m \in Nodes : Graph!Children(m) \subseteq Nodes
  PROVE  LET R == Graph!NodesInGraph(r, outs)
         IN  /\ R \subseteq Nodes /\ r \in R
             /\ \A m \in R : Graph!Expanded(m, outs) => Graph!Children(m) \subseteq R
             /\ \A S \in SUBSET Nodes :
                   /\ r \in S
                   /\ \A m \in S : Graph!Expanded(m, outs) => Graph!Children(m) \subseteq S
                   => R \subseteq S
  <1> DEFINE R == Graph!NodesInGraph(r, outs)
             Closed(S) == r \in S /\ \A m \in S : Graph!Expanded(m, outs) => Graph!Children(m) \subseteq S
  <1>1. \A n : n \in R <=> n \in Nodes /\ \A S \in SUBSET Nodes : Closed(S) => n \in S
    BY DEF Graph!NodesInGraph
  <1> HIDE DEF R
  <1>2. R \subseteq Nodes /\ r \in R
    BY <1>1
  <1>3. ASSUME NEW m \in R, Graph!Expanded(m, outs), NEW c \in Graph!Children(m)
        PROVE  c \in R
    <2>1. ASSUME NEW S \in SUBSET Nodes, Closed(S) PROVE c \in S
      <3>1. m \in S
        BY <1>1, <2>1
      <3> QED BY <1>3, <2>1, <3>1
    <2>2. c \in Nodes
      BY <1>2, <1>3
    <2> QED BY <1>1, <2>1, <2>2
  <1>4. ASSUME NEW S \in SUBSET Nodes, Closed(S) PROVE R \subseteq S
    BY <1>1, <1>4
  <1> QED BY <1>2, <1>3, <1>4 DEF R

LEMMA LeadsFacts ==
  ASSUME NEW outs \in SUBSET Nodes
  PROVE  LET L == Graph!LeadsTo(outs)
         IN  /\ L \subseteq Nodes /\ outs \subseteq L
             /\ \A m \in Nodes : Graph!Children(m) \cap L # {} => m \in L
             /\ \A S \in SUBSET Nodes :
                   /\ outs \subseteq S
                   /\ \A m \in Nodes : Graph!Children(m) \cap S # {} => m \in S
                   => L \subseteq S
             /\ \A m \in L : m \in outs \/ Graph!Children(m) \cap L # {}
  <1> DEFINE L == Graph!LeadsTo(outs)
             Closed(S) == outs \subseteq S /\ \A m \in Nodes : Graph!Children(m) \cap S # {} => m \in S
  <1>1. \A n : n \in L <=> n \in Nodes /\ \A S \in SUBSET Nodes : Closed(S) => n \in S
    BY DEF Graph!LeadsTo
  <1> HIDE DEF L
  <1>2. L \subseteq Nodes /\ outs \subseteq L
    BY <1>1
  <1>3. ASSUME NEW m \in Nodes, Graph!Children(m) \cap L # {} PROVE m \in L
    <2>1. PICK c \in Graph!Children(m) : c \in L
      BY <1>3
    <2>2. ASSUME NEW S \in SUBSET Nodes, Closed(S) PROVE m \in S
      <3>1. c \in S
        BY <1>1, <2>1, <2>2
      <3> QED BY <2>1, <2>2, <3>1
    <2> QED BY <1>1, <2>2
  <1>4. ASSUME NEW S \in SUBSET Nodes, Closed(S) PROVE L \subseteq S
    BY <1>1, <1>4
  <1>5. ASSUME NEW m \in L PROVE m \in outs \/ Graph!Children(m) \cap L # {}
    <2> DEFINE S == outs \cup {n \in Nodes : Graph!Children(n) \cap L # {}}
    <2>1. S \in SUBSET Nodes /\ S \subseteq L
      BY <1>2, <1>3
    <2>2. Closed(S)
      <3>1. ASSUME NEW n \in Nodes, Graph!Children(n) \cap S # {} PROVE n \in S
        <4>1. Graph!Children(n) \cap L # {}
          BY <2>1, <3>1
        <4> QED BY <4>1
      <3> QED BY <3>1
    <2>3. L \subseteq S
      <3> HIDE DEF S
      <3> QED BY <1>4, <2>1, <2>2
    <2> QED BY <2>3
  <1> QED BY <1>2, <1>3, <1>4, <1>5 DEF L

(* A node that leads to an output is at least as new as the oldest output:  *)
(* what is too old to be expanded leads nowhere                             *)
LEMMA LeadersAreNew ==
  ASSUME TypeOK, Numbered, NEW outs \in SUBSET Nodes, NEW n \in Graph!LeadsTo(outs)
  PROVE  topological_nr[n] >= Graph!MinTopologicalNr(outs)
  <1> DEFINE k == Graph!MinTopologicalNr(outs)
             S == {m \in Nodes : topological_nr[m] >= k}
  <1>0. topological_nr \in [Nodes -> Nat]
    BY DEF TypeOK
  <1>1. k \in Nat /\ \A o \in outs : k <= topological_nr[o]
    BY <1>0, MinIsLeast
  <1> HIDE DEF k
  <1>2. S \in SUBSET Nodes /\ outs \subseteq S
    BY <1>0, <1>1
  <1>3. ASSUME NEW m \in Nodes, Graph!Children(m) \cap S # {} PROVE m \in S
    <2>1. PICK c \in Graph!Children(m) : c \in S
      BY <1>3
    <2>2. topological_nr[c] \in Nat /\ topological_nr[m] \in Nat
          /\ topological_nr[c] < topological_nr[m] /\ topological_nr[c] >= k
      BY <2>1, ChildFacts
    <2> QED BY <1>1, <2>2
  <1>4. n \in S
    <2> HIDE DEF S
    <2> QED BY <1>2, <1>3, LeadsFacts
  <1> QED BY <1>4 DEF k

(* Nothing of it changes during a walk *)
LEMMA GraphIsFixed ==
  ASSUME UNCHANGED graphVars, root' = root, outputs' = outputs
  PROVE  /\ Reach' = Reach /\ Leads' = Leads /\ Graph!Edges' = Graph!Edges
         /\ \A m : Graph!Children(m)' = Graph!Children(m)
         /\ Graph!MinTopologicalNr(outputs)' = Graph!MinTopologicalNr(outputs)
         /\ Graph!Dependencies(root, outputs)' = Graph!Dependencies(root, outputs)
         /\ Graph!NeededNodes(root, outputs, accumulate_grad)'
               = Graph!NeededNodes(root, outputs, accumulate_grad')
  <1>1. next_edges' = next_edges /\ topological_nr' = topological_nr
    BY DEF graphVars
  <1>2. \A m : Graph!Children(m)' = Graph!Children(m)
    BY <1>1 DEF Graph!Children
  <1>3. \A o : Graph!MinTopologicalNr(o)' = Graph!MinTopologicalNr(o)
    BY <1>1 DEF Graph!MinTopologicalNr
  <1>4. \A m, o : Graph!Expanded(m, o)' = Graph!Expanded(m, o)
    BY <1>1, <1>3 DEF Graph!Expanded
  <1>5. \A r, o : Graph!NodesInGraph(r, o)' = Graph!NodesInGraph(r, o)
    BY <1>2, <1>4 DEF Graph!NodesInGraph
  <1>6. \A o : Graph!LeadsTo(o)' = Graph!LeadsTo(o)
    BY <1>2 DEF Graph!LeadsTo
  <1>7. Graph!Edges' = Graph!Edges
    BY <1>1 DEF Graph!Edges
  <1>8. \A r, o : Graph!GraphEdges(r, o)' = Graph!GraphEdges(r, o)
    BY <1>4, <1>5, <1>7 DEF Graph!GraphEdges
  <1>9. \A r, o : Graph!Dependencies(r, o)' = Graph!Dependencies(r, o)
    BY <1>1, <1>8 DEF Graph!Dependencies
  <1>10. \A r, o, a : Graph!NeededNodes(r, o, a)' = Graph!NeededNodes(r, o, a)
    BY <1>2, <1>5, <1>6 DEF Graph!NeededNodes
  <1> QED BY <1>2, <1>3, <1>5, <1>6, <1>7, <1>9, <1>10 DEF Reach, Leads

-----------------------------------------------------------------------------
(* compute_dependencies *)

LEMMA EdgeFacts ==
  ASSUME TypeOK, Numbered
  PROVE  /\ IsFiniteSet(Graph!Edges)
         /\ \A m, i : <<m, i>> \in Graph!Edges
               <=> m \in Nodes /\ i \in DOMAIN next_edges[m] /\ next_edges[m][i] # None
         /\ \A e \in Graph!Edges : /\ e = <<e[1], e[2]>> /\ e[1] \in Nodes
                                   /\ e[2] \in DOMAIN next_edges[e[1]] /\ e[2] \in Nat /\ e[2] >= 1
                                   /\ next_edges[e[1]][e[2]] \in Graph!Children(e[1])
  <1>1. \A e : e \in Graph!Edges <=>
           \E m \in Nodes : \E i \in DOMAIN next_edges[m] : e = <<m, i>> /\ next_edges[m][i] # None
    BY DEF Graph!Edges
  <1>2. ASSUME NEW m, NEW i
        PROVE  <<m, i>> \in Graph!Edges
               <=> m \in Nodes /\ i \in DOMAIN next_edges[m] /\ next_edges[m][i] # None
    BY <1>1
  <1>3. ASSUME NEW e \in Graph!Edges
        PROVE  /\ e = <<e[1], e[2]>> /\ e[1] \in Nodes
               /\ e[2] \in DOMAIN next_edges[e[1]] /\ e[2] \in 1..MaxEdges
               /\ next_edges[e[1]][e[2]] \in Graph!Children(e[1])
    <2>1. PICK m \in Nodes : \E i \in DOMAIN next_edges[m] : e = <<m, i>> /\ next_edges[m][i] # None
      BY <1>1
    <2>2. PICK i \in DOMAIN next_edges[m] : e = <<m, i>> /\ next_edges[m][i] # None
      BY <2>1
    <2>3. next_edges[m] \in Lists /\ MaxEdges \in Nat
      BY WalkAssumption DEF TypeOK
    <2>4. DOMAIN next_edges[m] = 1 .. Len(next_edges[m]) /\ Len(next_edges[m]) \in 0..MaxEdges
      BY <2>3, ListFacts
    <2>5. i \in 1..MaxEdges
      BY <2>2, <2>3, <2>4
    <2>6. next_edges[m][i] \in Graph!Children(m)
      BY <2>2, ChildFacts
    <2> QED BY <2>2, <2>5, <2>6
  <1>4. IsFiniteSet(Graph!Edges)
    <2>1. MaxEdges \in Nat /\ IsFiniteSet(Nodes)
      BY WalkAssumption
    <2>2. IsFiniteSet(1..MaxEdges)
      BY <2>1, FS_Interval
    <2>3. IsFiniteSet(Nodes \X (1..MaxEdges))
      BY <2>1, <2>2, FS_Product
    <2>4. Graph!Edges \subseteq Nodes \X (1..MaxEdges)
      BY <1>3
    <2> QED BY <2>3, <2>4, FS_Subset
  <1>5. \A i \in 1..MaxEdges : i \in Nat /\ i >= 1
    BY WalkAssumption
  <1> QED BY <1>2, <1>3, <1>4, <1>5

LEMMA QueuePop ==
  ASSUME queue \in Seq(created), queue # <<>>, QueuedOnce, queue' = Pop(queue)
  PROVE  /\ Top(queue) \in Queued /\ Queued' = Queued \ {Top(queue)} /\ QueuedOnce'
  <1>1. /\ Len(queue) \in Nat /\ Len(queue) >= 1 /\ Top(queue) = queue[Len(queue)]
        /\ queue' \in Seq(created) /\ Len(queue') = Len(queue) - 1
        /\ \A i \in 1 .. Len(queue) - 1 : queue'[i] = queue[i]
    BY TopAndPop
  <1>2. DOMAIN queue = 1 .. Len(queue) /\ DOMAIN queue' = 1 .. Len(queue) - 1
    BY <1>1, LenProperties
  <1>3. Len(queue) \in DOMAIN queue
    BY <1>1, <1>2
  <1>4. \A i : i \in DOMAIN queue' <=> i \in DOMAIN queue /\ i # Len(queue)
    BY <1>1, <1>2
  <1>5. \A i \in DOMAIN queue' : queue'[i] = queue[i] /\ queue[i] # queue[Len(queue)]
    BY <1>1, <1>2, <1>3, <1>4 DEF QueuedOnce
  <1>6. Queued' = {queue'[i] : i \in DOMAIN queue'}
    BY DEF Queued
  <1>7. Queued' = Queued \ {Top(queue)}
    <2>1. ASSUME NEW x \in Queued' PROVE x \in Queued \ {Top(queue)}
      BY <1>1, <1>4, <1>5, <1>6 DEF Queued
    <2>2. ASSUME NEW x \in Queued \ {Top(queue)} PROVE x \in Queued'
      <3>1. PICK i \in DOMAIN queue : x = queue[i]
        BY DEF Queued
      <3>2. i # Len(queue)
        BY <1>1, <3>1
      <3> QED BY <1>4, <1>5, <1>6, <3>1, <3>2
    <2> QED BY <2>1, <2>2
  <1>8. QueuedOnce'
    BY <1>4, <1>5 DEF QueuedOnce
  <1> QED BY <1>1, <1>3, <1>7, <1>8 DEF Queued

LEMMA QueueAppend ==
  ASSUME queue \in Seq(created), NEW n \in created, n \notin Queued, QueuedOnce,
         queue' = Append(queue, n)
  PROVE  Queued' = Queued \cup {n} /\ QueuedOnce'
  <1>1. /\ queue' \in Seq(created) /\ Len(queue') = Len(queue) + 1
        /\ \A i \in 1 .. Len(queue) : queue'[i] = queue[i]
        /\ queue'[Len(queue) + 1] = n
    BY AppendProperties
  <1>2. DOMAIN queue = 1 .. Len(queue) /\ DOMAIN queue' = 1 .. Len(queue) + 1 /\ Len(queue) \in Nat
    BY <1>1, LenProperties
  <1>3. \A i : i \in DOMAIN queue' <=> i \in DOMAIN queue \/ i = Len(queue) + 1
    BY <1>2
  <1>4. \A i \in DOMAIN queue : queue'[i] = queue[i] /\ queue[i] # n
    BY <1>1, <1>2 DEF Queued
  <1>5. Queued' = {queue'[i] : i \in DOMAIN queue'}
    BY DEF Queued
  <1>6. Queued' = Queued \cup {n}
    <2>1. ASSUME NEW x \in Queued' PROVE x \in Queued \cup {n}
      BY <1>1, <1>3, <1>4, <1>5 DEF Queued
    <2>2. ASSUME NEW x \in Queued PROVE x \in Queued'
      BY <1>3, <1>4, <1>5 DEF Queued
    <2>3. n \in Queued'
      BY <1>1, <1>3, <1>5
    <2> QED BY <2>1, <2>2, <2>3
  <1>7. QueuedOnce'
    <2>1. ASSUME NEW i \in DOMAIN queue', NEW j \in DOMAIN queue', queue'[i] = queue'[j]
          PROVE  i = j
      BY <1>1, <1>3, <1>4, <2>1 DEF QueuedOnce
    <2> QED BY <2>1 DEF QueuedOnce
  <1> QED BY <1>6, <1>7

LEMMA CountStarts ==
  ASSUME TypeOK, Numbered, TypeOK', Numbered',
         NEW r \in Roots \cap created, NEW outs \in SUBSET created, NEW acc \in BOOLEAN,
         Execute(r, outs, acc)
  PROVE  Counting'
  <1>1. /\ root' = r /\ queue' = <<r>> /\ fn' = None /\ nodes_in_graph' = {} /\ r \in Nodes
        /\ None \notin Nodes /\ dependencies' = [n \in Nodes |-> 0]
    BY WalkAssumption DEF Execute, TypeOK
  <1>2. Found' = {r} /\ Queued' = {r} /\ QueuedOnce'
    BY <1>1 DEF Found, Queued, QueuedOnce
  <1>3. FoundIsReached' /\ ExpandedIsFound'
    BY <1>1, <1>2 DEF FoundIsReached, ExpandedIsFound
  <1>4. Counted' = {}
    <2>1. \A e \in Graph!Edges' : e[1] \in Nodes
      <3>1. Graph!Edges' = Graph!Edges
        BY DEF Execute, graphVars, Graph!Edges
      <3> QED BY <3>1, EdgeFacts
    <2> QED BY <1>1, <1>2, <2>1 DEF Counted
  <1>5. CountedOnce'
    <2>1. \A n : {e \in Counted' : next_edges'[e[1]][e[2]] = n} = {}
      BY <1>4
    <2>2. Cardinality({}) = 0
      BY FS_EmptySet
    <2> QED BY <1>1, <2>1, <2>2 DEF CountedOnce
  <1> QED BY <1>2, <1>3, <1>5 DEF Counting

(* What a step of compute_dependencies starts from *)
LEMMA CountFacts ==
  ASSUME TypeOK, Numbered, Called, Counting, walk = "deps"
  PROVE  /\ FoundIsReached /\ QueuedOnce /\ ExpandedIsFound /\ CountedOnce
         /\ root \in created /\ created \subseteq Nodes /\ None \notin Nodes
         /\ min_topo_nr = Graph!MinTopologicalNr(outputs) /\ min_topo_nr \in Nat
         /\ queue \in Seq(created) /\ Found \subseteq created
         /\ topological_nr \in [Nodes -> Nat]
         /\ \A m : TooOld(m) <=> topological_nr[m] < min_topo_nr
         /\ \A m \in Nodes : Graph!Expanded(m, outputs) <=> ~TooOld(m)
         /\ \A m \in Reach : ~TooOld(m) => Graph!Children(m) \subseteq Reach
         /\ root \in Reach /\ Reach \subseteq Nodes
  <1>1. /\ FoundIsReached /\ QueuedOnce /\ ExpandedIsFound /\ CountedOnce
        /\ root \in created /\ min_topo_nr = Graph!MinTopologicalNr(outputs)
    BY DEF Counting, Called
  <1>2. /\ created \subseteq Nodes /\ None \notin Nodes /\ min_topo_nr \in Nat
        /\ queue \in Seq(created) /\ nodes_in_graph \subseteq created
        /\ topological_nr \in [Nodes -> Nat]
    BY WalkAssumption DEF TypeOK
  <1>3. Found \subseteq created
    BY <1>1, <1>2 DEF Found
  <1>4. \A m : TooOld(m) <=> topological_nr[m] < min_topo_nr
    BY DEF TooOld
  <1>5. ASSUME NEW m \in Nodes PROVE Graph!Expanded(m, outputs) <=> ~TooOld(m)
    <2>1. topological_nr[m] \in Nat
      BY <1>2
    <2>2. Graph!Expanded(m, outputs) <=> topological_nr[m] >= min_topo_nr
      BY <1>1 DEF Graph!Expanded
    <2> QED BY <1>2, <1>4, <2>1, <2>2
  <1>6. /\ root \in Reach /\ Reach \subseteq Nodes
        /\ \A m \in Reach : Graph!Expanded(m, outputs) => Graph!Children(m) \subseteq Reach
    <2>1. \A m \in Nodes : Graph!Children(m) \subseteq Nodes
      BY ChildFacts
    <2>2. root \in Nodes
      BY <1>1, <1>2
    <2> QED BY <2>1, <2>2, ReachFacts DEF Reach
  <1> QED BY <1>1, <1>2, <1>3, <1>4, <1>5, <1>6

(* Taking a node from the queue counts nothing *)
LEMMA CountPop ==
  ASSUME TypeOK, Numbered, Called, Counting, DepsPop
  PROVE  Counting'
  <1> DEFINE q == Top(queue)
  <1>0. /\ FoundIsReached /\ QueuedOnce /\ ExpandedIsFound /\ CountedOnce
        /\ root \in created /\ created \subseteq Nodes /\ None \notin Nodes
        /\ queue \in Seq(created) /\ Found \subseteq created
    BY CountFacts DEF DepsPop
  <1>1. /\ queue # <<>> /\ fn = None /\ queue' = Pop(queue) /\ edge' = 1
        /\ fn' = (IF TooOld(q) THEN None ELSE q)
        /\ UNCHANGED <<graphVars, argVars, nodes_in_graph, dependencies>>
    BY DEF DepsPop
  <1>2. q \in Queued /\ Queued' = Queued \ {q} /\ QueuedOnce'
    BY <1>0, <1>1, QueuePop
  <1>3. /\ Reach' = Reach /\ Graph!Edges' = Graph!Edges
        /\ \A m : Graph!Children(m)' = Graph!Children(m)
        /\ \A m : TooOld(m)' <=> TooOld(m)
        /\ next_edges' = next_edges /\ topological_nr' = topological_nr /\ root' = root
        /\ Found' = Found
    <2>1. root' = root /\ outputs' = outputs /\ min_topo_nr' = min_topo_nr
          /\ next_edges' = next_edges /\ topological_nr' = topological_nr
      BY <1>1 DEF argVars, graphVars
    <2> QED BY <1>1, <2>1, GraphIsFixed DEF TooOld, Found
  <1> HIDE DEF q
  <1>4. q \in Found /\ q # None
    BY <1>0, <1>2 DEF FoundIsReached
  <1>5. FoundIsReached'
    <2>1. Queued' \subseteq Found'
      BY <1>0, <1>2, <1>3 DEF FoundIsReached
    <2>2. ASSUME fn' # None PROVE fn' \in Found' \ Queued' /\ ~TooOld(fn)'
      <3>1. fn' = q /\ ~TooOld(q)
        BY <1>1, <2>2
      <3>2. TooOld(fn)' <=> TooOld(q)
        BY <1>1, <1>3, <3>1 DEF TooOld, argVars
      <3> QED BY <1>2, <1>3, <1>4, <3>1, <3>2
    <2>3. \A n \in nodes_in_graph' : n \in Reach' /\ topological_nr'[n] < topological_nr'[root']
      BY <1>0, <1>1, <1>3 DEF FoundIsReached
    <2> QED BY <2>1, <2>2, <2>3 DEF FoundIsReached, TooOld
  <1>6. ExpandedIsFound'
    <2>1. ASSUME NEW n \in Found' \ (Queued' \cup {fn'})
          PROVE  TooOld(n)' \/ Graph!Children(n)' \subseteq nodes_in_graph'
      <3>1. n \in Found \ (Queued \cup {fn}) \/ (n = q /\ TooOld(q))
        BY <1>0, <1>1, <1>2, <1>3, <1>4
      <3> QED BY <1>0, <1>1, <1>3, <3>1 DEF ExpandedIsFound
    <2>2. fn' # None => \A i \in DOMAIN next_edges'[fn'] :
             i < edge' /\ next_edges'[fn'][i] # None => next_edges'[fn'][i] \in nodes_in_graph'
      <3> SUFFICES ASSUME fn' # None, NEW i \in DOMAIN next_edges'[fn'], i < 1
                   PROVE  FALSE
        BY <1>1
      <3>1. fn' \in Nodes
        BY <1>0, <1>1, <1>4
      <3>2. DOMAIN next_edges[fn'] = 1 .. Len(next_edges[fn']) /\ Len(next_edges[fn']) \in Nat
        BY <3>1, ChildFacts
      <3> QED BY <1>3, <3>2
    <2> QED BY <2>1, <2>2 DEF ExpandedIsFound
  <1>7. Counted' = Counted
    <2>1. ASSUME NEW e \in Graph!Edges
          PROVE  (\/ e[1] \in Found' \ (Queued' \cup {fn'}) /\ ~TooOld(e[1])'
                  \/ e[1] = fn' /\ e[2] < edge')
                 <=> (\/ e[1] \in Found \ (Queued \cup {fn}) /\ ~TooOld(e[1])
                      \/ e[1] = fn /\ e[2] < edge)
      <3>1. e[1] \in Nodes /\ e[2] \in Nat /\ e[2] >= 1
        BY EdgeFacts
      <3>2. ~ (e[2] < edge') /\ e[1] # fn
        BY <1>0, <1>1, <3>1
      <3>3. (TooOld(e[1])' <=> TooOld(e[1]))
        BY <1>3
      <3> QED BY <1>0, <1>1, <1>2, <1>3, <1>4, <3>2, <3>3
    <2> QED BY <1>3, <2>1 DEF Counted, TooOld
  <1>8. CountedOnce'
    BY <1>0, <1>1, <1>3, <1>7 DEF CountedOnce
  <1> QED BY <1>2, <1>5, <1>6, <1>8 DEF Counting

(* Counting an edge counts it once, and queues its node if it is new *)
LEMMA CountEdge ==
  ASSUME TypeOK, Numbered, Indexed, Called, Counting, DepsEdge
  PROVE  Counting'
  <1>0. /\ FoundIsReached /\ QueuedOnce /\ ExpandedIsFound /\ CountedOnce
        /\ root \in created /\ created \subseteq Nodes /\ None \notin Nodes
        /\ queue \in Seq(created) /\ Found \subseteq created
        /\ topological_nr \in [Nodes -> Nat]
        /\ \A m \in Reach : ~TooOld(m) => Graph!Children(m) \subseteq Reach
        /\ root \in Reach /\ Reach \subseteq Nodes
    BY CountFacts DEF DepsEdge
  <1>1. /\ walk = "deps" /\ fn # None /\ edge \in Nat /\ edge >= 1
        /\ UNCHANGED <<graphVars, argVars>>
    BY DEF DepsEdge, TypeOK, Indexed
  <1>2. fn \in Found /\ fn \notin Queued /\ ~TooOld(fn) /\ fn \in Nodes /\ fn \in created
    BY <1>0, <1>1 DEF FoundIsReached
  <1>3. DOMAIN next_edges[fn] = 1 .. Len(next_edges[fn]) /\ Len(next_edges[fn]) \in Nat
    BY <1>2, ChildFacts
  <1>4. /\ Reach' = Reach /\ Graph!Edges' = Graph!Edges
        /\ \A m : Graph!Children(m)' = Graph!Children(m)
        /\ \A m : TooOld(m)' <=> TooOld(m)
        /\ next_edges' = next_edges /\ topological_nr' = topological_nr /\ root' = root
        /\ min_topo_nr' = min_topo_nr
    <2>1. root' = root /\ outputs' = outputs /\ min_topo_nr' = min_topo_nr
          /\ next_edges' = next_edges /\ topological_nr' = topological_nr
      BY <1>1 DEF argVars, graphVars
    <2> QED BY <1>1, <2>1, GraphIsFixed DEF TooOld
  <1>5. CASE edge > Len(next_edges[fn])
    <2>1. fn' = None /\ UNCHANGED <<queue, edge, nodes_in_graph, dependencies>>
      BY <1>5 DEF DepsEdge
    <2>2. Queued' = Queued /\ QueuedOnce' /\ Found' = Found
      BY <1>0, <1>4, <2>1 DEF Queued, QueuedOnce, Found
    <2>3. FoundIsReached'
      BY <1>0, <1>4, <2>1, <2>2 DEF FoundIsReached
    <2>4. Graph!Children(fn) \subseteq nodes_in_graph
      <3> SUFFICES ASSUME NEW c \in Graph!Children(fn) PROVE c \in nodes_in_graph
        OBVIOUS
      <3>1. PICK i \in DOMAIN next_edges[fn] : c = next_edges[fn][i] /\ c # None
        BY <1>2, ChildFacts
      <3>2. i < edge
        BY <1>1, <1>3, <1>5
      <3> QED BY <1>0, <1>1, <3>1, <3>2 DEF ExpandedIsFound
    <2>5. ExpandedIsFound'
      <3>1. ASSUME NEW n \in Found' \ (Queued' \cup {fn'})
            PROVE  TooOld(n)' \/ Graph!Children(n)' \subseteq nodes_in_graph'
        <4>1. n \in Found \ (Queued \cup {fn}) \/ n = fn
          BY <2>2
        <4> QED BY <1>0, <1>4, <2>1, <2>4, <4>1 DEF ExpandedIsFound
      <3> QED BY <2>1, <3>1 DEF ExpandedIsFound
    <2>6. Counted' = Counted
      <3>1. ASSUME NEW e \in Graph!Edges
            PROVE  (\/ e[1] \in Found' \ (Queued' \cup {fn'}) /\ ~TooOld(e[1])'
                    \/ e[1] = fn' /\ e[2] < edge')
                   <=> (\/ e[1] \in Found \ (Queued \cup {fn}) /\ ~TooOld(e[1])
                        \/ e[1] = fn /\ e[2] < edge)
        <4>1. e[1] \in Nodes /\ e[2] \in Nat /\ e[2] \in DOMAIN next_edges[e[1]]
          BY EdgeFacts
        <4>2. e[1] = fn => e[2] < edge
          <5> SUFFICES ASSUME e[1] = fn PROVE e[2] < edge
            OBVIOUS
          <5>1. e[2] \in 1 .. Len(next_edges[fn])
            BY <1>3, <4>1
          <5> QED BY <1>1, <1>3, <1>5, <5>1
        <4>3. (TooOld(e[1])' <=> TooOld(e[1])) /\ e[1] # None
          BY <1>0, <1>4, <4>1
        <4>4. CASE e[1] = fn
          BY <1>2, <2>1, <2>2, <4>2, <4>3, <4>4
        <4>5. CASE e[1] # fn
          BY <2>1, <2>2, <4>3, <4>5
        <4> QED BY <4>4, <4>5
      <3> QED BY <1>4, <3>1 DEF Counted, TooOld
    <2>7. CountedOnce'
      BY <1>0, <1>4, <2>1, <2>6 DEF CountedOnce
    <2> QED BY <2>2, <2>3, <2>5, <2>7 DEF Counting
  <1>6. CASE ~(edge > Len(next_edges[fn]))
    <2> DEFINE n == next_edges[fn][edge]
    <2>1. edge \in DOMAIN next_edges[fn]
      BY <1>1, <1>3, <1>6
    <2>2. /\ edge' = edge + 1 /\ fn' = fn
          /\ IF n # None
               THEN /\ dependencies' = [dependencies EXCEPT ![n] = @ + 1]
                    /\ nodes_in_graph' = nodes_in_graph \cup {n}
                    /\ queue' = IF n \notin nodes_in_graph THEN Append(queue, n) ELSE queue
               ELSE UNCHANGED <<queue, nodes_in_graph, dependencies>>
      BY <1>6 DEF DepsEdge, IsValid, WasInserted
    <2>3. n # None => /\ n \in Graph!Children(fn) /\ n \in Nodes /\ n \in Reach
                      /\ topological_nr[n] < topological_nr[fn] /\ n # fn /\ n \in created
      <3> SUFFICES ASSUME n # None
                   PROVE  /\ n \in Graph!Children(fn) /\ n \in Nodes /\ n \in Reach
                          /\ topological_nr[n] < topological_nr[fn] /\ n # fn /\ n \in created
        OBVIOUS
      <3>1. n \in Graph!Children(fn)
        BY <1>2, <2>1, ChildFacts
      <3>2. n \in Nodes /\ topological_nr[n] \in Nat /\ topological_nr[n] < topological_nr[fn]
        BY <1>2, <3>1, ChildFacts
      <3>3. fn \in Reach
        BY <1>0, <1>2 DEF FoundIsReached, Found
      <3>4. n \in Reach
        BY <1>0, <1>2, <3>1, <3>3
      <3>5. n \in created
        BY <1>2, <1>3, <2>1, <1>1, EdgeTarget
      <3> QED BY <3>1, <3>2, <3>4, <3>5
    <2>4. n # None => topological_nr[n] < topological_nr[root] /\ n # root
      <3> SUFFICES ASSUME n # None PROVE topological_nr[n] < topological_nr[root]
        BY <1>0
      <3>1. fn = root \/ topological_nr[fn] < topological_nr[root]
        BY <1>0, <1>2 DEF FoundIsReached, Found
      <3>2. topological_nr[n] \in Nat /\ topological_nr[fn] \in Nat /\ topological_nr[root] \in Nat
        BY <1>0, <1>2, <2>3
      <3> QED BY <2>3, <3>1, <3>2
    <2> HIDE DEF n
    <2>5. /\ Queued' = Queued \cup (nodes_in_graph' \ nodes_in_graph) /\ QueuedOnce'
          /\ nodes_in_graph' = nodes_in_graph \cup ({n} \ {None})
          /\ Found' = Found \cup ({n} \ {None})
      <3>1. CASE n = None \/ n \in nodes_in_graph
        BY <1>0, <1>4, <2>2, <3>1 DEF Queued, QueuedOnce, Found
      <3>2. CASE n # None /\ n \notin nodes_in_graph
        <4>1. n \notin Found
          BY <2>4, <3>2 DEF Found
        <4>2. n \notin Queued
          BY <1>0, <4>1 DEF FoundIsReached
        <4>3. Queued' = Queued \cup {n} /\ QueuedOnce'
          BY <1>0, <2>2, <2>3, <3>2, <4>2, QueueAppend
        <4> QED BY <1>4, <2>2, <3>2, <4>3 DEF Found
      <3> QED BY <3>1, <3>2
    <2>6. FoundIsReached'
      <3>1. ASSUME NEW m \in nodes_in_graph'
            PROVE  m \in Reach' /\ topological_nr'[m] < topological_nr'[root']
        <4>1. m \in nodes_in_graph \/ (m = n /\ n # None)
          BY <2>5
        <4> QED BY <1>0, <1>4, <2>3, <2>4, <4>1 DEF FoundIsReached
      <3>2. Queued' \subseteq Found'
        BY <1>0, <2>5 DEF FoundIsReached, Found
      <3>3. fn' \in Found' \ Queued'
        <4>1. fn \notin nodes_in_graph' \ nodes_in_graph
          BY <2>3, <2>5
        <4> QED BY <1>2, <2>2, <2>5, <4>1
      <3>4. ~TooOld(fn)'
        BY <1>2, <1>4, <2>2 DEF TooOld
      <3> QED BY <3>1, <3>2, <3>3, <3>4 DEF FoundIsReached
    <2>7. ExpandedIsFound'
      <3>1. ASSUME NEW m \in Found' \ (Queued' \cup {fn'})
            PROVE  TooOld(m)' \/ Graph!Children(m)' \subseteq nodes_in_graph'
        <4>1. m \in Found \ (Queued \cup {fn})
          BY <2>2, <2>5 DEF Found
        <4> QED BY <1>0, <1>4, <2>5, <4>1 DEF ExpandedIsFound
      <3>2. ASSUME NEW i \in DOMAIN next_edges'[fn'], i < edge', next_edges'[fn'][i] # None
            PROVE  next_edges'[fn'][i] \in nodes_in_graph'
        <4>0. i \in 1 .. Len(next_edges[fn])
          BY <1>3, <1>4, <2>2
        <4>1. i < edge \/ i = edge
          BY <1>1, <1>3, <2>2, <3>2, <4>0
        <4>2. CASE i < edge
          BY <1>0, <1>1, <1>3, <1>4, <2>2, <2>5, <3>2, <4>0, <4>2 DEF ExpandedIsFound
        <4>3. CASE i = edge
          BY <1>4, <2>2, <2>5, <3>2, <4>3 DEF n
        <4> QED BY <4>1, <4>2, <4>3
      <3> QED BY <3>1, <3>2 DEF ExpandedIsFound
    <2>8. Counted' = Counted \cup (IF n # None THEN {<<fn, edge>>} ELSE {}) /\ <<fn, edge>> \notin Counted
      <3>1. ASSUME NEW e \in Graph!Edges
            PROVE  (\/ e[1] \in Found' \ (Queued' \cup {fn'}) /\ ~TooOld(e[1])'
                    \/ e[1] = fn' /\ e[2] < edge')
                   <=> (\/ e[1] \in Found \ (Queued \cup {fn}) /\ ~TooOld(e[1])
                        \/ e[1] = fn /\ e[2] < edge
                        \/ e = <<fn, edge>>)
        <4>1. e = <<e[1], e[2]>> /\ e[1] \in Nodes /\ e[2] \in Nat
          BY EdgeFacts
        <4>2. e[2] < edge' <=> e[2] < edge \/ e[2] = edge
          BY <1>1, <2>2, <4>1
        <4>3. TooOld(e[1])' <=> TooOld(e[1])
          BY <1>4
        <4>4. e = <<fn, edge>> <=> e[1] = fn /\ e[2] = edge
          BY <4>1
        <4>5. e[1] \in Found' \ (Queued' \cup {fn'}) <=> e[1] \in Found \ (Queued \cup {fn})
          BY <2>2, <2>4, <2>5 DEF Found
        <4> QED BY <2>2, <4>2, <4>3, <4>4, <4>5
      <3>2. <<fn, edge>> \in Graph!Edges <=> n # None
        BY <1>2, <2>1, EdgeFacts DEF n
      <3>3. <<fn, edge>> \notin Counted
        BY <1>1 DEF Counted
      <3>4. \A e : e \in Counted' <=> e \in Graph!Edges /\
               (\/ e[1] \in Found' \ (Queued' \cup {fn'}) /\ ~TooOld(e[1])'
                \/ e[1] = fn' /\ e[2] < edge')
        BY <1>4 DEF Counted, TooOld
      <3>5. \A e : e \in Counted <=> e \in Graph!Edges /\
               (\/ e[1] \in Found \ (Queued \cup {fn}) /\ ~TooOld(e[1])
                \/ e[1] = fn /\ e[2] < edge)
        BY DEF Counted
      <3>6. \A e : e \in Counted' <=> e \in Counted \/ (e = <<fn, edge>> /\ n # None)
        BY <3>1, <3>2, <3>4, <3>5
      <3> QED BY <3>3, <3>6
    <2>9. CountedOnce'
      <3> DEFINE C(m) == {e \in Counted : next_edges[e[1]][e[2]] = m}
                 D(m) == {e \in Counted' : next_edges'[e[1]][e[2]] = m}
      <3>1. dependencies = [m \in Nodes |-> Cardinality(C(m))]
        BY <1>0 DEF CountedOnce
      <3>2. ASSUME NEW m \in Nodes PROVE dependencies'[m] = Cardinality(D(m))
        <4>1. CASE n = m
          <5>1. D(m) = C(m) \cup {<<fn, edge>>} /\ <<fn, edge>> \notin C(m)
            BY <1>0, <1>4, <2>8, <4>1 DEF n
          <5>2. IsFiniteSet(C(m))
            <6>1. C(m) \in SUBSET Graph!Edges
              BY DEF Counted
            <6> QED BY <6>1, EdgeFacts, FS_Subset
          <5>3. Cardinality(D(m)) = Cardinality(C(m)) + 1
            <6> HIDE DEF C, D
            <6> QED BY <5>1, <5>2, FS_AddElement
          <5>4. dependencies'[m] = dependencies[m] + 1
            BY <1>0, <2>2, <3>1, <4>1
          <5> QED BY <3>1, <5>3, <5>4
        <4>2. CASE n # m
          <5>1. D(m) = C(m)
            BY <1>4, <2>8, <4>2 DEF n
          <5>2. dependencies'[m] = dependencies[m]
            BY <2>2, <3>1, <4>2
          <5> QED BY <3>1, <5>1, <5>2
        <4> QED BY <4>1, <4>2
      <3>3. dependencies' = [m \in Nodes |-> dependencies'[m]]
        BY <2>2, <3>1
      <3> QED BY <3>2, <3>3 DEF CountedOnce
    <2> QED BY <2>5, <2>6, <2>7, <2>9 DEF Counting
  <1> QED BY <1>5, <1>6

(* With an empty queue everything reachable is found, and every edge from   *)
(* an expanded node is counted                                              *)
LEMMA CountEnds ==
  ASSUME TypeOK, Numbered, Called, Counting, DepsDone
  PROVE  DependenciesAreRight'
  <1>0. /\ FoundIsReached /\ ExpandedIsFound /\ CountedOnce
        /\ root \in created /\ created \subseteq Nodes /\ None \notin Nodes
        /\ Found \subseteq created /\ root \in Reach /\ Reach \subseteq Nodes
        /\ \A m \in Nodes : Graph!Expanded(m, outputs) <=> ~TooOld(m)
    BY CountFacts DEF DepsDone
  <1>1. fn = None /\ queue = <<>> /\ UNCHANGED <<graphVars, argVars, depVars>>
    BY DEF DepsDone
  <1>2. Queued = {}
    BY <1>1 DEF Queued
  <1>3. Found = Reach
    <2>1. Found \subseteq Reach
      BY <1>0 DEF Found, FoundIsReached
    <2>2. ASSUME NEW m \in Found, Graph!Expanded(m, outputs) PROVE Graph!Children(m) \subseteq Found
      <3>1. m \in Nodes /\ m # None /\ ~TooOld(m)
        BY <1>0, <2>2
      <3>2. Graph!Children(m) \subseteq nodes_in_graph
        BY <1>0, <1>1, <1>2, <3>1 DEF ExpandedIsFound
      <3> QED BY <3>2 DEF Found
    <2>3. Found \in SUBSET Nodes /\ root \in Found /\ root \in Nodes
      BY <1>0 DEF Found
    <2>4. \A m \in Nodes : Graph!Children(m) \subseteq Nodes
      BY ChildFacts
    <2>5. Reach \subseteq Found
      BY <2>2, <2>3, <2>4, ReachFacts DEF Reach
    <2> QED BY <2>1, <2>5
  <1>4. Counted = Graph!GraphEdges(root, outputs)
    <2>1. ASSUME NEW e \in Graph!Edges
          PROVE  e \in Counted <=> e[1] \in Reach /\ Graph!Expanded(e[1], outputs)
      <3>1. e[1] \in Nodes
        BY EdgeFacts
      <3> QED BY <1>0, <1>1, <1>2, <1>3, <3>1 DEF Counted
    <2>2. Counted \subseteq Graph!Edges
      BY DEF Counted
    <2> QED BY <2>1, <2>2 DEF Graph!GraphEdges, Reach
  <1>5. dependencies = Graph!Dependencies(root, outputs)
    <2>1. \A n \in Nodes : {e \in Counted : next_edges[e[1]][e[2]] = n}
             = {e \in Graph!GraphEdges(root, outputs) : next_edges[e[1]][e[2]] = n}
      BY <1>4
    <2>2. Graph!Dependencies(root, outputs) = [n \in Nodes |->
             Cardinality({e \in Graph!GraphEdges(root, outputs) : next_edges[e[1]][e[2]] = n})]
      BY DEF Graph!Dependencies, Graph!Cardinality, Cardinality
    <2> QED BY <1>0, <2>1, <2>2 DEF CountedOnce
  <1>6. nodes_in_graph \cup {root} = Graph!NodesInGraph(root, outputs)
    BY <1>3 DEF Found, Reach
  <1>7. /\ Reach' = Reach
        /\ Graph!Dependencies(root, outputs)' = Graph!Dependencies(root, outputs)
        /\ root' = root /\ nodes_in_graph' = nodes_in_graph /\ dependencies' = dependencies
    <2>1. root' = root /\ outputs' = outputs
      BY <1>1 DEF argVars
    <2> QED BY <1>1, <2>1, GraphIsFixed DEF depVars
  <1> QED BY <1>5, <1>6, <1>7 DEF DependenciesAreRight, Reach

-----------------------------------------------------------------------------
(* init_to_execute *)

(* What a step of init_to_execute starts from *)
LEMMA MarkFacts ==
  ASSUME TypeOK, Numbered, Called, walk = "exec"
  PROVE  /\ root \in created /\ root \in Nodes /\ created \subseteq Nodes /\ None \notin Nodes
         /\ outputs \subseteq Nodes /\ seen \subseteq Nodes /\ needed \subseteq Nodes
         /\ topological_nr \in [Nodes -> Nat] /\ min_topo_nr \in Nat
         /\ min_topo_nr = Graph!MinTopologicalNr(outputs)
         /\ \A m \in Nodes : Graph!Expanded(m, outputs) <=> ~TooOld(m)
         /\ \A m \in Reach : ~TooOld(m) => Graph!Children(m) \subseteq Reach
         /\ root \in Reach /\ Reach \subseteq Nodes
         /\ Leads \subseteq Nodes /\ outputs \subseteq Leads
         /\ \A m \in Nodes : m \in Leads <=> m \in outputs \/ Graph!Children(m) \cap Leads # {}
         /\ \A m \in Leads : ~TooOld(m)
         /\ \A m \in Nodes : TooOld(m) => \A c \in Graph!Children(m) : TooOld(c)
  <1>1. /\ root \in created /\ root \in Nodes /\ created \subseteq Nodes /\ None \notin Nodes
        /\ outputs \subseteq Nodes /\ seen \subseteq Nodes /\ needed \subseteq Nodes
        /\ topological_nr \in [Nodes -> Nat] /\ min_topo_nr \in Nat
        /\ min_topo_nr = Graph!MinTopologicalNr(outputs)
    BY WalkAssumption DEF TypeOK, Called
  <1>2. ASSUME NEW m \in Nodes PROVE Graph!Expanded(m, outputs) <=> ~TooOld(m)
    <2>1. topological_nr[m] \in Nat
      BY <1>1
    <2>2. Graph!Expanded(m, outputs) <=> topological_nr[m] >= min_topo_nr
      BY <1>1 DEF Graph!Expanded
    <2> QED BY <1>1, <2>1, <2>2 DEF TooOld
  <1>3. /\ root \in Reach /\ Reach \subseteq Nodes
        /\ \A m \in Reach : Graph!Expanded(m, outputs) => Graph!Children(m) \subseteq Reach
    <2>1. \A m \in Nodes : Graph!Children(m) \subseteq Nodes
      BY ChildFacts
    <2> QED BY <1>1, <2>1, ReachFacts DEF Reach
  <1>4. /\ Leads \subseteq Nodes /\ outputs \subseteq Leads
        /\ \A m \in Nodes : Graph!Children(m) \cap Leads # {} => m \in Leads
        /\ \A m \in Leads : m \in outputs \/ Graph!Children(m) \cap Leads # {}
    BY <1>1, LeadsFacts DEF Leads
  <1>5. ASSUME NEW m \in Leads PROVE ~TooOld(m)
    <2>1. topological_nr[m] >= min_topo_nr /\ topological_nr[m] \in Nat
      BY <1>1, <1>4, LeadersAreNew DEF Leads
    <2> QED BY <1>1, <2>1 DEF TooOld
  <1>6. ASSUME NEW m \in Nodes, TooOld(m), NEW c \in Graph!Children(m) PROVE TooOld(c)
    <2>1. topological_nr[c] \in Nat /\ topological_nr[c] < topological_nr[m] /\ topological_nr[m] \in Nat
      BY ChildFacts
    <2> QED BY <1>1, <1>6, <2>1 DEF TooOld
  <1>7. \A m \in Reach : ~TooOld(m) => Graph!Children(m) \subseteq Reach
    BY <1>2, <1>3
  <1>8. \A m \in Nodes : m \in Leads <=> m \in outputs \/ Graph!Children(m) \cap Leads # {}
    BY <1>4
  <1> QED BY <1>1, <1>2, <1>3, <1>4, <1>5, <1>6, <1>7, <1>8

LEMMA MarkStarts ==
  ASSUME TypeOK, Numbered, Called, DepsDone
  PROVE  Marking'
  <1> SUFFICES ASSUME walk' = "exec"
               PROVE  StackIsPath' /\ SeenIsReached' /\ ChildrenAreSeen' /\ Marked'
    BY DEF Marking
  <1>1. /\ stack' = <<[fn |-> root, next_next_fn |-> 1]>> /\ seen' = {}
        /\ needed' = (IF accumulate_grad THEN outputs ELSE {})
        /\ UNCHANGED <<graphVars, argVars>> /\ root \in Nodes
    BY DEF DepsDone, Called, TypeOK
  <1>2. root' = root /\ outputs' = outputs /\ accumulate_grad' = accumulate_grad
        /\ next_edges' = next_edges
    BY <1>1 DEF argVars, graphVars
  <1>3. /\ DOMAIN stack' = {1} /\ Len(stack') = 1
        /\ stack'[1].fn = root /\ stack'[1].next_next_fn = 1
    BY <1>1
  <1>4. OnStack' = {root} /\ Finished' = {}
    BY <1>1, <1>2, <1>3 DEF OnStack, Finished
  <1>5. DOMAIN next_edges[root] = 1 .. Len(next_edges[root]) /\ Len(next_edges[root]) \in Nat
    BY <1>1, ChildFacts
  <1>6. \A i \in DOMAIN next_edges[root] : ~(i < 1)
    BY <1>5
  <1>7. StackIsPath'
    <2>1. 1 \in 1 .. Len(next_edges[root]) + 1
      BY <1>5
    <2> QED BY <1>2, <1>3, <2>1 DEF StackIsPath
  <1>8. SeenIsReached' /\ ChildrenAreSeen'
    BY <1>1, <1>2, <1>3, <1>4, <1>6 DEF SeenIsReached, ChildrenAreSeen
  <1>9. Marked'
    <2>1. Answered(1)' = 1
      BY <1>3 DEF Answered
    <2>2. ASSUME NEW n PROVE n \in needed' <=> Wanted(n)'
      BY <1>1, <1>2 DEF Wanted
    <2>3. \A k \in DOMAIN stack' :
             stack'[k].fn \in needed' <=>
                \/ Wanted(stack[k].fn)'
                \/ \E i \in DOMAIN next_edges'[stack'[k].fn] :
                      i < Answered(k)' /\ next_edges'[stack'[k].fn][i] \in Leads'
      <3> SUFFICES stack'[1].fn \in needed' <=>
                     \/ Wanted(stack[1].fn)'
                     \/ \E i \in DOMAIN next_edges'[stack'[1].fn] :
                           i < Answered(1)' /\ next_edges'[stack'[1].fn][i] \in Leads'
        BY <1>3
      <3>1. ~ \E i \in DOMAIN next_edges'[stack'[1].fn] :
                 i < Answered(1)' /\ next_edges'[stack'[1].fn][i] \in Leads'
        BY <1>2, <1>3, <1>6, <2>1
      <3>2. stack'[1].fn \in needed' <=> Wanted(stack[1].fn)'
        BY <2>2 DEF Wanted
      <3> QED BY <3>1, <3>2
    <2> QED BY <1>4, <2>2, <2>3 DEF Marked
  <1> QED BY <1>7, <1>8, <1>9

(* What holds of the child the top frame looks at: it is not on the stack,  *)
(* and if it was seen its visit is over and its mark says whether it leads  *)
(* to an output                                                             *)
LEMMA FinishedIsDecided ==
  ASSUME TypeOK, Numbered, Called, Marking, walk = "exec", NEW n \in Finished
  PROVE  n \in Nodes /\ (ShouldExecute(n) <=> n \in Leads)
  <1>1. /\ root \in Nodes /\ seen \subseteq Nodes /\ outputs \subseteq Leads
        /\ \A m \in Nodes : m \in Leads <=> m \in outputs \/ Graph!Children(m) \cap Leads # {}
    BY MarkFacts
  <1>2. n \in Nodes
    BY <1>1 DEF Finished
  <1>3. n \in needed <=> Wanted(n) \/ Graph!Children(n) \cap Leads # {}
    BY DEF Marking, Marked
  <1>4. accumulate_grad \in BOOLEAN
    BY DEF TypeOK
  <1> QED BY <1>1, <1>2, <1>3, <1>4 DEF ShouldExecute, Wanted

LEMMA StackFacts ==
  ASSUME TypeOK, Numbered, Called, Marking, walk = "exec", stack # <<>>
  PROVE  /\ StackIsPath /\ SeenIsReached /\ ChildrenAreSeen /\ Marked
         /\ stack \in Seq(Frames) /\ DOMAIN stack = 1 .. Len(stack)
         /\ Len(stack) \in Nat /\ Len(stack) >= 1
         /\ \A k \in 1 .. Len(stack) :
               /\ stack[k].fn \in Nodes /\ stack[k].fn \in created /\ stack[k].next_next_fn \in Nat
               /\ stack[k].fn \in seen \cup {root} /\ stack[k].fn \in OnStack
               /\ DOMAIN next_edges[stack[k].fn] = 1 .. Len(next_edges[stack[k].fn])
               /\ Len(next_edges[stack[k].fn]) \in Nat
               /\ k < Len(stack) => stack[k].fn # stack[Len(stack)].fn
  <1>1. StackIsPath /\ SeenIsReached /\ ChildrenAreSeen /\ Marked
    BY DEF Marking
  <1>2. stack \in Seq(Frames) /\ topological_nr \in [Nodes -> Nat] /\ created \subseteq Nodes
    BY DEF TypeOK, Frames
  <1>3. DOMAIN stack = 1 .. Len(stack) /\ Len(stack) \in Nat /\ Len(stack) >= 1
    BY <1>2, LenProperties, EmptySeq
  <1>4. ASSUME NEW k \in 1 .. Len(stack)
        PROVE  /\ stack[k].fn \in Nodes /\ stack[k].fn \in created /\ stack[k].next_next_fn \in Nat
               /\ stack[k].fn \in seen \cup {root} /\ stack[k].fn \in OnStack
               /\ DOMAIN next_edges[stack[k].fn] = 1 .. Len(next_edges[stack[k].fn])
               /\ Len(next_edges[stack[k].fn]) \in Nat
               /\ k < Len(stack) => stack[k].fn # stack[Len(stack)].fn
    <2>1. stack[k] \in Frames
      BY <1>2, ElementOfSeq
    <2>2. stack[k].fn \in Nodes /\ stack[k].fn \in created /\ stack[k].next_next_fn \in Nat
      BY <1>2, <2>1 DEF Frames
    <2>3. stack[k].fn \in seen \cup {root}
      <3>1. CASE k = 1
        BY <1>1, <3>1 DEF StackIsPath
      <3>2. CASE k > 1
        BY <1>1, <1>3, <3>2 DEF StackIsPath
      <3> QED BY <3>1, <3>2
    <2>4. stack[k].fn \in OnStack
      BY <1>3 DEF OnStack
    <2>5. DOMAIN next_edges[stack[k].fn] = 1 .. Len(next_edges[stack[k].fn])
          /\ Len(next_edges[stack[k].fn]) \in Nat
      BY <2>2, ChildFacts
    <2>6. ASSUME k < Len(stack) PROVE stack[k].fn # stack[Len(stack)].fn
      <3>1. Len(stack) \in DOMAIN stack /\ k \in DOMAIN stack
        BY <1>3
      <3>2. topological_nr[stack[Len(stack)].fn] < topological_nr[stack[k].fn]
        BY <1>1, <2>6, <3>1 DEF StackIsPath
      <3>3. topological_nr[stack[k].fn] \in Nat
        BY <1>2, <2>2
      <3> QED BY <3>2, <3>3
    <2> QED BY <2>2, <2>3, <2>4, <2>5, <2>6
  <1> QED BY <1>1, <1>2, <1>3, <1>4

LEMMA ChildIsFresh ==
  ASSUME TypeOK, Numbered, Called, Marking, walk = "exec", stack # <<>>,
         NEW c \in Graph!Children(stack[Len(stack)].fn)
  PROVE  /\ c \in Nodes /\ c # root /\ c \notin OnStack
         /\ topological_nr[c] < topological_nr[root]
         /\ \A k \in DOMAIN stack : topological_nr[c] < topological_nr[stack[k].fn]
  <1> DEFINE f == stack[Len(stack)].fn
  <1>0. /\ StackIsPath /\ DOMAIN stack = 1 .. Len(stack) /\ Len(stack) \in DOMAIN stack
        /\ Len(stack) \in Nat /\ 1 \in DOMAIN stack
        /\ \A k \in DOMAIN stack : stack[k].fn \in Nodes
    BY StackFacts
  <1>1. topological_nr \in [Nodes -> Nat] /\ root \in Nodes
    BY MarkFacts
  <1>2. c \in Nodes /\ topological_nr[c] < topological_nr[f]
    BY <1>0, ChildFacts
  <1>3. ASSUME NEW k \in DOMAIN stack PROVE topological_nr[c] < topological_nr[stack[k].fn]
    <2>1. topological_nr[c] \in Nat /\ topological_nr[f] \in Nat /\ topological_nr[stack[k].fn] \in Nat
      BY <1>0, <1>1, <1>2
    <2>2. CASE k = Len(stack)
      BY <1>2, <2>2
    <2>3. CASE k < Len(stack)
      <3>1. topological_nr[f] < topological_nr[stack[k].fn]
        BY <1>0, <2>3 DEF StackIsPath
      <3> QED BY <1>2, <2>1, <3>1
    <2> QED BY <1>0, <2>2, <2>3
  <1>4. topological_nr[c] < topological_nr[root]
    <2>1. stack[1].fn = root
      BY <1>0 DEF StackIsPath
    <2> QED BY <1>0, <1>3, <2>1
  <1>5. topological_nr[c] \in Nat
    BY <1>1, <1>2
  <1>6. c # root
    BY <1>4, <1>5
  <1>7. c \notin OnStack
    BY <1>3, <1>5 DEF OnStack
  <1> QED BY <1>2, <1>3, <1>4, <1>6, <1>7

(* The top frame moves past its child; the child is pushed, or it is null,  *)
(* was seen before or is too old and is decided already                     *)
Moves(N, f, i, child, pushed) ==
    /\ N = Len(stack) /\ f = stack[N].fn /\ i = stack[N].next_next_fn
    /\ i <= Len(next_edges[f]) /\ child = next_edges[f][i]
    /\ DOMAIN stack' = 1 .. Len(stack') /\ Len(stack') = IF pushed THEN N + 1 ELSE N
    /\ \A k \in 1 .. N :
          /\ stack'[k].fn = stack[k].fn
          /\ stack'[k].next_next_fn = IF k = N THEN i + 1 ELSE stack[k].next_next_fn
    /\ pushed => /\ child # None /\ child \notin seen /\ ~TooOld(child)
                 /\ stack'[N + 1].fn = child /\ stack'[N + 1].next_next_fn = 1
                 /\ needed' = needed
    /\ ~pushed => /\ child # None /\ child \notin seen => TooOld(child)
                  /\ needed' = needed \cup (IF child \in Leads THEN {f} ELSE {})
    /\ seen' = seen \cup ({child} \ {None})
    /\ UNCHANGED <<graphVars, argVars>>

LEMMA ChildStep ==
  ASSUME TypeOK, Numbered, Called, Marking, walk = "exec", stack # <<>>,
         NEW N, NEW f, NEW i, NEW child, NEW pushed \in BOOLEAN, Moves(N, f, i, child, pushed)
  PROVE  StackIsPath' /\ SeenIsReached' /\ ChildrenAreSeen' /\ Marked'
  <1> USE DEF Moves
  <1>0. /\ StackIsPath /\ SeenIsReached /\ ChildrenAreSeen /\ Marked
        /\ DOMAIN stack = 1 .. N /\ N \in Nat /\ N >= 1 /\ N \in 1 .. N /\ 1 \in 1 .. N
        /\ \A k \in 1 .. N :
              /\ stack[k].fn \in Nodes /\ stack[k].next_next_fn \in Nat
              /\ stack[k].fn \in seen \cup {root} /\ stack[k].fn \in OnStack
              /\ DOMAIN next_edges[stack[k].fn] = 1 .. Len(next_edges[stack[k].fn])
              /\ Len(next_edges[stack[k].fn]) \in Nat
              /\ k < N => stack[k].fn # f
    BY StackFacts
  <1>1. /\ root \in Nodes /\ None \notin Nodes /\ seen \subseteq Nodes /\ Leads \subseteq Nodes
        /\ topological_nr \in [Nodes -> Nat]
        /\ \A m \in Reach : ~TooOld(m) => Graph!Children(m) \subseteq Reach
        /\ root \in Reach
        /\ \A m \in Leads : ~TooOld(m)
        /\ \A m \in Nodes : TooOld(m) => \A c \in Graph!Children(m) : TooOld(c)
    BY MarkFacts
  <1>2. /\ Reach' = Reach /\ Leads' = Leads
        /\ \A m : Graph!Children(m)' = Graph!Children(m)
        /\ \A m : TooOld(m)' <=> TooOld(m)
        /\ \A m : Wanted(m)' <=> Wanted(m)
        /\ next_edges' = next_edges /\ topological_nr' = topological_nr /\ root' = root
        /\ min_topo_nr' = min_topo_nr
        /\ outputs' = outputs /\ accumulate_grad' = accumulate_grad
    <2>1. root' = root /\ outputs' = outputs /\ min_topo_nr' = min_topo_nr
          /\ next_edges' = next_edges /\ topological_nr' = topological_nr
          /\ accumulate_grad' = accumulate_grad
      BY DEF argVars, graphVars
    <2> QED BY <2>1, GraphIsFixed DEF TooOld, Wanted
  <1>3. /\ f \in Nodes /\ f \in OnStack /\ f \in seen \cup {root} /\ i \in Nat /\ i >= 1
        /\ DOMAIN next_edges[f] = 1 .. Len(next_edges[f]) /\ Len(next_edges[f]) \in Nat
        /\ i \in DOMAIN next_edges[f]
    BY <1>0 DEF StackIsPath
  <1>4. child # None => /\ child \in Graph!Children(f) /\ child \in Nodes
                        /\ child # root /\ child \notin OnStack
                        /\ topological_nr[child] < topological_nr[root]
                        /\ \A k \in 1 .. N : topological_nr[child] < topological_nr[stack[k].fn]
    <2> SUFFICES ASSUME child # None
                 PROVE  /\ child \in Graph!Children(f) /\ child \in Nodes
                        /\ child # root /\ child \notin OnStack
                        /\ topological_nr[child] < topological_nr[root]
                        /\ \A k \in 1 .. N : topological_nr[child] < topological_nr[stack[k].fn]
      OBVIOUS
    <2>1. child \in Graph!Children(f)
      BY <1>3, ChildFacts
    <2>2. child \in Graph!Children(stack[Len(stack)].fn)
      BY <2>1
    <2> QED BY <1>0, <2>1, <2>2, ChildIsFresh
  <1>5. DOMAIN stack' = IF pushed THEN 1 .. N + 1 ELSE 1 .. N
    OBVIOUS
  <1>6. \A k \in DOMAIN stack' : k \in 1 .. N \/ (pushed /\ k = N + 1)
    BY <1>0, <1>5
  <1>7. \A k \in 1 .. N : k \in DOMAIN stack'
    BY <1>0, <1>5
  <1>8. pushed => N + 1 \in DOMAIN stack'
    BY <1>0, <1>5
  <1>9. OnStack' = OnStack \cup (IF pushed THEN {child} ELSE {})
    <2>1. OnStack' = {stack'[k].fn : k \in DOMAIN stack'} /\ OnStack = {stack[k].fn : k \in 1 .. N}
      BY <1>0 DEF OnStack
    <2>2. ASSUME NEW x \in OnStack' PROVE x \in OnStack \cup (IF pushed THEN {child} ELSE {})
      <3>1. PICK k \in DOMAIN stack' : x = stack'[k].fn
        BY <2>1
      <3> QED BY <1>6, <2>1, <3>1
    <2>3. ASSUME NEW x \in OnStack PROVE x \in OnStack'
      BY <1>7, <2>1
    <2>4. pushed => child \in OnStack'
      BY <1>8, <2>1
    <2> QED BY <2>2, <2>3, <2>4
  <1>10. \A n \in Finished' :
            \/ n \in Finished
            \/ ~pushed /\ n = child /\ child # None /\ child \notin seen /\ TooOld(child)
    BY <1>2, <1>9 DEF Finished
  <1>11. StackIsPath'
    <2>1. stack'[1].fn = root'
      BY <1>0, <1>2 DEF StackIsPath
    <2>2. ASSUME NEW k \in DOMAIN stack'
          PROVE  /\ stack'[k].next_next_fn \in 1 .. Len(next_edges'[stack'[k].fn]) + 1
                 /\ k < Len(stack') =>
                       /\ stack'[k].next_next_fn > 1
                       /\ stack'[k + 1].fn = next_edges'[stack'[k].fn][stack'[k].next_next_fn - 1]
                 /\ k > 1 => stack'[k].fn \in seen' /\ ~TooOld(stack[k].fn)'
      <3>1. CASE k = N
        <4>0. k \in 1 .. N
          BY <1>0, <3>1
        <4>1. stack'[k].fn = f /\ stack'[k].next_next_fn = i + 1
          BY <3>1, <4>0
        <4>2. stack'[k].next_next_fn \in 1 .. Len(next_edges'[stack'[k].fn]) + 1
          BY <1>2, <1>3, <4>1
        <4>3. ASSUME k < Len(stack')
              PROVE  /\ stack'[k].next_next_fn > 1
                     /\ stack'[k + 1].fn = next_edges'[stack'[k].fn][stack'[k].next_next_fn - 1]
          <5>1. pushed
            BY <1>0, <3>1, <4>3
          <5>2. stack'[k + 1].fn = child /\ stack'[k].next_next_fn - 1 = i
            BY <1>3, <3>1, <4>1, <5>1
          <5> QED BY <1>2, <1>3, <4>1, <5>2
        <4>4. ASSUME k > 1 PROVE stack'[k].fn \in seen' /\ ~TooOld(stack[k].fn)'
          <5>1. f \in seen /\ ~TooOld(f)
            BY <1>0, <3>1, <4>0, <4>4 DEF StackIsPath
          <5>2. TooOld(stack[k].fn)' <=> TooOld(f)
            BY <1>2, <4>1 DEF TooOld
          <5> QED BY <4>1, <5>1, <5>2
        <4> QED BY <4>2, <4>3, <4>4
      <3>2. CASE k \in 1 .. N /\ k < N
        <4>1. /\ stack'[k].fn = stack[k].fn /\ stack'[k].next_next_fn = stack[k].next_next_fn
              /\ k + 1 \in 1 .. N /\ stack'[k + 1].fn = stack[k + 1].fn
          BY <1>0, <3>2
        <4>2. TooOld(stack[k].fn)' <=> TooOld(stack[k].fn)
          BY <1>2, <4>1 DEF TooOld
        <4> QED BY <1>0, <1>2, <3>2, <4>1, <4>2 DEF StackIsPath
      <3>3. CASE pushed /\ k = N + 1
        <4>1. child \in Nodes /\ child \in seen'
          BY <1>4, <3>3
        <4>2. DOMAIN next_edges[child] = 1 .. Len(next_edges[child]) /\ Len(next_edges[child]) \in Nat
          BY <4>1, ChildFacts
        <4>3. 1 \in 1 .. Len(next_edges[child]) + 1
          <5> DEFINE n == Len(next_edges[child])
          <5>1. n \in Nat
            BY <4>2
          <5> HIDE DEF n
          <5>2. 1 \in 1 .. n + 1
            BY <5>1
          <5> QED BY <5>2 DEF n
        <4>4. ~(k < Len(stack'))
          BY <1>0, <3>3
        <4>5. TooOld(stack[k].fn)' <=> TooOld(child)
          BY <1>2, <3>3 DEF TooOld
        <4> QED BY <1>2, <3>3, <4>1, <4>3, <4>4, <4>5
      <3>4. k \in 1 .. N => k = N \/ k < N
        BY <1>0
      <3> QED BY <1>6, <3>1, <3>2, <3>3, <3>4
    <2>3. ASSUME NEW j \in DOMAIN stack', NEW k \in DOMAIN stack', j < k
          PROVE  topological_nr'[stack'[k].fn] < topological_nr'[stack'[j].fn]
      <3>1. j \in 1 .. N
        BY <1>0, <1>5, <2>3
      <3>2. CASE k \in 1 .. N
        BY <1>0, <1>2, <2>3, <3>1, <3>2 DEF StackIsPath
      <3>3. CASE pushed /\ k = N + 1
        BY <1>2, <1>4, <3>1, <3>3
      <3> QED BY <1>6, <3>2, <3>3
    <2> QED BY <2>1, <2>2, <2>3 DEF StackIsPath
  <1>12. SeenIsReached'
    <2>1. ASSUME NEW n \in seen'
          PROVE  topological_nr'[n] < topological_nr'[root'] /\ (TooOld(n)' \/ n \in Reach')
      <3>1. CASE n \in seen
        BY <1>0, <1>2, <3>1 DEF SeenIsReached
      <3>2. CASE n = child /\ child # None
        <4>1. f \in Reach \/ TooOld(f)
          BY <1>0, <1>1, <1>3 DEF SeenIsReached
        <4>2. CASE TooOld(f)
          BY <1>1, <1>2, <1>3, <1>4, <3>2, <4>2
        <4>3. CASE f \in Reach /\ ~TooOld(f)
          BY <1>1, <1>2, <1>4, <3>2, <4>3
        <4> QED BY <4>1, <4>2, <4>3
      <3> QED BY <3>1, <3>2
    <2> QED BY <2>1 DEF SeenIsReached
  <1>13. ChildrenAreSeen'
    <2>1. ASSUME NEW n \in Finished' PROVE TooOld(n)' \/ Graph!Children(n)' \subseteq seen'
      BY <1>0, <1>2, <1>10 DEF ChildrenAreSeen
    <2>2. ASSUME NEW k \in DOMAIN stack', NEW j \in DOMAIN next_edges'[stack'[k].fn],
                 j < stack'[k].next_next_fn, next_edges'[stack'[k].fn][j] # None
          PROVE  next_edges'[stack'[k].fn][j] \in seen'
      <3>1. CASE k = N
        <4>0. k \in 1 .. N
          BY <1>0, <3>1
        <4>1. stack'[k].fn = f /\ stack'[k].next_next_fn = i + 1
          BY <3>1, <4>0
        <4>2. j \in 1 .. Len(next_edges[f]) /\ (j < i \/ j = i)
          BY <1>2, <1>3, <2>2, <4>1
        <4>3. CASE j < i
          BY <1>0, <1>2, <1>3, <2>2, <3>1, <4>0, <4>1, <4>2, <4>3 DEF ChildrenAreSeen
        <4>4. CASE j = i
          BY <1>2, <2>2, <4>1, <4>4
        <4> QED BY <4>2, <4>3, <4>4
      <3>2. CASE k \in 1 .. N /\ k # N
        BY <1>0, <1>2, <2>2, <3>2 DEF ChildrenAreSeen
      <3>3. CASE pushed /\ k = N + 1
        <4>1. child \in Nodes /\ stack'[k].fn = child /\ stack'[k].next_next_fn = 1
          BY <1>4, <3>3
        <4>2. DOMAIN next_edges[child] = 1 .. Len(next_edges[child]) /\ Len(next_edges[child]) \in Nat
          BY <4>1, ChildFacts
        <4> QED BY <1>2, <2>2, <4>1, <4>2
      <3> QED BY <1>6, <3>1, <3>2, <3>3
    <2> QED BY <2>1, <2>2 DEF ChildrenAreSeen
  <1>14. Marked'
    <2>1. ASSUME NEW n, n # f PROVE n \in needed' <=> n \in needed
      BY <2>1
    <2>2. ASSUME NEW n \in Nodes \ (seen' \cup {root'}) PROVE n \in needed' <=> Wanted(n)'
      <3>1. n \in Nodes \ (seen \cup {root}) /\ n # f
        BY <1>2, <1>3
      <3> QED BY <1>0, <1>2, <2>1, <3>1 DEF Marked
    <2>3. ASSUME NEW n \in Finished'
          PROVE  n \in needed' <=> Wanted(n)' \/ Graph!Children(n)' \cap Leads' # {}
      <3>1. CASE n \in Finished
        <4>1. n # f
          BY <1>3, <3>1 DEF Finished
        <4> QED BY <1>0, <1>2, <2>1, <3>1, <4>1 DEF Marked
      <3>2. CASE ~pushed /\ n = child /\ child # None /\ child \notin seen /\ TooOld(child)
        <4>1. n \in Nodes \ (seen \cup {root}) /\ n # f
          BY <1>3, <1>4, <3>2
        <4>2. n \in needed' <=> Wanted(n)
          BY <1>0, <2>1, <4>1 DEF Marked
        <4>3. Graph!Children(n) \cap Leads = {}
          BY <1>1, <3>2, <4>1
        <4> QED BY <1>2, <4>2, <4>3
      <3> QED BY <1>10, <3>1, <3>2
    <2>4. ASSUME NEW k \in DOMAIN stack'
          PROVE  stack'[k].fn \in needed' <=>
                   \/ Wanted(stack[k].fn)'
                   \/ \E j \in DOMAIN next_edges'[stack'[k].fn] :
                         j < Answered(k)' /\ next_edges'[stack'[k].fn][j] \in Leads'
      <3>0. Answered(k)' = IF k < Len(stack') THEN stack'[k].next_next_fn - 1 ELSE stack'[k].next_next_fn
        BY DEF Answered
      <3>1. CASE k = N
        <4>0. k \in 1 .. N
          BY <1>0, <3>1
        <4>1. stack'[k].fn = f /\ stack'[k].next_next_fn = i + 1
          BY <3>1, <4>0
        <4>2. Answered(k) = i
          BY <1>0, <3>1 DEF Answered
        <4>3. f \in needed <=> Wanted(f) \/ \E j \in DOMAIN next_edges[f] :
                                     j < i /\ next_edges[f][j] \in Leads
          BY <1>0, <3>1, <4>0, <4>2 DEF Marked
        <4>4. Wanted(stack[k].fn)' <=> Wanted(f)
          BY <1>2, <4>1 DEF Wanted
        <4>5. CASE pushed
          <5>1. Answered(k)' = i
            BY <1>0, <1>3, <3>0, <3>1, <4>1, <4>5
          <5> QED BY <1>2, <4>1, <4>3, <4>4, <4>5, <5>1
        <4>6. CASE ~pushed
          <5>1. Answered(k)' = i + 1
            BY <1>0, <1>3, <3>0, <3>1, <4>1, <4>6
          <5>2. \A j \in DOMAIN next_edges[f] : j < i + 1 <=> j < i \/ j = i
            BY <1>3
          <5>3. f \in needed' <=> f \in needed \/ child \in Leads
            BY <4>6
          <5> QED BY <1>2, <1>3, <4>1, <4>3, <4>4, <5>1, <5>2, <5>3
        <4> QED BY <4>5, <4>6
      <3>2. CASE k \in 1 .. N /\ k < N
        <4>1. stack'[k].fn = stack[k].fn /\ stack'[k].next_next_fn = stack[k].next_next_fn
              /\ stack[k].fn # f
          BY <1>0, <3>2
        <4>2. Answered(k)' = Answered(k)
          <5>1. k < Len(stack')
            BY <1>0, <3>2
          <5> QED BY <3>0, <3>2, <4>1, <5>1 DEF Answered
        <4>3. Wanted(stack[k].fn)' <=> Wanted(stack[k].fn)
          BY <1>2, <4>1 DEF Wanted
        <4>4. stack[k].fn \in needed' <=> stack[k].fn \in needed
          BY <2>1, <4>1
        <4> QED BY <1>0, <1>2, <3>2, <4>1, <4>2, <4>3, <4>4 DEF Marked
      <3>3. CASE pushed /\ k = N + 1
        <4>1. /\ child \in Nodes \ (seen \cup {root}) /\ child # f
              /\ stack'[k].fn = child /\ stack'[k].next_next_fn = 1
          BY <1>3, <1>4, <3>3
        <4>2. child \in needed' <=> Wanted(child)
          BY <1>0, <2>1, <4>1 DEF Marked
        <4>3. Wanted(stack[k].fn)' <=> Wanted(child)
          BY <1>2, <4>1 DEF Wanted
        <4>4. Answered(k)' = 1
          BY <1>0, <3>0, <3>3, <4>1
        <4>5. DOMAIN next_edges[child] = 1 .. Len(next_edges[child]) /\ Len(next_edges[child]) \in Nat
          BY <4>1, ChildFacts
        <4>6. \A j \in DOMAIN next_edges[child] : ~(j < 1)
          BY <4>5
        <4> QED BY <1>2, <4>1, <4>2, <4>3, <4>4, <4>6
      <3>4. k \in 1 .. N => k = N \/ k < N
        BY <1>0
      <3> QED BY <1>6, <3>1, <3>2, <3>3, <3>4
    <2> QED BY <2>2, <2>3, <2>4 DEF Marked
  <1> QED BY <1>11, <1>12, <1>13, <1>14

LEMMA MarkChild ==
  ASSUME TypeOK, Numbered, Called, Marking, ExecChild
  PROVE  Marking'
  <1> DEFINE N == Len(stack)
             f == stack[N].fn
             i == stack[N].next_next_fn
             child == next_edges[f][i]
             new == [fn |-> child, next_next_fn |-> 1]
  <1>1. /\ walk = "exec" /\ stack # <<>> /\ UNCHANGED <<graphVars, walk, argVars>>
        /\ i <= Len(next_edges[f])
    BY DEF ExecChild, Top
  <1>2. /\ stack \in Seq(Frames) /\ N \in Nat /\ N >= 1 /\ f \in created /\ i \in Nat /\ i >= 1
        /\ f \in Nodes /\ f \in OnStack /\ DOMAIN next_edges[f] = 1 .. Len(next_edges[f])
    <2>1. StackIsPath /\ DOMAIN stack = 1 .. N
      BY <1>1, StackFacts
    <2> QED BY <1>1, <2>1, StackFacts DEF StackIsPath
  <1>3. /\ Advance(stack) \in Seq(Frames) /\ Len(Advance(stack)) = N
        /\ DOMAIN Advance(stack) = 1 .. N
        /\ \A k \in 1 .. N : Advance(stack)[k].fn = stack[k].fn
        /\ \A k \in 1 .. N : Advance(stack)[k].next_next_fn =
              IF k = N THEN stack[k].next_next_fn + 1 ELSE stack[k].next_next_fn
    BY <1>1, <1>2, AdvancedStack
  <1>4. child \in created \cup {None}
    BY <1>1, <1>2, EdgeTarget
  <1>5. child # None => child \in Graph!Children(f)
    BY <1>1, <1>2, <1>4, ChildFacts
  <1>6. child # None => child \in Nodes /\ child # root /\ child \notin OnStack
    BY <1>1, <1>5, ChildIsFresh
  <1>7. /\ Leads \subseteq Nodes /\ None \notin Nodes /\ \A m \in Leads : ~TooOld(m)
    BY <1>1, MarkFacts
  <1>8. CASE child = None
    <2>1. stack' = Advance(stack) /\ UNCHANGED <<seen, needed>>
      BY <1>8 DEF ExecChild, Top
    <2>2. child \notin Leads
      BY <1>7, <1>8
    <2>3. StackIsPath' /\ SeenIsReached' /\ ChildrenAreSeen' /\ Marked'
      <3>1. Moves(N, f, i, child, FALSE)
        BY <1>1, <1>2, <1>3, <1>8, <2>1, <2>2 DEF Moves
      <3>2. TypeOK /\ Numbered /\ Called /\ Marking /\ walk = "exec" /\ stack # <<>>
        BY <1>1
      <3> HIDE DEF N, f, i, child
      <3> QED BY <3>1, <3>2, ChildStep
    <2> QED BY <2>3 DEF Marking
  <1>9. CASE child # None /\ child \in seen
    <2>1. stack' = Advance(stack) /\ seen' = seen /\ needed' = MarkSeen(f, child)
      BY <1>9 DEF ExecChild, Top
    <2>2. ShouldExecute(child) <=> child \in Leads
      <3>1. child \in Finished
        BY <1>6, <1>9 DEF Finished
      <3> QED BY <1>1, <3>1, FinishedIsDecided
    <2>3. needed' = needed \cup (IF child \in Leads THEN {f} ELSE {})
      BY <2>1, <2>2 DEF MarkSeen
    <2>4. seen' = seen \cup ({child} \ {None})
      BY <1>9, <2>1
    <2>5. StackIsPath' /\ SeenIsReached' /\ ChildrenAreSeen' /\ Marked'
      <3>1. Moves(N, f, i, child, FALSE)
        BY <1>1, <1>2, <1>3, <1>9, <2>1, <2>3, <2>4 DEF Moves
      <3>2. TypeOK /\ Numbered /\ Called /\ Marking /\ walk = "exec" /\ stack # <<>>
        BY <1>1
      <3> HIDE DEF N, f, i, child
      <3> QED BY <3>1, <3>2, ChildStep
    <2> QED BY <2>5 DEF Marking
  <1>10. CASE child # None /\ child \notin seen /\ TooOld(child)
    <2>1. stack' = Advance(stack) /\ seen' = seen \cup {child} /\ needed' = needed
      BY <1>10 DEF ExecChild, Top
    <2>2. child \notin Leads
      BY <1>7, <1>10
    <2>3. StackIsPath' /\ SeenIsReached' /\ ChildrenAreSeen' /\ Marked'
      <3>1. Moves(N, f, i, child, FALSE)
        BY <1>1, <1>2, <1>3, <1>10, <2>1, <2>2 DEF Moves
      <3>2. TypeOK /\ Numbered /\ Called /\ Marking /\ walk = "exec" /\ stack # <<>>
        BY <1>1
      <3> HIDE DEF N, f, i, child
      <3> QED BY <3>1, <3>2, ChildStep
    <2> QED BY <2>3 DEF Marking
  <1>11. CASE child # None /\ child \notin seen /\ ~TooOld(child)
    <2>1. stack' = Append(Advance(stack), new) /\ seen' = seen \cup {child} /\ needed' = needed
      BY <1>11 DEF ExecChild, Top
    <2>2. new \in Frames /\ new.fn = child /\ new.next_next_fn = 1
      BY <1>4, <1>11 DEF Frames
    <2>3. /\ stack' \in Seq(Frames) /\ Len(stack') = N + 1 /\ DOMAIN stack' = 1 .. N + 1
          /\ \A k \in 1 .. N : stack'[k] = Advance(stack)[k]
          /\ stack'[N + 1] = new
      <3> DEFINE old == Advance(stack)
      <3>1. stack' = Append(old, new) /\ old \in Seq(Frames) /\ Len(old) = N
        BY <1>3, <2>1
      <3> HIDE DEF new, old, N
      <3>2. /\ stack' \in Seq(Frames) /\ Len(stack') = N + 1
            /\ \A k \in 1 .. N : stack'[k] = old[k]
            /\ stack'[N + 1] = new
        BY <2>2, <3>1, AppendProperties
      <3> QED BY <3>2, LenProperties DEF old
    <2>4. StackIsPath' /\ SeenIsReached' /\ ChildrenAreSeen' /\ Marked'
      <3>1. Moves(N, f, i, child, TRUE)
        BY <1>1, <1>2, <1>3, <1>11, <2>1, <2>2, <2>3 DEF Moves
      <3>2. TypeOK /\ Numbered /\ Called /\ Marking /\ walk = "exec" /\ stack # <<>>
        BY <1>1
      <3> HIDE DEF N, f, i, child
      <3> QED BY <3>1, <3>2, ChildStep
    <2> QED BY <2>4 DEF Marking
  <1> QED BY <1>8, <1>9, <1>10, <1>11

(* A frame that has looked at all its children is decided, and tells the    *)
(* frame below                                                              *)
LEMMA MarkPop ==
  ASSUME TypeOK, Numbered, Called, Marking, ExecPop
  PROVE  Marking'
  <1> SUFFICES ASSUME NEW N, N = Len(stack), NEW f, f = stack[N].fn
               PROVE  StackIsPath' /\ SeenIsReached' /\ ChildrenAreSeen' /\ Marked'
    BY DEF Marking
  <1>1. /\ walk = "exec" /\ stack # <<>> /\ stack' = Pop(stack) /\ seen' = seen
        /\ stack[N].next_next_fn > Len(next_edges[f]) /\ UNCHANGED <<graphVars, argVars>>
    BY DEF ExecPop, Top
  <1>2. /\ StackIsPath /\ SeenIsReached /\ ChildrenAreSeen /\ Marked
        /\ stack \in Seq(Frames)
        /\ DOMAIN stack = 1 .. N /\ N \in Nat /\ N >= 1 /\ N \in 1 .. N /\ 1 \in 1 .. N
        /\ \A k \in 1 .. N :
              /\ stack[k].fn \in Nodes /\ stack[k].next_next_fn \in Nat
              /\ stack[k].fn \in seen \cup {root} /\ stack[k].fn \in OnStack
              /\ DOMAIN next_edges[stack[k].fn] = 1 .. Len(next_edges[stack[k].fn])
              /\ Len(next_edges[stack[k].fn]) \in Nat
              /\ k < N => stack[k].fn # f
    BY <1>1, StackFacts
  <1>3. /\ root \in Nodes /\ None \notin Nodes /\ Leads \subseteq Nodes
        /\ topological_nr \in [Nodes -> Nat] /\ outputs \subseteq Leads
        /\ \A m \in Nodes : m \in Leads <=> m \in outputs \/ Graph!Children(m) \cap Leads # {}
    BY <1>1, MarkFacts
  <1>4. /\ Reach' = Reach /\ Leads' = Leads
        /\ \A m : Graph!Children(m)' = Graph!Children(m)
        /\ \A m : TooOld(m)' <=> TooOld(m)
        /\ \A m : Wanted(m)' <=> Wanted(m)
        /\ next_edges' = next_edges /\ topological_nr' = topological_nr /\ root' = root
        /\ min_topo_nr' = min_topo_nr
        /\ outputs' = outputs /\ accumulate_grad' = accumulate_grad
    <2>1. root' = root /\ outputs' = outputs /\ min_topo_nr' = min_topo_nr
          /\ next_edges' = next_edges /\ topological_nr' = topological_nr
          /\ accumulate_grad' = accumulate_grad
      BY <1>1 DEF argVars, graphVars
    <2> QED BY <1>1, <2>1, GraphIsFixed DEF TooOld, Wanted
  <1>5. /\ stack' \in Seq(Frames) /\ Len(stack') = N - 1 /\ DOMAIN stack' = 1 .. N - 1
        /\ \A k \in 1 .. N - 1 : stack'[k] = stack[k]
        /\ \A k \in 1 .. N - 1 : k \in 1 .. N /\ k < N
    <2>1. /\ Pop(stack) \in Seq(Frames) /\ Len(Pop(stack)) = N - 1
          /\ \A k \in 1 .. N - 1 : Pop(stack)[k] = stack[k]
      BY <1>1, <1>2, TopAndPop
    <2>2. DOMAIN stack' = 1 .. N - 1
      BY <1>1, <2>1, LenProperties
    <2>3. \A k \in 1 .. N - 1 : k \in 1 .. N /\ k < N
      BY <1>2
    <2> QED BY <1>1, <2>1, <2>2, <2>3
  <1>6. f \in Nodes /\ f \in seen \cup {root} /\ f \in OnStack
    BY <1>2
  <1>7. \A j \in DOMAIN next_edges[f] : j < stack[N].next_next_fn
    <2> SUFFICES ASSUME NEW j \in DOMAIN next_edges[f] PROVE j < stack[N].next_next_fn
      OBVIOUS
    <2>1. j \in 1 .. Len(next_edges[f]) /\ Len(next_edges[f]) \in Nat /\ stack[N].next_next_fn \in Nat
      BY <1>2
    <2> QED BY <1>1, <2>1
  <1>8. f \in needed <=> Wanted(f) \/ Graph!Children(f) \cap Leads # {}
    <2>1. Answered(N) = stack[N].next_next_fn
      BY <1>2 DEF Answered
    <2>2. f \in needed <=> Wanted(f) \/ \E j \in DOMAIN next_edges[f] : next_edges[f][j] \in Leads
      BY <1>2, <1>7, <2>1 DEF Marked
    <2>3. (\E j \in DOMAIN next_edges[f] : next_edges[f][j] \in Leads)
             <=> Graph!Children(f) \cap Leads # {}
      BY <1>3, <1>6, ChildFacts
    <2> QED BY <2>2, <2>3
  <1>9. ShouldExecute(f) <=> f \in Leads
    <2>1. accumulate_grad \in BOOLEAN
      BY DEF TypeOK
    <2> QED BY <1>3, <1>6, <1>8, <2>1 DEF ShouldExecute, Wanted
  <1>10. \A n : n \in needed' <=> n \in needed \/ (N > 1 /\ f \in Leads /\ n = stack[N - 1].fn)
    <2>1. CASE N > 1
      <3>1. Pop(stack) # <<>>
        BY <1>1, <1>2, <1>5, <2>1, EmptySeq
      <3>2. N - 1 \in 1 .. N - 1
        BY <1>2, <2>1
      <3>3. Top(Pop(stack)) = stack[N - 1]
        BY <1>1, <1>5, <3>2 DEF Top
      <3> QED BY <1>9, <2>1, <3>3 DEF ExecPop, Top
    <2>2. CASE ~(N > 1)
      BY <2>2 DEF ExecPop
    <2> QED BY <2>1, <2>2
  <1>11. OnStack' = OnStack \ {f}
    <2>1. OnStack' = {stack[k].fn : k \in 1 .. N - 1}
      BY <1>5 DEF OnStack
    <2>2. OnStack = {stack[k].fn : k \in 1 .. N}
      BY <1>2 DEF OnStack
    <2>3. \A k \in 1 .. N : k = N \/ k \in 1 .. N - 1
      BY <1>2
    <2> QED BY <1>2, <1>5, <2>1, <2>2, <2>3
  <1>12. Finished' = Finished \cup {f}
    BY <1>1, <1>4, <1>6, <1>11 DEF Finished
  <1>13. StackIsPath'
    <2>1. ASSUME stack' # <<>> PROVE stack'[1].fn = root'
      <3>1. 1 \in 1 .. N - 1
        BY <1>2, <1>5, <2>1, EmptySeq
      <3> QED BY <1>2, <1>1, <1>4, <1>5, <3>1 DEF StackIsPath
    <2>2. ASSUME NEW k \in DOMAIN stack'
          PROVE  /\ stack'[k].next_next_fn \in 1 .. Len(next_edges'[stack'[k].fn]) + 1
                 /\ k < Len(stack') =>
                       /\ stack'[k].next_next_fn > 1
                       /\ stack'[k + 1].fn = next_edges'[stack'[k].fn][stack'[k].next_next_fn - 1]
                 /\ k > 1 => stack'[k].fn \in seen' /\ ~TooOld(stack[k].fn)'
      <3>1. k \in 1 .. N - 1 /\ k \in 1 .. N /\ k < N /\ stack'[k] = stack[k]
        BY <1>5
      <3>2. k < Len(stack') => stack'[k + 1] = stack[k + 1]
        BY <1>2, <1>5, <3>1
      <3>3. TooOld(stack[k].fn)' <=> TooOld(stack[k].fn)
        BY <1>4, <3>1 DEF TooOld
      <3> QED BY <1>1, <1>2, <1>4, <3>1, <3>2, <3>3 DEF StackIsPath
    <2>3. ASSUME NEW j \in DOMAIN stack', NEW k \in DOMAIN stack', j < k
          PROVE  topological_nr'[stack'[k].fn] < topological_nr'[stack'[j].fn]
      BY <1>2, <1>4, <1>5, <2>3 DEF StackIsPath
    <2> QED BY <2>1, <2>2, <2>3 DEF StackIsPath
  <1>14. SeenIsReached'
    BY <1>1, <1>2, <1>4 DEF SeenIsReached
  <1>15. ChildrenAreSeen'
    <2>1. Graph!Children(f) \subseteq seen
      <3> SUFFICES ASSUME NEW c \in Graph!Children(f) PROVE c \in seen
        OBVIOUS
      <3>1. PICK j \in DOMAIN next_edges[f] : c = next_edges[f][j] /\ c # None
        BY <1>6, ChildFacts
      <3> QED BY <1>2, <1>7, <3>1 DEF ChildrenAreSeen
    <2>2. ASSUME NEW n \in Finished' PROVE TooOld(n)' \/ Graph!Children(n)' \subseteq seen'
      BY <1>1, <1>2, <1>4, <1>12, <2>1 DEF ChildrenAreSeen
    <2>3. ASSUME NEW k \in DOMAIN stack', NEW j \in DOMAIN next_edges'[stack'[k].fn],
                 j < stack'[k].next_next_fn, next_edges'[stack'[k].fn][j] # None
          PROVE  next_edges'[stack'[k].fn][j] \in seen'
      BY <1>1, <1>2, <1>4, <1>5, <2>3 DEF ChildrenAreSeen
    <2> QED BY <2>2, <2>3 DEF ChildrenAreSeen
  <1>16. Marked'
    <2>1. N > 1 => N - 1 \in 1 .. N /\ N - 1 \in 1 .. N - 1 /\ N - 1 < N
      BY <1>2
    <2>2. ASSUME NEW n \in Nodes \ (seen' \cup {root'}) PROVE n \in needed' <=> Wanted(n)'
      <3>1. n \in Nodes \ (seen \cup {root})
        BY <1>1, <1>4
      <3>2. N > 1 => n # stack[N - 1].fn
        BY <1>2, <2>1, <3>1
      <3> QED BY <1>2, <1>4, <1>10, <3>1, <3>2 DEF Marked
    <2>3. ASSUME NEW n \in Finished'
          PROVE  n \in needed' <=> Wanted(n)' \/ Graph!Children(n)' \cap Leads' # {}
      <3>1. N > 1 => n # stack[N - 1].fn
        BY <1>2, <1>12, <2>1 DEF Finished
      <3>2. n \in needed' <=> n \in needed
        BY <1>10, <3>1
      <3>3. n \in needed <=> Wanted(n) \/ Graph!Children(n) \cap Leads # {}
        BY <1>2, <1>8, <1>12 DEF Marked
      <3> QED BY <1>4, <3>2, <3>3
    <2>4. ASSUME NEW k \in DOMAIN stack'
          PROVE  stack'[k].fn \in needed' <=>
                   \/ Wanted(stack[k].fn)'
                   \/ \E j \in DOMAIN next_edges'[stack'[k].fn] :
                         j < Answered(k)' /\ next_edges'[stack'[k].fn][j] \in Leads'
      <3> DEFINE h == stack[k].fn
      <3>0. k \in 1 .. N - 1 /\ k \in 1 .. N /\ k < N /\ stack'[k] = stack[k] /\ N > 1
        BY <1>2, <1>5
      <3>1. Answered(k) = stack[k].next_next_fn - 1
        BY <3>0 DEF Answered
      <3>2. h \in needed <=> Wanted(h) \/ \E j \in DOMAIN next_edges[h] :
               j < stack[k].next_next_fn - 1 /\ next_edges[h][j] \in Leads
        BY <1>2, <3>0, <3>1 DEF Marked
      <3>3. Wanted(stack[k].fn)' <=> Wanted(h)
        BY <1>4, <3>0 DEF Wanted
      <3>4. Answered(k)' = IF k < N - 1 THEN stack[k].next_next_fn - 1 ELSE stack[k].next_next_fn
        BY <1>5, <3>0 DEF Answered
      <3>5. CASE k < N - 1
        <4>1. topological_nr[stack[N - 1].fn] < topological_nr[h]
          BY <1>2, <2>1, <3>0, <3>5 DEF StackIsPath
        <4>2. topological_nr[h] \in Nat
          BY <1>2, <1>3, <3>0
        <4>3. h # stack[N - 1].fn
          BY <4>1, <4>2
        <4>4. h \in needed' <=> h \in needed
          BY <1>10, <4>3
        <4> QED BY <1>4, <3>0, <3>2, <3>3, <3>4, <3>5, <4>4
      <3>6. CASE k = N - 1
        <4>1. h \in needed' <=> h \in needed \/ f \in Leads
          BY <1>10, <3>0, <3>6
        <4> DEFINE d == stack[k].next_next_fn - 1
        <4>2. d \in DOMAIN next_edges[h] /\ next_edges[h][d] = f
          <5>1. /\ stack[k].next_next_fn \in 1 .. Len(next_edges[h]) + 1 /\ stack[k].next_next_fn > 1
                /\ stack[k + 1].fn = next_edges[h][d]
            BY <1>2, <3>0 DEF StackIsPath
          <5>2. DOMAIN next_edges[h] = 1 .. Len(next_edges[h]) /\ Len(next_edges[h]) \in Nat
            BY <1>2, <3>0
          <5>3. k + 1 = N
            BY <1>2, <3>6
          <5> QED BY <5>1, <5>2, <5>3
        <4>3. \A j \in DOMAIN next_edges[h] : j < stack[k].next_next_fn <=> j < d \/ j = d
          BY <1>2, <3>0
        <4>4. Answered(k)' = stack[k].next_next_fn
          BY <1>2, <3>4, <3>6
        <4> QED BY <1>4, <3>0, <3>2, <3>3, <4>1, <4>2, <4>3, <4>4
      <3> QED BY <1>2, <3>0, <3>5, <3>6
    <2> QED BY <2>2, <2>3, <2>4 DEF Marked
  <1> QED BY <1>13, <1>14, <1>15, <1>16

(* With an empty stack every node that can be reached is decided *)
LEMMA MarkEnds ==
  ASSUME TypeOK, Numbered, Called, Marking, ExecDone
  PROVE  ExecInfoIsRight'
  <1>1. /\ walk = "exec" /\ stack = <<>> /\ UNCHANGED <<graphVars, argVars, execVars>>
    BY DEF ExecDone
  <1>2. SeenIsReached /\ ChildrenAreSeen /\ Marked
    BY <1>1 DEF Marking
  <1>3. /\ root \in Nodes /\ seen \subseteq Nodes /\ needed \subseteq Nodes /\ outputs \subseteq Nodes
        /\ \A m \in Nodes : Graph!Expanded(m, outputs) <=> ~TooOld(m)
        /\ root \in Reach /\ Reach \subseteq Nodes
        /\ \A m \in Leads : ~TooOld(m)
        /\ \A m \in Nodes : TooOld(m) => \A c \in Graph!Children(m) : TooOld(c)
    BY <1>1, MarkFacts
  <1>4. Finished = seen \cup {root}
    BY <1>1 DEF Finished, OnStack
  <1>5. Reach \subseteq Finished
    <2>1. ASSUME NEW m \in Finished, Graph!Expanded(m, outputs)
          PROVE  Graph!Children(m) \subseteq Finished
      BY <1>2, <1>3, <1>4, <2>1 DEF ChildrenAreSeen
    <2>2. Finished \in SUBSET Nodes /\ root \in Finished
      BY <1>3, <1>4
    <2>3. \A m \in Nodes : Graph!Children(m) \subseteq Nodes
      BY ChildFacts
    <2> QED BY <1>3, <2>1, <2>2, <2>3, ReachFacts DEF Reach
  <1>6. ASSUME NEW n \in Nodes
        PROVE  n \in needed <=> (n \in Reach /\ Graph!Children(n) \cap Leads # {}) \/ Wanted(n)
    <2>1. CASE n \in Finished
      <3>1. n \in needed <=> Wanted(n) \/ Graph!Children(n) \cap Leads # {}
        BY <1>2, <2>1 DEF Marked
      <3>2. Graph!Children(n) \cap Leads # {} => ~TooOld(n)
        BY <1>3
      <3>3. ~TooOld(n) => n \in Reach
        BY <1>2, <1>3, <1>4, <2>1 DEF SeenIsReached
      <3> QED BY <3>1, <3>2, <3>3
    <2>2. CASE n \notin Finished
      BY <1>2, <1>4, <1>5, <2>2 DEF Marked
    <2> QED BY <2>1, <2>2
  <1>7. outputs # {} => needed = Graph!NeededNodes(root, outputs, accumulate_grad)
    <2> SUFFICES ASSUME outputs # {}
                 PROVE  needed = Graph!NeededNodes(root, outputs, accumulate_grad)
      OBVIOUS
    <2>1. \A n : n \in Graph!NeededNodes(root, outputs, accumulate_grad) <=>
             (n \in Reach /\ Graph!Children(n) \cap Leads # {}) \/ Wanted(n)
      BY DEF Graph!NeededNodes, Reach, Leads, Wanted
    <2>2. \A n : Wanted(n) => n \in Nodes
      BY <1>3 DEF Wanted
    <2> QED BY <1>3, <1>6, <2>1, <2>2
  <1>8. /\ needed' = needed /\ root' = root /\ outputs' = outputs
        /\ accumulate_grad' = accumulate_grad
        /\ Graph!NeededNodes(root, outputs, accumulate_grad)'
              = Graph!NeededNodes(root, outputs, accumulate_grad)
    <2>1. needed' = needed /\ root' = root /\ outputs' = outputs /\ accumulate_grad' = accumulate_grad
      BY <1>1 DEF argVars, execVars
    <2> QED BY <1>1, <2>1, GraphIsFixed
  <1> QED BY <1>7, <1>8 DEF ExecInfoIsRight

-----------------------------------------------------------------------------
(* The inductive invariant holds *)

LEMMA InvInit ==
  ASSUME Init
  PROVE  WalkInv
  <1>1. /\ created = {} /\ next_edges = [n \in Nodes |-> <<>>] /\ topological_nr = [n \in Nodes |-> 0]
        /\ has_parent = {} /\ walk = "build" /\ root = None /\ outputs = {} /\ accumulate_grad = TRUE
        /\ min_topo_nr = 0 /\ queue = <<>> /\ fn = None /\ edge = 1 /\ nodes_in_graph = {}
        /\ dependencies = [n \in Nodes |-> 0] /\ stack = <<>> /\ seen = {} /\ needed = {}
    BY DEF Init
  <1>2. TypeOK
    <2>1. <<>> \in Lists
      <3>1. <<>> \in Seq(created \cup {None}) /\ Len(<<>>) = 0 /\ MaxEdges \in Nat
        BY WalkAssumption, EmptySeq
      <3>2. Len(<<>>) <= MaxEdges
        BY <3>1
      <3> QED BY <3>1, <3>2, ListIntro
    <2>2. next_edges \in [Nodes -> Lists]
      BY <1>1, <2>1
    <2>3. queue \in Seq(created) /\ stack \in Seq([fn : created, next_next_fn : Nat])
      BY <1>1, EmptySeq
    <2> QED BY <1>1, <2>2, <2>3 DEF TypeOK
  <1>3. Numbered
    <2>1. \A m \in Nodes : Valid(next_edges[m]) = {} /\ next_edges[m] = <<>> /\ topological_nr[m] <= 0
      BY <1>1 DEF Valid
    <2>2. 0 \in Nat
      OBVIOUS
    <2> QED BY <2>1, <2>2 DEF Numbered
  <1>4. Indexed
    BY <1>1 DEF Indexed
  <1> QED BY <1>1, <1>2, <1>3, <1>4
          DEF WalkInv, Called, Counting, Marking, DependenciesAreRight, ExecInfoIsRight

(* The arguments of a call stay what they are *)
LEMMA ArgsKept ==
  ASSUME WalkInv, UNCHANGED <<graphVars, argVars>>, walk # "build"
  PROVE  Called'
  <1>1. created' = created /\ root' = root /\ outputs' = outputs /\ min_topo_nr' = min_topo_nr
    BY DEF graphVars, argVars
  <1>2. Graph!MinTopologicalNr(outputs)' = Graph!MinTopologicalNr(outputs)
    BY <1>1, GraphIsFixed
  <1> QED BY <1>1, <1>2 DEF WalkInv, Called

LEMMA CountsKept ==
  ASSUME WalkInv, UNCHANGED <<graphVars, argVars, depVars>>, walk = "exec"
  PROVE  DependenciesAreRight'
  <1>1. /\ root' = root /\ outputs' = outputs
        /\ nodes_in_graph' = nodes_in_graph /\ dependencies' = dependencies
    BY DEF argVars, depVars
  <1>2. Reach' = Reach /\ Graph!Dependencies(root, outputs)' = Graph!Dependencies(root, outputs)
    BY <1>1, GraphIsFixed
  <1>3. nodes_in_graph \cup {root} = Reach /\ dependencies = Graph!Dependencies(root, outputs)
    BY DEF WalkInv, DependenciesAreRight, Reach
  <1> QED BY <1>1, <1>2, <1>3 DEF DependenciesAreRight, Reach

LEMMA InvNext ==
  ASSUME WalkInv, Next
  PROVE  WalkInv'
  <1>0. TypeOK /\ Numbered /\ Indexed /\ Called /\ Counting /\ Marking
    BY DEF WalkInv
  <1>1. TypeOK' /\ Numbered' /\ Indexed'
    BY <1>0, GraphStep
  <1> SUFFICES Called' /\ Counting' /\ Marking' /\ DependenciesAreRight' /\ ExecInfoIsRight'
    BY <1>1 DEF WalkInv
  <1>2. ASSUME NEW n \in Nodes, NewNode(n) \/ set_next_edges(n) \/ add_next_edge(n)
        PROVE  Called' /\ Counting' /\ Marking' /\ DependenciesAreRight' /\ ExecInfoIsRight'
    <2>1. walk' = "build"
      BY <1>2 DEF NewNode, set_next_edges, add_next_edge, SetEdges
    <2> QED BY <2>1 DEF Called, Counting, Marking, DependenciesAreRight, ExecInfoIsRight
  <1>3. ASSUME NEW r \in Roots \cap created, NEW outs \in SUBSET created, NEW acc \in BOOLEAN,
               Execute(r, outs, acc)
        PROVE  Called' /\ Counting' /\ Marking' /\ DependenciesAreRight' /\ ExecInfoIsRight'
    <2>1. Counting'
      BY <1>0, <1>1, <1>3, CountStarts
    <2>2. walk' = "deps" /\ root' = r /\ outputs' = outs /\ created' = created
          /\ topological_nr' = topological_nr /\ min_topo_nr' = Graph!MinTopologicalNr(outs)
      BY <1>3 DEF Execute, graphVars
    <2>3. Graph!MinTopologicalNr(outputs)' = Graph!MinTopologicalNr(outs)
      BY <2>2 DEF Graph!MinTopologicalNr
    <2> QED BY <2>1, <2>2, <2>3 DEF Called, Marking, DependenciesAreRight, ExecInfoIsRight
  <1>4. CASE DepsPop
    <2>1. Counting'
      BY <1>0, <1>4, CountPop
    <2>2. walk' = "deps" /\ walk = "deps" /\ UNCHANGED <<graphVars, argVars>>
      BY <1>4 DEF DepsPop
    <2>3. Called'
      BY <2>2, ArgsKept
    <2> QED BY <2>1, <2>2, <2>3 DEF Marking, DependenciesAreRight, ExecInfoIsRight
  <1>5. CASE DepsEdge
    <2>1. Counting'
      BY <1>0, <1>5, CountEdge
    <2>2. walk' = "deps" /\ walk = "deps" /\ UNCHANGED <<graphVars, argVars>>
      BY <1>5 DEF DepsEdge
    <2>3. Called'
      BY <2>2, ArgsKept
    <2> QED BY <2>1, <2>2, <2>3 DEF Marking, DependenciesAreRight, ExecInfoIsRight
  <1>6. CASE DepsDone
    <2>1. DependenciesAreRight'
      BY <1>0, <1>6, CountEnds
    <2>2. Marking'
      BY <1>0, <1>6, MarkStarts
    <2>3. /\ walk = "deps" /\ walk' \in {"exec", "done"} /\ UNCHANGED <<graphVars, argVars>>
          /\ walk' = "done" => outputs = {}
      BY <1>6 DEF DepsDone
    <2>4. Called'
      BY <2>3, ArgsKept
    <2>5. outputs' = outputs
      BY <2>3 DEF argVars
    <2> QED BY <2>1, <2>2, <2>3, <2>4, <2>5 DEF Counting, ExecInfoIsRight
  <1>7. CASE ExecChild \/ ExecPop
    <2>1. Marking'
      BY <1>0, <1>7, MarkChild, MarkPop
    <2>2. walk' = "exec" /\ walk = "exec" /\ UNCHANGED <<graphVars, argVars, depVars>>
      BY <1>7 DEF ExecChild, ExecPop
    <2>3. Called' /\ DependenciesAreRight'
      BY <2>2, ArgsKept, CountsKept
    <2> QED BY <2>1, <2>2, <2>3 DEF Counting, ExecInfoIsRight
  <1>8. CASE ExecDone
    <2>1. ExecInfoIsRight'
      BY <1>0, <1>8, MarkEnds
    <2>2. walk' = "done" /\ walk = "exec" /\ UNCHANGED <<graphVars, argVars, depVars>>
      BY <1>8 DEF ExecDone
    <2>3. Called' /\ DependenciesAreRight'
      BY <2>2, ArgsKept, CountsKept
    <2> QED BY <2>1, <2>2, <2>3 DEF Counting, Marking
  <1>9. CASE Forget
    BY <1>9 DEF Forget, Called, Counting, Marking, DependenciesAreRight, ExecInfoIsRight
  <1> QED BY <1>2, <1>3, <1>4, <1>5, <1>6, <1>7, <1>8, <1>9 DEF Next, Build, Walk

LEMMA InvStutter ==
  ASSUME WalkInv, UNCHANGED vars
  PROVE  WalkInv'
  <1>1. /\ UNCHANGED <<graphVars, argVars, depVars, execVars>> /\ has_parent' = has_parent
        /\ walk' = walk
    BY DEF vars
  <1>2. /\ created' = created /\ next_edges' = next_edges /\ topological_nr' = topological_nr
        /\ root' = root /\ outputs' = outputs /\ accumulate_grad' = accumulate_grad
        /\ min_topo_nr' = min_topo_nr /\ queue' = queue /\ fn' = fn /\ edge' = edge
        /\ nodes_in_graph' = nodes_in_graph /\ dependencies' = dependencies
        /\ stack' = stack /\ seen' = seen /\ needed' = needed
    BY <1>1 DEF graphVars, argVars, depVars, execVars
  <1>3. TypeOK' /\ Numbered' /\ Indexed'
    BY <1>1, <1>2 DEF WalkInv, TypeOK, Lists, Numbered, Valid, Indexed
  <1>4. /\ Reach' = Reach /\ Leads' = Leads /\ Graph!Edges' = Graph!Edges
        /\ \A m : Graph!Children(m)' = Graph!Children(m)
        /\ Graph!MinTopologicalNr(outputs)' = Graph!MinTopologicalNr(outputs)
        /\ Graph!Dependencies(root, outputs)' = Graph!Dependencies(root, outputs)
        /\ Graph!NeededNodes(root, outputs, accumulate_grad)'
              = Graph!NeededNodes(root, outputs, accumulate_grad)
    BY <1>1, <1>2, GraphIsFixed
  <1>5. Called' /\ DependenciesAreRight' /\ ExecInfoIsRight'
    BY <1>1, <1>2, <1>4 DEF WalkInv, Called, DependenciesAreRight, ExecInfoIsRight, Reach
  <1>6. /\ Found' = Found /\ Queued' = Queued /\ OnStack' = OnStack /\ Finished' = Finished
        /\ \A m : TooOld(m)' = TooOld(m) /\ Wanted(m)' = Wanted(m) /\ Answered(m)' = Answered(m)
    BY <1>2 DEF Found, Queued, OnStack, Finished, TooOld, Wanted, Answered
  <1>7. Counted' = Counted
    BY <1>2, <1>4, <1>6 DEF Counted
  <1>8. Counting'
    BY <1>1, <1>2, <1>4, <1>6, <1>7
       DEF WalkInv, Counting, FoundIsReached, QueuedOnce, ExpandedIsFound, CountedOnce, TooOld
  <1>9. Marking'
    BY <1>1, <1>2, <1>4, <1>6
       DEF WalkInv, Marking, StackIsPath, SeenIsReached, ChildrenAreSeen, Marked, TooOld, Wanted
  <1> QED BY <1>3, <1>5, <1>8, <1>9 DEF WalkInv

LEMMA InvHolds == Spec => []WalkInv
  <1>1. Init => WalkInv
    BY InvInit
  <1>2. WalkInv /\ [Next]_vars => WalkInv'
    BY InvNext, InvStutter
  <1> QED BY <1>1, <1>2, PTL DEF Spec

-----------------------------------------------------------------------------
(* The variables of the walks always have their types. *)
THEOREM WalkTypeCorrect == Spec => []TypeOK
  <1>1. WalkInv => TypeOK
    BY DEF WalkInv
  <1> QED BY <1>1, InvHolds, PTL

(* NOTE [ Topological Number ]: along every edge the number decreases,      *)
(* however set_next_edges and add_next_edge put the graph together and      *)
(* whenever it was walked in between.                                       *)
THEOREM ParentsAreAlwaysNewer == Spec => []ParentsAreNewer
  <1>1. WalkInv => ParentsAreNewer
    BY DEF WalkInv, TypeOK, Numbered, ParentsAreNewer
  <1> QED BY <1>1, InvHolds, PTL

(* compute_dependencies finds exactly the nodes that are reachable through  *)
(* expanded nodes and counts each of their edges exactly once.              *)
THEOREM CountsEveryEdgeOnce == Spec => []DependenciesAreRight
  <1>1. WalkInv => DependenciesAreRight
    BY DEF WalkInv
  <1> QED BY <1>1, InvHolds, PTL

(* init_to_execute marks exactly the nodes that lead to an output.          *)
THEOREM MarksExactlyTheNeeded == Spec => []ExecInfoIsRight
  <1>1. WalkInv => ExecInfoIsRight
    BY DEF WalkInv
  <1> QED BY <1>1, InvHolds, PTL

(* Pruning by topological_nr loses nothing: what is reached only through    *)
(* nodes that are too old is too old itself, and leads to no output.        *)
THEOREM PruningLosesNothing == Spec => []NothingIsPruned
  <1>1. WalkInv => NothingIsPruned
    <2> SUFFICES ASSUME WalkInv, walk = "done", outputs # {},
                        NEW n \in Graph!NodesInGraph(root, {}),
                        Graph!Children(n) \cap Leads # {}
                 PROVE  n \in needed
      BY DEF NothingIsPruned, Leads
    <2>1. /\ TypeOK /\ Numbered /\ root \in Nodes /\ outputs \subseteq Nodes
          /\ min_topo_nr = Graph!MinTopologicalNr(outputs) /\ min_topo_nr \in Nat
          /\ topological_nr \in [Nodes -> Nat]
          /\ needed = Graph!NeededNodes(root, outputs, accumulate_grad)
      BY DEF WalkInv, TypeOK, Called, ExecInfoIsRight
    <2>2. \A m \in Nodes : Graph!Children(m) \subseteq Nodes
      BY <2>1, ChildFacts
    <2> DEFINE S == Reach \cup {m \in Nodes : TooOld(m)}
    <2>3. /\ Reach \subseteq Nodes /\ root \in Reach
          /\ \A m \in Reach : Graph!Expanded(m, outputs) => Graph!Children(m) \subseteq Reach
      BY <2>1, <2>2, ReachFacts DEF Reach
    <2>4. ASSUME NEW m \in Nodes PROVE Graph!Expanded(m, outputs) <=> ~TooOld(m)
      <3>1. topological_nr[m] \in Nat
        BY <2>1
      <3>2. Graph!Expanded(m, outputs) <=> topological_nr[m] >= min_topo_nr
        BY <2>1 DEF Graph!Expanded
      <3> QED BY <2>1, <3>1, <3>2 DEF TooOld
    <2>5. ASSUME NEW m \in S PROVE Graph!Children(m) \subseteq S
      <3>1. CASE TooOld(m)
        <4> SUFFICES ASSUME NEW c \in Graph!Children(m) PROVE TooOld(c) /\ c \in Nodes
          OBVIOUS
        <4>1. /\ c \in Nodes /\ topological_nr[c] \in Nat /\ topological_nr[m] \in Nat
              /\ topological_nr[c] < topological_nr[m]
          BY <2>1, <2>3, ChildFacts
        <4> QED BY <2>1, <3>1, <4>1 DEF TooOld
      <3>2. CASE ~TooOld(m)
        BY <2>3, <2>4, <3>2
      <3> QED BY <3>1, <3>2
    <2>6. S \in SUBSET Nodes /\ root \in S
      BY <2>3
    <2>7. n \in S /\ n \in Nodes
      <3> HIDE DEF S
      <3> QED BY <2>1, <2>2, <2>5, <2>6, ReachFacts
    <2>8. ~TooOld(n)
      <3>1. PICK c \in Graph!Children(n) : c \in Leads
        OBVIOUS
      <3>2. topological_nr[c] >= min_topo_nr
        BY <2>1, <3>1, LeadersAreNew DEF Leads
      <3>3. topological_nr[c] \in Nat /\ topological_nr[n] \in Nat
            /\ topological_nr[c] < topological_nr[n]
        BY <2>1, <2>7, <3>1, ChildFacts
      <3> QED BY <2>1, <3>2, <3>3 DEF TooOld
    <2>9. n \in Reach
      BY <2>7, <2>8
    <2> QED BY <2>1, <2>9 DEF Graph!NeededNodes, Reach, Leads
  <1> QED BY <1>1, InvHolds, PTL
=============================================================================
