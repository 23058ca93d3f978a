---------------------------- MODULE EngineProofs ----------------------------
(***************************************************************************)
(* Proofs about module Engine, for every graph and every set of threads,    *)
(* devices and graph tasks.                                                 *)
(*                                                                          *)
(* First, type correctness with the well-formedness of running frames, and  *)
(* that the future of a graph task is settled once.  Then that              *)
(* outstanding_tasks_ counts the tasks of a graph task exactly, that the    *)
(* pool of reentrant threads is large enough, and that nested passes leave  *)
(* the thread-local state of a thread as they found it.                     *)
(*                                                                          *)
(* Then what a backward pass does with the nodes of its graph, and how it  *)
(* ends: a node is queued and evaluated once, after the gradients of all    *)
(* its incoming edges arrived; an error is never lost; a value means that   *)
(* everything was done; and every call keeps the promise of BackwardPass.   *)
(*                                                                          *)
(* Last, that no owner misses its wake-up where no pass goes to the pool.   *)
(***************************************************************************)
EXTENDS Engine, FiniteSetTheorems, WellFoundedInduction, TLAPS

USE DEF Threads, Queues, Frames, Goto, LoopHead, Labels

(* The graph has finitely many edges, so a dependency count is a number. *)
LEMMA EdgesFinite == IsFiniteSet(Edges)
  <1> DEFINE Out(m) == {<<m, i>> : i \in DOMAIN NextEdges[m]}
             All == {Out(m) : m \in Nodes}
             f == [m \in Nodes |-> Out(m)]
  <1>1. IsFiniteSet(All)
    <2>1. f \in Surjection(Nodes, All)
      BY DEF Surjection
    <2> QED BY <2>1, FS_Surjection, EngineAssumption
  <1>2. ASSUME NEW m \in Nodes PROVE IsFiniteSet(Out(m))
    <2> DEFINE h == [i \in DOMAIN NextEdges[m] |-> <<m, i>>]
    <2>1. NextEdges[m] \in Seq(Nodes \cup {None})
      BY GraphAssumption
    <2>2. DOMAIN NextEdges[m] = 1..Len(NextEdges[m]) /\ Len(NextEdges[m]) \in Nat
      BY <2>1
    <2>3. IsFiniteSet(DOMAIN NextEdges[m])
      BY <2>2, FS_Interval
    <2>4. h \in Surjection(DOMAIN NextEdges[m], Out(m))
      BY DEF Surjection
    <2> QED BY <2>3, <2>4, FS_Surjection
  <1>3. IsFiniteSet(UNION All)
    BY <1>1, <1>2, FS_UNION
  <1>4. Edges \in SUBSET (UNION All)
    BY DEF Edges
  <1> QED BY <1>3, <1>4, FS_Subset

(* compute_dependencies yields a count for every node. *)
LEMMA DepsType == DepsOf \in [GraphTasks -> [Nodes -> Nat]]
  <1>1. ASSUME NEW g \in GraphTasks, NEW n \in Nodes
        PROVE  Cardinality({e \in GraphEdges(Root[g], Outputs[g]) : NextEdges[e[1]][e[2]] = n}) \in Nat
    <2> DEFINE S == {e \in GraphEdges(Root[g], Outputs[g]) : NextEdges[e[1]][e[2]] = n}
    <2>1. S \in SUBSET Edges
      BY DEF GraphEdges
    <2> HIDE DEF S
    <2>2. IsFiniteSet(S)
      BY <2>1, EdgesFinite, FS_Subset
    <2>3. Cardinality(S) \in Nat
      BY <2>2, FS_CardinalityType
    <2> QED BY <2>3 DEF S
  <1> QED BY <1>1 DEF DepsOf, Dependencies

IInv == TypeOK /\ WellFormed

LEMMA InitIInv == Init => IInv
  <1> SUFFICES ASSUME Init PROVE IInv
    OBVIOUS
  <1>1. TypeOK
    BY EngineAssumption DEF Init, TypeOK, NodeTasks, ShutdownTask
  <1>2. WellFormed
    BY EngineAssumption DEF Init, WellFormed, CallWellFormed, FrameWellFormed, Working, Evaluating, Completing
  <1> QED BY <1>1, <1>2 DEF IInv

USE DEF setupVars, futureVars, graphVars, callbackVars, historyVars, tlsVars, poolVars,
        lifeVars, nodeVars, taskVars, outerVars, otherThanLife

(* A frame may go to any control point, with any task or none. *)
LEMMA MoveType ==
  ASSUME TypeOK, NEW f, NEW x \in Labels, pc' = [pc EXCEPT ![f] = x]
  PROVE  pc' \in [Frames -> Labels]
  BY DEF TypeOK

LEMMA TaskType ==
  ASSUME TypeOK, NEW f, NEW t \in NodeTasks \cup {None}, cur' = [cur EXCEPT ![f] = t]
  PROVE  cur' \in [Frames -> NodeTasks \cup {None}]
  BY DEF TypeOK

(* A frame past pop() has a task of a graph task that execute() set up. *)
LEMMA HeldTask ==
  ASSUME IInv, NEW f \in Frames, pc[f] \in Evaluating \cup Completing \cup {"got", "dec"}
  PROVE  /\ cur[f] # None /\ cur[f] \in NodeTasks
         /\ cur[f].gt \in GraphTasks /\ cur[f].fn \in Nodes \cup {None}
         /\ call[cur[f].gt] # "idle"
  BY DEF IInv, TypeOK, WellFormed, FrameWellFormed, NodeTasks

(* A step of one frame keeps the state well formed when the frame itself    *)
(* ends well formed and every task it queues belongs to a started call.     *)
LEMMA OneFrameMoves ==
  ASSUME IInv, NEW f \in Frames,
         UNCHANGED <<setupVars, thread, local_ready_queue, graphtasks_queue>>,
         \A k \in Frames : k # f => pc'[k] = pc[k] /\ cur'[k] = cur[k] /\ edge'[k] = edge[k],
         \A q \in Queues : \A t \in heap'[q] :
            t \in heap[q] \/ t = ShutdownTask \/ call[t.gt] # "idle",
         FrameWellFormed(f)'
  PROVE  WellFormed'
  <1>1. ASSUME NEW k \in Frames, k # f PROVE FrameWellFormed(k)'
    BY <1>1 DEF IInv, WellFormed, FrameWellFormed
  <1>2. \A g \in GraphTasks : CallWellFormed(g)'
    BY DEF IInv, WellFormed, CallWellFormed
  <1>3. \A q \in Queues : \A t \in heap'[q] : t # ShutdownTask => call'[t.gt] # "idle"
    BY DEF IInv, WellFormed
  <1>4. \A i \in 1..Len(graphtasks_queue') : call'[graphtasks_queue'[i]] # "idle"
    BY DEF IInv, WellFormed
  <1> QED BY <1>1, <1>2, <1>3, <1>4 DEF WellFormed

(* What a frame past the loop head knows about itself. *)
LEMMA FrameFacts ==
  ASSUME IInv, NEW f \in Frames, pc[f] \in Working
  PROVE  /\ thread[f] \in Threads /\ local_ready_queue[thread[f]] \in Queues
         /\ (f \in Devices => thread[f] = f)
         /\ (pc[f] \in Evaluating => cur[f].fn \in Nodes)
  BY DEF IInv, WellFormed, FrameWellFormed

(* A frame that goes on with its task, or drops it and returns to the head  *)
(* of the loop, stays well formed.                                          *)
LEMMA PlainMove ==
  ASSUME IInv, NEW f \in Frames, pc[f] \in Working,
         UNCHANGED <<setupVars, thread, local_ready_queue, graphtasks_queue, heap, edge>>,
         \/ /\ cur' = cur
            /\ \E x \in {"pop", "left"} : pc' = [pc EXCEPT ![f] = x]
         \/ /\ cur' = cur /\ pc[f] \in Evaluating
            /\ \E x \in {"throw", "exception", "seterror", "dec"} : pc' = [pc EXCEPT ![f] = x]
         \/ /\ cur' = cur /\ pc[f] \in Completing \cup {"dec"}
            /\ \E x \in Completing : pc' = [pc EXCEPT ![f] = x]
         \/ cur' = [cur EXCEPT ![f] = None] /\ pc' = [pc EXCEPT ![f] = LoopHead(f)]
  PROVE  WellFormed'
  <1> USE DEF Working, Evaluating, Completing
  <1>1. \A k \in Frames : k # f => pc'[k] = pc[k] /\ cur'[k] = cur[k] /\ edge'[k] = edge[k]
    BY DEF IInv, TypeOK
  <1>2. FrameWellFormed(f)
    BY DEF IInv, WellFormed
  <1>3. /\ thread[f] \in Threads /\ local_ready_queue[thread[f]] \in Queues
        /\ (f \in Devices => thread[f] = f)
    BY FrameFacts
  <1>4. FrameWellFormed(f)'
    <2>1. CASE cur' = cur /\ pc'[f] \in {"pop", "left"}
      BY <1>2, <1>3, <2>1 DEF FrameWellFormed
    <2>2. CASE cur' = cur /\ pc[f] \in Evaluating /\ pc'[f] \in {"throw", "exception", "seterror", "dec"}
      BY <1>2, <1>3, <2>2 DEF FrameWellFormed
    <2>3. CASE cur' = cur /\ pc[f] \in Completing \cup {"dec"} /\ pc'[f] \in Completing
      BY <1>2, <1>3, <2>3 DEF FrameWellFormed
    <2>4. CASE cur'[f] = None /\ pc'[f] = LoopHead(f)
      BY <1>2, <1>3, <2>4 DEF FrameWellFormed
    <2> QED BY <2>1, <2>2, <2>3, <2>4 DEF IInv, TypeOK
  <1> QED BY <1>1, <1>4, OneFrameMoves

(* Actions that move one frame and touch no more than its graph task's      *)
(* flags, counters or history preserve the invariant.                       *)
LEMMA QuietSteps ==
  ASSUME IInv, NEW f \in Frames,
         \/ (f \in GraphTasks /\ LoopCondition(f)) \/ Throw(f) \/ SetHasError(f)
         \/ SetException(f) \/ SetError(f) \/ DecrementOutstanding(f)
         \/ CheckCompleted(f) \/ MarkAsCompleted(f) \/ AwaitFuture(f)
  PROVE  IInv'
  <1> USE DEF IInv, Working, Evaluating, Completing
  <1>1. CASE f \in GraphTasks /\ LoopCondition(f)
    <2>1. TypeOK'
      BY <1>1 DEF LoopCondition, TypeOK
    <2>2. WellFormed'
      BY <1>1, PlainMove DEF LoopCondition
    <2> QED BY <2>1, <2>2
  <1>2. CASE Throw(f)
    <2>1. TypeOK'
      BY <1>2 DEF Throw, TypeOK
    <2>2. WellFormed'
      BY <1>2, PlainMove DEF Throw
    <2> QED BY <2>1, <2>2
  <1>3. CASE SetHasError(f)
    <2>1. TypeOK'
      BY <1>3 DEF SetHasError, TypeOK
    <2>2. WellFormed'
      BY <1>3, PlainMove DEF SetHasError
    <2> QED BY <2>1, <2>2
  <1>4. CASE SetException(f)
    <2>1. TypeOK'
      BY <1>4 DEF SetException, ClaimFuture, TypeOK
    <2>2. WellFormed'
      BY <1>4, PlainMove DEF SetException, ClaimFuture
    <2> QED BY <2>1, <2>2
  <1>5. CASE SetError(f)
    <2>1. TypeOK'
      BY <1>5 DEF SetError, TypeOK
    <2>2. WellFormed'
      BY <1>5, PlainMove DEF SetError
    <2> QED BY <2>1, <2>2
  <1>6. CASE DecrementOutstanding(f)
    <2>0. cur[f].gt \in GraphTasks
      BY <1>6 DEF DecrementOutstanding, TypeOK, WellFormed, FrameWellFormed, NodeTasks
    <2>1. TypeOK'
      <3>1. outstanding_tasks' \in [GraphTasks -> Int]
        BY <1>6, <2>0 DEF DecrementOutstanding, TypeOK
      <3> QED BY <1>6, <3>1 DEF DecrementOutstanding, TypeOK
    <2>2. WellFormed'
      BY <1>6, PlainMove DEF DecrementOutstanding
    <2> QED BY <2>1, <2>2
  <1>7. CASE CheckCompleted(f)
    <2>1. TypeOK'
      <3>0. \/ cur' = cur /\ pc' = [pc EXCEPT ![f] = "mark"]
            \/ cur' = [cur EXCEPT ![f] = None] /\ pc' = [pc EXCEPT ![f] = LoopHead(f)]
        BY <1>7 DEF CheckCompleted
      <3>1. pc' \in [Frames -> Labels]
        BY <3>0, MoveType
      <3>2. cur' \in [Frames -> NodeTasks \cup {None}]
        BY <3>0, TaskType DEF TypeOK
      <3> QED BY <1>7, <3>1, <3>2 DEF CheckCompleted, TypeOK
    <2>2. WellFormed'
      BY <1>7, PlainMove DEF CheckCompleted
    <2> QED BY <2>1, <2>2
  <1>8. CASE MarkAsCompleted(f)
    <2>1. TypeOK'
      BY <1>8 DEF MarkAsCompleted, ClaimFuture, TypeOK
    <2>2. WellFormed'
      BY <1>8, PlainMove DEF MarkAsCompleted, ClaimFuture
    <2> QED BY <2>1, <2>2
  <1>9. CASE AwaitFuture(f)
    <2>1. TypeOK'
      BY <1>9 DEF AwaitFuture, TypeOK
    <2>2. WellFormed'
      BY <1>9, PlainMove DEF AwaitFuture
    <2> QED BY <2>1, <2>2
  <1> QED BY <1>1, <1>2, <1>3, <1>4, <1>5, <1>6, <1>7, <1>8, <1>9

(* ReadyQueue::pop hands the frame a task of a graph task that was set up. *)
LEMMA PopStep ==
  ASSUME IInv, NEW f \in Frames, Pop(f)
  PROVE  IInv'
  <1> USE DEF IInv, Working, Evaluating, Completing
  <1> DEFINE q == local_ready_queue[thread[f]]
  <1>1. q \in Queues
    BY DEF Pop, WellFormed, FrameWellFormed
  <1>2. PICK t \in heap[q] :
            /\ heap' = [heap EXCEPT ![q] = @ \ {t}]
            /\ IF t = ShutdownTask
                 THEN /\ pc' = [pc EXCEPT ![f] = IF f \in Devices THEN "exit" ELSE "left"]
                      /\ cur' = cur
                 ELSE cur' = [cur EXCEPT ![f] = t] /\ pc' = [pc EXCEPT ![f] = "got"]
    BY DEF Pop
  <1>3. t \in NodeTasks \cup {ShutdownTask}
    BY <1>1 DEF TypeOK
  <1>4. t # ShutdownTask => /\ t \in NodeTasks /\ t # None
                            /\ t.gt \in GraphTasks /\ call[t.gt] # "idle"
    BY <1>1, <1>3, NullAssumption DEF WellFormed, NodeTasks
  <1>5. pc[f] = "pop" /\ UNCHANGED <<taskVars, outerVars, edge>>
    BY DEF Pop
  <1> HIDE DEF q
  <1>6. heap' \in [Queues -> SUBSET (NodeTasks \cup {ShutdownTask})]
    BY <1>1, <1>2 DEF TypeOK
  <1>7. cur' \in [Frames -> NodeTasks \cup {None}]
    <2>1. CASE cur' = cur
      BY <2>1 DEF TypeOK
    <2>2. CASE cur' # cur
      BY <1>2, <1>4, <2>2, TaskType
    <2> QED BY <2>1, <2>2
  <1>8. TypeOK'
    <2>1. pc' \in [Frames -> Labels]
      <3>1. \E x \in {"exit", "left", "got"} : pc' = [pc EXCEPT ![f] = x]
        BY <1>2
      <3> QED BY <3>1, MoveType
    <2> QED BY <1>5, <1>6, <1>7, <2>1 DEF TypeOK
  <1>9. \A g \in GraphTasks : CallWellFormed(g)'
    BY <1>5 DEF WellFormed, CallWellFormed
  <1>10. ASSUME NEW k \in Frames PROVE FrameWellFormed(k)'
    <2>1. CASE k # f
      BY <1>2, <1>5, <2>1 DEF TypeOK, WellFormed, FrameWellFormed
    <2>2. CASE k = f /\ t = ShutdownTask
      BY <1>2, <1>5, <2>2 DEF TypeOK, WellFormed, FrameWellFormed
    <2>3. CASE k = f /\ t # ShutdownTask
      <3>1. cur'[f] = t /\ pc'[f] = "got" /\ call' = call
        BY <1>2, <1>5, <2>3 DEF TypeOK
      <3>2. thread[f] \in Threads /\ local_ready_queue[thread[f]] \in Queues
        BY <1>5 DEF WellFormed, FrameWellFormed
      <3>3. f \in Devices => thread[f] = f
        BY DEF WellFormed, FrameWellFormed
      <3> QED BY <1>4, <1>5, <2>3, <3>1, <3>2, <3>3 DEF FrameWellFormed
    <2> QED BY <2>1, <2>2, <2>3
  <1>11. \A r \in Queues : \A u \in heap'[r] : u # ShutdownTask => call'[u.gt] # "idle"
    BY <1>1, <1>2, <1>5 DEF TypeOK, WellFormed
  <1>12. WellFormed'
    BY <1>5, <1>9, <1>10, <1>11 DEF WellFormed
  <1> QED BY <1>8, <1>12

(* A step that starts no call and moves frames only to their end, or within *)
(* evaluate_function, keeps the state well formed.                          *)
LEMMA SameCalls ==
  ASSUME IInv,
         \A h \in GraphTasks : call'[h] # "idle" <=> call[h] # "idle",
         UNCHANGED <<owner, cpu_ready_queue, heap, local_ready_queue, cur, edge, thread,
                     graphtasks_queue>>,
         \A k \in Frames : \/ pc'[k] = pc[k] \/ pc'[k] \in {"done", "left", "exit", "dead", "starting"}
                           \/ pc[k] = "reenter" /\ pc'[k] \in {"run", "throw"}
  PROVE  WellFormed'
  <1>1. \A g \in GraphTasks : CallWellFormed(g)'
    BY DEF IInv, WellFormed, CallWellFormed
  <1>2. ASSUME NEW k \in Frames PROVE FrameWellFormed(k)'
    <2>1. cur[k] # None => cur[k].gt \in GraphTasks
      BY DEF IInv, TypeOK, NodeTasks
    <2> QED BY <2>1 DEF IInv, WellFormed, FrameWellFormed, Working, Evaluating, Completing
  <1>3. \A q \in Queues : \A t \in heap'[q] : t # ShutdownTask => call'[t.gt] # "idle"
    <2> SUFFICES ASSUME NEW q \in Queues, NEW t \in heap[q], t # ShutdownTask
                 PROVE  call'[t.gt] # "idle"
      OBVIOUS
    <2>1. t \in NodeTasks
      BY DEF IInv, TypeOK
    <2>2. t.gt \in GraphTasks
      BY <2>1 DEF NodeTasks
    <2> QED BY <2>2 DEF IInv, WellFormed
  <1>4. \A i \in 1..Len(graphtasks_queue') : call'[graphtasks_queue'[i]] # "idle"
    <2>1. graphtasks_queue \in Seq(GraphTasks)
      BY DEF IInv, TypeOK
    <2>2. \A i \in 1..Len(graphtasks_queue) : graphtasks_queue[i] \in GraphTasks
      BY <2>1
    <2> QED BY <2>2 DEF IInv, WellFormed
  <1> QED BY <1>1, <1>2, <1>3, <1>4 DEF WellFormed

LEMMA BeginStep ==
  ASSUME IInv, NEW f \in Frames, Begin(f)
  PROVE  IInv'
  <1> USE DEF Working, Evaluating, Completing
  <1> DEFINE g == cur[f].gt
             n == cur[f].fn
  <1>1. pc[f] = "got"
    BY DEF Begin
  <1>2. cur[f] # None /\ cur[f] \in NodeTasks /\ g \in GraphTasks
        /\ n \in Nodes \cup {None} /\ call[g] # "idle"
    BY <1>1, HeldTask
  <1>3. TypeOK'
    <2>1. captured' \in [GraphTasks -> SUBSET Nodes]
      <3>1. captured[g] \cup {n} \in SUBSET Nodes \/ n = None
        BY <1>2 DEF IInv, TypeOK
      <3>2. CASE captured' = captured
        BY <3>2 DEF IInv, TypeOK
      <3>3. CASE n # None /\ captured' = [captured EXCEPT ![g] = captured[g] \cup {n}]
        BY <3>1, <3>3 DEF IInv, TypeOK
      <3>4. captured = [captured EXCEPT ![g] = captured[g]]
        BY <1>2 DEF IInv, TypeOK
      <3> QED BY <3>2, <3>3, <3>4 DEF Begin, IsCaptured
    <2>2. cur' \in [Frames -> NodeTasks \cup {None}]
      <3>1. cur' = cur \/ cur' = [cur EXCEPT ![f] = None]
        BY DEF Begin
      <3> QED BY <3>1, TaskType DEF IInv, TypeOK
    <2>3. pc' \in [Frames -> Labels]
      <3>1. \E x \in {"pop", "loop", "run", "dec"} : pc' = [pc EXCEPT ![f] = x]
        BY DEF Begin
      <3> QED BY <3>1, MoveType DEF IInv, Evaluating, Completing
    <2> QED BY <2>1, <2>2, <2>3 DEF IInv, Begin, TypeOK
  <1>4. FrameWellFormed(f)'
    <2>1. thread[f] \in Threads /\ local_ready_queue[thread[f]] \in Queues
          /\ (f \in Devices => thread[f] = f)
      BY <1>1, FrameFacts
    <2>2. CASE ~Alive(g)
      <3>1. cur'[f] = None /\ pc'[f] \in {"pop", "loop"}
        BY <1>1, <2>2 DEF IInv, TypeOK, Begin
      <3> QED BY <2>1, <3>1 DEF Begin, FrameWellFormed
    <2>3. CASE Alive(g)
      <3>1. cur' = cur /\ (pc'[f] = "dec" \/ (pc'[f] = "run" /\ n \in Nodes))
        BY <1>1, <1>2, <2>3 DEF IInv, TypeOK, Begin, IsCalled
      <3> QED BY <1>2, <2>1, <3>1 DEF Begin, FrameWellFormed
    <2> QED BY <2>2, <2>3
  <1>5. WellFormed'
    <2>1. \A k \in Frames : k # f => pc'[k] = pc[k] /\ cur'[k] = cur[k] /\ edge'[k] = edge[k]
      BY DEF IInv, TypeOK, Begin
    <2>2. UNCHANGED <<setupVars, thread, local_ready_queue, graphtasks_queue, heap>>
      BY DEF Begin
    <2> QED BY <1>4, <2>1, <2>2, OneFrameMoves
  <1> QED BY <1>3, <1>5 DEF IInv

LEMMA CallFunctionStep ==
  ASSUME IInv, NEW f \in Frames, CallFunction(f)
  PROVE  IInv'
  <1> USE DEF Working, Evaluating, Completing
  <1> DEFINE g == cur[f].gt
             n == cur[f].fn
  <1>1. pc[f] = "run"
    BY DEF CallFunction
  <1>2. cur[f] # None /\ cur[f] \in NodeTasks /\ g \in GraphTasks /\ call[g] # "idle"
    BY <1>1, HeldTask
  <1>3. /\ n \in Nodes /\ thread[f] \in Threads /\ local_ready_queue[thread[f]] \in Queues
        /\ (f \in Devices => thread[f] = f)
    BY <1>1, FrameFacts
  <1>4. Len(NextEdges[n]) \in Nat
    <2>1. NextEdges[n] \in Seq(Nodes \cup {None})
      BY <1>3, GraphAssumption
    <2> QED BY <2>1
  <1>5. TypeOK'
    <2>1. evaluated' \in [GraphTasks -> SUBSET Nodes]
      BY <1>2, <1>3 DEF IInv, CallFunction, TypeOK
    <2>2. released' \subseteq Nodes
      BY <1>2, <1>3 DEF IInv, CallFunction, TypeOK
    <2>3. final_callbacks' \in [GraphTasks -> Nat]
      BY <1>2 DEF IInv, CallFunction, TypeOK
    <2>4. edge' \in [Frames -> Nat]
      BY DEF IInv, CallFunction, TypeOK
    <2> QED BY <2>1, <2>2, <2>3, <2>4 DEF IInv, CallFunction, TypeOK
  <1>6. FrameWellFormed(f)'
    <2>1. edge'[f] = 1 /\ cur' = cur /\ UNCHANGED <<call, thread, local_ready_queue>>
      BY DEF IInv, TypeOK, CallFunction
    <2>2. pc'[f] = IF Len(NextEdges[n]) = 0 THEN "dec" ELSE "edges"
      BY DEF IInv, TypeOK, CallFunction
    <2> QED BY <1>2, <1>3, <1>4, <2>1, <2>2 DEF FrameWellFormed
  <1>7. WellFormed'
    <2>1. \A k \in Frames : k # f => pc'[k] = pc[k] /\ cur'[k] = cur[k] /\ edge'[k] = edge[k]
      BY DEF IInv, TypeOK, CallFunction
    <2>2. UNCHANGED <<setupVars, thread, local_ready_queue, graphtasks_queue, heap>>
      BY DEF CallFunction
    <2> QED BY <1>6, <2>1, <2>2, OneFrameMoves
  <1> QED BY <1>5, <1>7 DEF IInv

(* ReadyQueue::push adds the task to one queue, and to nothing if that      *)
(* queue does not exist.                                                    *)
LEMMA PushType ==
  ASSUME TypeOK, NEW q, NEW t \in NodeTasks, Push(q, t)
  PROVE  /\ heap' \in [Queues -> SUBSET (NodeTasks \cup {ShutdownTask})]
         /\ outstanding_tasks' \in [GraphTasks -> Int]
         /\ \A r \in Queues : \A u \in heap'[r] : u \in heap[r] \/ u = t
  <1>1. t.gt \in GraphTasks
    BY DEF NodeTasks
  <1>2. outstanding_tasks' \in [GraphTasks -> Int]
    BY <1>1 DEF TypeOK, Push
  <1>3. \A r \in Queues : heap'[r] = heap[r] \/ heap'[r] = heap[r] \cup {t}
    BY DEF TypeOK, Push
  <1>4. heap' \in [Queues -> SUBSET (NodeTasks \cup {ShutdownTask})]
    BY <1>3 DEF TypeOK, Push
  <1> QED BY <1>2, <1>3, <1>4

(* evaluate_function's loop over the edges. *)
LEMMA PropagateEdgeStep ==
  ASSUME IInv, NEW f \in Frames, PropagateEdge(f)
  PROVE  IInv'
  <1> USE DEF Working, Evaluating, Completing
  <1> DEFINE g == cur[f].gt
             m == cur[f].fn
             i == edge[f]
             n == NextEdges[m][i]
             last == i = Len(NextEdges[m])
  <1>1. pc[f] = "edges"
    BY DEF PropagateEdge
  <1>2. cur[f] # None /\ cur[f] \in NodeTasks /\ g \in GraphTasks /\ call[g] # "idle"
    BY <1>1, HeldTask
  <1>3. /\ m \in Nodes /\ thread[f] \in Threads /\ local_ready_queue[thread[f]] \in Queues
        /\ (f \in Devices => thread[f] = f)
    BY <1>1, FrameFacts
  <1>4. i \in 1..Len(NextEdges[m])
    BY <1>1 DEF IInv, WellFormed, FrameWellFormed
  <1>5. NextEdges[m] \in Seq(Nodes \cup {None})
    BY <1>3, GraphAssumption
  <1>6. /\ n \in Nodes \cup {None} /\ i \in Nat /\ Len(NextEdges[m]) \in Nat
        /\ i \in DOMAIN NextEdges[m]
    BY <1>4, <1>5
  <1>7. n # None => <<m, i>> \in Edges
    BY <1>3, <1>6 DEF Edges
  <1>8. UNCHANGED <<setupVars, has_error, futureVars, callbackVars, historyVars, tlsVars,
                    cur, thread, poolVars, lifeVars>>
    BY DEF PropagateEdge
  <1>9. /\ mutex' \in [GraphTasks -> Frames \cup {None}]
        /\ \A k \in Frames : k # f => pc'[k] = pc[k] /\ edge'[k] = edge[k]
    <2>1. \E x \in {None, f} : mutex' = [mutex EXCEPT ![g] = x]
      BY DEF PropagateEdge
    <2>2. \E x : pc' = [pc EXCEPT ![f] = x]
      BY DEF PropagateEdge
    <2>3. edge' = edge \/ edge' = [edge EXCEPT ![f] = i + 1]
      BY DEF PropagateEdge
    <2> QED BY <1>2, <2>1, <2>2, <2>3 DEF IInv, TypeOK
  <1>a. edge' \in [Frames -> Nat]
    <2>1. edge' = edge \/ edge' = [edge EXCEPT ![f] = i + 1]
      BY DEF PropagateEdge
    <2>2. edge \in [Frames -> Nat] /\ i + 1 \in Nat
      BY <1>6 DEF IInv, TypeOK
    <2> QED BY <2>1, <2>2
  <1>b. \/ pc' = [pc EXCEPT ![f] = "throw"]
        \/ pc' = [pc EXCEPT ![f] = "dec"]
        \/ pc' = [pc EXCEPT ![f] = "edges"] /\ ~last /\ edge' = [edge EXCEPT ![f] = i + 1]
    BY DEF PropagateEdge
  <1>c. \/ pc'[f] \in {"throw", "dec"}
        \/ pc'[f] = "edges" /\ ~last /\ edge'[f] = i + 1
    BY <1>b DEF IInv, TypeOK
  <1>d. ~last /\ edge'[f] = i + 1 => edge'[f] \in 1..Len(NextEdges[m])
    BY <1>4, <1>6
  <1>e. FrameWellFormed(f)'
    BY <1>2, <1>3, <1>8, <1>c, <1>d DEF FrameWellFormed
  <1>f. pc' \in [Frames -> Labels]
    BY <1>b, MoveType DEF IInv, Evaluating
  <1>10. CASE \/ n = None \/ dependencies[g][n] = 0
    <2>1. UNCHANGED <<graphVars, heap, outstanding_tasks>>
      BY <1>10 DEF PropagateEdge
    <2>2. TypeOK'
      BY <1>8, <1>9, <1>a, <1>f, <2>1 DEF IInv, TypeOK
    <2>4. WellFormed'
      BY <1>8, <1>9, <1>e, <2>1, OneFrameMoves
    <2> QED BY <2>2, <2>4 DEF IInv
  <1>11. CASE n # None /\ dependencies[g][n] # 0
    <2>1. PropagateTo(g, <<m, i>>, n)
      BY <1>11 DEF PropagateEdge
    <2> HIDE DEF g, m, i, n, last
    <2>2. n \in Nodes /\ <<m, i>> \in Edges
      BY <1>6, <1>7, <1>11
    <2>3. dependencies' \in [GraphTasks -> [Nodes -> Nat]]
      <3>1. dependencies[g] \in [Nodes -> Nat] /\ dependencies[g][n] - 1 \in Nat
        BY <1>2, <1>11, <2>2 DEF IInv, TypeOK
      <3> QED BY <1>2, <2>1, <2>2, <3>1 DEF IInv, TypeOK, PropagateTo
    <2>4. inputs' \in [GraphTasks -> [Nodes -> SUBSET Edges]]
      <3>1. inputs[g] \in [Nodes -> SUBSET Edges] /\ inputs[g][n] \cup {<<m, i>>} \in SUBSET Edges
        BY <1>2, <2>2 DEF IInv, TypeOK
      <3>2. CASE inputs' = inputs
        BY <3>2 DEF IInv, TypeOK
      <3>3. CASE inputs' = [inputs EXCEPT ![g][n] = inputs[g][n] \cup {<<m, i>>}]
        BY <1>2, <2>2, <3>1, <3>3 DEF IInv, TypeOK
      <3> QED BY <2>1, <3>2, <3>3 DEF PropagateTo
    <2>5. not_ready' \in [GraphTasks -> SUBSET Nodes]
      <3>1. not_ready[g] \ {n} \in SUBSET Nodes /\ not_ready[g] \cup {n} \in SUBSET Nodes
        BY <1>2, <2>2 DEF IInv, TypeOK
      <3>2. not_ready' = not_ready \/ \E S \in SUBSET Nodes : not_ready' = [not_ready EXCEPT ![g] = S]
        BY <2>1, <3>1 DEF PropagateTo
      <3> QED BY <3>2 DEF IInv, TypeOK
    <2>6. NodeTask(g, n) \in NodeTasks /\ NodeTask(g, n).gt = g
      BY <1>2, <2>2 DEF NodeTask, NodeTasks
    <2>q. \/ UNCHANGED <<heap, outstanding_tasks>>
          \/ \E q : Push(q, NodeTask(g, n))
      BY <2>1 DEF PropagateTo
    <2>r. /\ heap' \in [Queues -> SUBSET (NodeTasks \cup {ShutdownTask})]
          /\ outstanding_tasks' \in [GraphTasks -> Int]
          /\ \A q \in Queues : \A t \in heap'[q] : t \in heap[q] \/ t = NodeTask(g, n)
      <3>1. CASE UNCHANGED <<heap, outstanding_tasks>>
        BY <3>1 DEF IInv, TypeOK
      <3>2. CASE \E q : Push(q, NodeTask(g, n))
        BY <2>6, <3>2, PushType DEF IInv
      <3> QED BY <2>q, <3>1, <3>2
    <2>10. TypeOK'
      BY <1>8, <1>9, <1>a, <1>f, <2>3, <2>4, <2>5, <2>r DEF IInv, TypeOK
    <2>12. WellFormed'
      BY <1>2, <1>8, <1>9, <1>e, <2>6, <2>r, OneFrameMoves
    <2> QED BY <2>10, <2>12 DEF IInv
  <1> QED BY <1>10, <1>11

(* Post-processing and the wake-up of the owner. *)
LEMMA CompletionSteps ==
  ASSUME IInv, NEW f \in Frames,
         RunFinalCallback(f) \/ ExecPostProcessing(f) \/ NotifyOwner(f)
  PROVE  IInv'
  <1> USE DEF Working, Evaluating, Completing
  <1> DEFINE g == cur[f].gt
  <1>1. pc[f] \in {"post", "wake"}
    BY DEF RunFinalCallback, ExecPostProcessing, NotifyOwner
  <1>2. cur[f] # None /\ cur[f] \in NodeTasks /\ g \in GraphTasks /\ call[g] # "idle"
    BY <1>1, HeldTask
  <1>3. /\ thread[f] \in Threads /\ local_ready_queue[thread[f]] \in Queues
        /\ (f \in Devices => thread[f] = f)
    BY <1>1, FrameFacts
  <1>4. CASE RunFinalCallback(f)
    <2>1. /\ UNCHANGED <<setupVars, thread, local_ready_queue, graphtasks_queue, heap, pc, cur, edge>>
          /\ UNCHANGED <<outerVars, outstanding_tasks, has_error, futureVars, graphVars, historyVars>>
      BY <1>4 DEF RunFinalCallback
    <2>2. callbacks_run' \in [GraphTasks -> Nat] /\ mutex' \in [GraphTasks -> Frames \cup {None}]
      <3>1. callbacks_run[g] + 1 \in Nat
        BY <1>2 DEF IInv, TypeOK
      <3>2. /\ callbacks_run' = [callbacks_run EXCEPT ![g] = callbacks_run[g] + 1]
            /\ mutex' = [mutex EXCEPT ![g] = f]
        BY <1>4 DEF RunFinalCallback
      <3> QED BY <3>1, <3>2 DEF IInv, TypeOK
    <2>3. final_callbacks' \in [GraphTasks -> Nat]
      <3>1. PICK k \in {0, 1} : final_callbacks' = [final_callbacks EXCEPT ![g] = @ + k]
        BY <1>4 DEF RunFinalCallback
      <3> QED BY <1>2, <3>1 DEF IInv, TypeOK
    <2>4. TypeOK'
      BY <2>1, <2>2, <2>3 DEF IInv, TypeOK
    <2>5. WellFormed'
      BY <2>1 DEF IInv, WellFormed, CallWellFormed, FrameWellFormed
    <2> QED BY <2>4, <2>5 DEF IInv
  <1>5. CASE ExecPostProcessing(f)
    <2>1. PICK r \in {"value", "error"} : FinishFuture(f, r)
      BY <1>5 DEF ExecPostProcessing
    <2>2. TypeOK'
      BY <1>2, <2>1 DEF FinishFuture, IInv, TypeOK
    <2>3. FrameWellFormed(f)'
      <3>1. pc'[f] = "wake" /\ UNCHANGED <<cur, edge, setupVars, thread, local_ready_queue>>
        BY <2>1 DEF FinishFuture, IInv, TypeOK
      <3> QED BY <1>2, <1>3, <3>1 DEF FrameWellFormed
    <2>4. \A k \in Frames : k # f => pc'[k] = pc[k] /\ cur'[k] = cur[k] /\ edge'[k] = edge[k]
      BY <2>1 DEF FinishFuture, IInv, TypeOK
    <2>5. UNCHANGED <<setupVars, thread, local_ready_queue, graphtasks_queue, heap>>
      BY <2>1 DEF FinishFuture
    <2>6. WellFormed'
      BY <2>3, <2>4, <2>5, OneFrameMoves
    <2> QED BY <2>2, <2>6 DEF IInv
  <1>6. CASE NotifyOwner(f)
    <2>1. DummyTask(g, f) \in NodeTasks /\ DummyTask(g, f).gt = g
      BY <1>2 DEF DummyTask, NodeTasks
    <2>2. \/ UNCHANGED <<heap, outstanding_tasks>>
          \/ \E q : Push(q, DummyTask(g, f))
      BY <1>6 DEF NotifyOwner
    <2>3. /\ heap' \in [Queues -> SUBSET (NodeTasks \cup {ShutdownTask})]
          /\ outstanding_tasks' \in [GraphTasks -> Int]
          /\ \A q \in Queues : \A t \in heap'[q] : t \in heap[q] \/ t = DummyTask(g, f)
      <3>1. CASE UNCHANGED <<heap, outstanding_tasks>>
        BY <3>1 DEF IInv, TypeOK
      <3>2. CASE \E q : Push(q, DummyTask(g, f))
        BY <2>1, <3>2, PushType DEF IInv
      <3> QED BY <2>2, <3>1, <3>2
    <2>4. /\ pc' = [pc EXCEPT ![f] = LoopHead(f)] /\ cur' = [cur EXCEPT ![f] = None]
          /\ UNCHANGED <<nodeVars, outerVars, has_error, futureVars, mutex, edge>>
      BY <1>6 DEF NotifyOwner
    <2>5. TypeOK'
      BY <2>3, <2>4 DEF IInv, TypeOK
    <2>6. FrameWellFormed(f)'
      <3>1. pc'[f] \in {"pop", "loop"} /\ cur'[f] = None
        BY <2>4 DEF IInv, TypeOK
      <3> QED BY <1>3, <2>4, <3>1 DEF FrameWellFormed
    <2>7. \A k \in Frames : k # f => pc'[k] = pc[k] /\ cur'[k] = cur[k] /\ edge'[k] = edge[k]
      BY <2>4 DEF IInv, TypeOK
    <2>8. WellFormed'
      BY <1>2, <2>1, <2>3, <2>4, <2>6, <2>7, OneFrameMoves
    <2> QED BY <2>5, <2>8 DEF IInv
  <1> QED BY <1>4, <1>5, <1>6

(* Engine::execute on a thread that has, or is allowed, a ready queue. *)
LEMMA ExecuteStep ==
  ASSUME IInv, NEW t \in Threads, NEW g \in GraphTasks, Execute(t, g),
         local_ready_queue[t] \in Queues \/ t \in Callers,
         NEW f \in Frames,
         pc' = [[pc EXCEPT ![f] = pc'[f]] EXCEPT ![g] = FrameStart(t)],
         f # g => pc'[f] = pc[f] \/ (pc[f] = "run" /\ pc'[f] = "reenter")
  PROVE  IInv'
  <1> USE DEF Working, Evaluating, Completing
  <1> DEFINE q == IF local_ready_queue[t] = None THEN t ELSE local_ready_queue[t]
             d == IF Reentrant(t) THEN worker_device[t] ELSE CPU
  <1>1. q \in Queues
    <2>1. local_ready_queue[t] \in Queues \cup {None}
      BY DEF IInv, TypeOK
    <2> QED BY <2>1, EngineAssumption
  <1>2. d \in Devices \cup {CPU} /\ d # NO_DEVICE
    BY EngineAssumption DEF IInv, TypeOK, Reentrant
  <1>3. /\ local_ready_queue' = [local_ready_queue EXCEPT ![t] = q]
        /\ cpu_ready_queue' = [cpu_ready_queue EXCEPT ![g] = q]
        /\ dependencies' = [dependencies EXCEPT ![g] = DepsOf[g]]
        /\ UNCHANGED <<has_error, futureVars, not_ready, inputs, callbackVars,
                       historyVars, cur, edge, poolVars, lifeVars>>
    BY DEF Execute
  <1>4. /\ worker_device' = [worker_device EXCEPT ![t] = d]
        /\ owner' = [owner EXCEPT ![g] = d]
    <2>1. worker_device' = [worker_device EXCEPT ![t] = d]
      BY DEF Execute
    <2>2. worker_device'[t] = d
      BY <2>1 DEF IInv, TypeOK
    <2> QED BY <2>1, <2>2 DEF Execute
  <1>5. \E c \in {"handed", "inline"} : call' = [call EXCEPT ![g] = c]
    BY DEF Execute
  <1>6. reentrant_depth' \in [GraphTasks -> Int]
    <2>1. \E x \in Int : reentrant_depth' = [reentrant_depth EXCEPT ![g] = x]
      <3> DEFINE x == IF Reentrant(t) THEN total_depth[t] + 1 ELSE 0
      <3>1. x \in Int
        BY DEF IInv, TypeOK
      <3>2. reentrant_depth' = [reentrant_depth EXCEPT ![g] = x]
        BY DEF Execute
      <3> QED BY <3>1, <3>2
    <2> QED BY <2>1 DEF IInv, TypeOK
  <1>7. current_depth' \in [Threads -> Int] /\ total_depth' \in [Threads -> Int]
    <2>1. /\ current_depth \in [Threads -> Int] /\ total_depth \in [Threads -> Int]
          /\ current_depth[t] + 1 \in Int /\ total_depth[t] + 1 \in Int
      BY DEF IInv, TypeOK
    <2>2. /\ \/ current_depth' = current_depth
             \/ \E x \in {current_depth[t], current_depth[t] + 1} :
                   current_depth' = [current_depth EXCEPT ![t] = x]
          /\ \/ total_depth' = total_depth
             \/ \E x \in {total_depth[t], total_depth[t] + 1} :
                   total_depth' = [total_depth EXCEPT ![t] = x]
      BY DEF Execute
    <2> QED BY <2>1, <2>2
  <1>m. mutex' \in [GraphTasks -> Frames \cup {None}]
    <2>1. mutex' = mutex \/ mutex' = [mutex EXCEPT ![g] = g]
      BY DEF Execute
    <2>2. mutex \in [GraphTasks -> Frames \cup {None}]
      BY DEF IInv, TypeOK
    <2>3. g \in Frames \cup {None}
      OBVIOUS
    <2> QED BY <2>1, <2>2, <2>3
  <1>8. /\ thread' = thread \/ thread' = [thread EXCEPT ![g] = t]
        /\ FrameStart(t) = "loop" => thread' = [thread EXCEPT ![g] = t]
        /\ FrameStart(t) \in {"loop", "handoff"}
    BY DEF Execute, FrameStart
  <1>9. NodeTask(g, Root[g]) \in NodeTasks /\ NodeTask(g, Root[g]).gt = g
    BY EngineAssumption DEF NodeTask, NodeTasks
  <1>10. /\ heap' \in [Queues -> SUBSET (NodeTasks \cup {ShutdownTask})]
         /\ outstanding_tasks' \in [GraphTasks -> Int]
         /\ \A r \in Queues : \A u \in heap'[r] : u \in heap[r] \/ u = NodeTask(g, Root[g])
    BY <1>9, PushType DEF Execute, IInv
  <1> HIDE DEF q, d
  <1>11. dependencies' \in [GraphTasks -> [Nodes -> Nat]]
    BY <1>3, DepsType DEF IInv, TypeOK
  <1>12. /\ call' \in [GraphTasks -> {"idle", "inline", "handed", "returned", "aborted"}]
         /\ owner' \in [GraphTasks -> Devices \cup {CPU, NO_DEVICE}]
         /\ cpu_ready_queue' \in [GraphTasks -> Queues \cup {None}]
         /\ worker_device' \in [Threads -> Devices \cup {CPU, NO_DEVICE}]
         /\ local_ready_queue' \in [Threads -> Queues \cup {None}]
         /\ thread' \in [Frames -> Threads \cup {None}]
    <2>1. call' \in [GraphTasks -> {"idle", "inline", "handed", "returned", "aborted"}]
      BY <1>5 DEF IInv, TypeOK
    <2>2. /\ cpu_ready_queue' \in [GraphTasks -> Queues \cup {None}]
          /\ local_ready_queue' \in [Threads -> Queues \cup {None}]
      BY <1>1, <1>3 DEF IInv, TypeOK
    <2>3. /\ owner' \in [GraphTasks -> Devices \cup {CPU, NO_DEVICE}]
          /\ worker_device' \in [Threads -> Devices \cup {CPU, NO_DEVICE}]
      BY <1>2, <1>4 DEF IInv, TypeOK
    <2>4. thread' \in [Frames -> Threads \cup {None}]
      <3>1. thread \in [Frames -> Threads \cup {None}]
        BY DEF IInv, TypeOK
      <3>2. [thread EXCEPT ![g] = t] \in [Frames -> Threads \cup {None}]
        BY <3>1
      <3> QED BY <1>8, <3>1, <3>2
    <2> QED BY <2>1, <2>2, <2>3, <2>4
  <1>13. pc' \in [Frames -> Labels]
    <2>1. \A k \in Frames : \/ pc'[k] = pc[k] \/ pc'[k] \in {"reenter", "loop", "handoff"}
      BY <1>8 DEF IInv, TypeOK
    <2>2. pc' = [k \in Frames |-> pc'[k]]
      BY DEF IInv, TypeOK
    <2> QED BY <2>1, <2>2 DEF IInv, TypeOK
  <1>14. TypeOK'
    BY <1>3, <1>6, <1>7, <1>m, <1>10, <1>11, <1>12, <1>13 DEF IInv, TypeOK
  <1>15. call'[g] # "idle" /\ \A h \in GraphTasks : call[h] # "idle" => call'[h] # "idle"
    BY <1>5 DEF IInv, TypeOK
  <1>16. \A h \in GraphTasks : CallWellFormed(h)'
    BY <1>1, <1>2, <1>3, <1>4, <1>5 DEF IInv, TypeOK, WellFormed, CallWellFormed
  <1>17. ASSUME NEW k \in Frames PROVE FrameWellFormed(k)'
    <2>1. cur[k] # None => cur[k].gt \in GraphTasks
      BY DEF IInv, TypeOK, NodeTasks
    <2>2. cur'[k] # None => call'[cur'[k].gt] # "idle"
      BY <1>3, <1>15, <2>1 DEF IInv, WellFormed, FrameWellFormed
    <2>3. CASE k = g
      <3>1. pc'[k] = FrameStart(t)
        BY <2>3 DEF IInv, TypeOK
      <3>2. k \notin Devices
        BY <2>3, EngineAssumption
      <3>3. pc'[k] = "loop" => thread'[k] = t /\ local_ready_queue'[t] \in Queues
        BY <1>1, <1>3, <1>8, <2>3, <3>1 DEF IInv, TypeOK
      <3> QED BY <1>8, <1>15, <2>2, <2>3, <3>1, <3>2, <3>3 DEF FrameWellFormed
    <2>4. CASE k # g
      <3>1. pc'[k] = pc[k] \/ (pc[k] = "run" /\ pc'[k] = "reenter")
        BY <2>4 DEF IInv, TypeOK
      <3>2. thread'[k] = thread[k] /\ cur'[k] = cur[k] /\ edge'[k] = edge[k]
        BY <1>3, <1>8, <2>4 DEF IInv, TypeOK
      <3>3. \A s \in Threads : local_ready_queue[s] \in Queues => local_ready_queue'[s] \in Queues
        BY <1>1, <1>3 DEF IInv, TypeOK
      <3>4. pc[k] \in {"handoff", "pooled"} => k \in GraphTasks /\ call'[k] # "idle"
        BY <1>15 DEF IInv, WellFormed, FrameWellFormed
      <3> QED BY <2>2, <3>1, <3>2, <3>3, <3>4 DEF IInv, WellFormed, FrameWellFormed
    <2> QED BY <2>3, <2>4
  <1>18. \A r \in Queues : \A u \in heap'[r] : u # ShutdownTask => call'[u.gt] # "idle"
    <2> SUFFICES ASSUME NEW r \in Queues, NEW u \in heap'[r], u # ShutdownTask
                 PROVE  call'[u.gt] # "idle"
      OBVIOUS
    <2>1. CASE u \in heap[r]
      <3>1. u \in NodeTasks
        BY <2>1 DEF IInv, TypeOK
      <3>2. u.gt \in GraphTasks
        BY <3>1 DEF NodeTasks
      <3> QED BY <1>15, <2>1, <3>2 DEF IInv, WellFormed
    <2> QED BY <1>9, <1>10, <1>15, <2>1
  <1>19. \A i \in 1..Len(graphtasks_queue') : call'[graphtasks_queue'[i]] # "idle"
    <2>1. graphtasks_queue \in Seq(GraphTasks) /\ graphtasks_queue' = graphtasks_queue
      BY <1>3 DEF IInv, TypeOK
    <2>2. \A i \in 1..Len(graphtasks_queue) : graphtasks_queue[i] \in GraphTasks
      BY <2>1
    <2> QED BY <1>15, <2>1, <2>2 DEF IInv, WellFormed
  <1>20. WellFormed'
    BY <1>16, <1>17, <1>18, <1>19 DEF WellFormed
  <1> QED BY <1>14, <1>20 DEF IInv

(* backward() on a user thread, and from inside a node. *)
LEMMA BackwardStep ==
  ASSUME IInv, NEW c \in Callers, NEW g \in GraphTasks, Backward(c, g)
  PROVE  IInv'
  <1>1. c \in Threads /\ g \in Frames /\ Execute(c, g) /\ pc' = [pc EXCEPT ![g] = FrameStart(c)]
    BY DEF Backward
  <1>2. pc' = [[pc EXCEPT ![g] = pc'[g]] EXCEPT ![g] = FrameStart(c)]
    BY <1>1 DEF IInv, TypeOK
  <1> QED BY <1>1, <1>2, ExecuteStep

LEMMA ReenterStep ==
  ASSUME IInv, NEW f \in Frames, Reenter(f)
  PROVE  IInv'
  <1> DEFINE g == Inner(f)
             t == thread[f]
  <1>1. pc[f] = "run" /\ g # None /\ Execute(t, g)
        /\ pc' = [pc EXCEPT ![f] = "reenter", ![g] = FrameStart(t)]
    BY DEF Reenter
  <1>2. t \in Threads /\ local_ready_queue[t] \in Queues /\ cur[f].fn \in Nodes
    BY <1>1, FrameFacts DEF Working, Evaluating
  <1>3. g \in GraphTasks
    BY <1>1, <1>2, HeldTask, EngineAssumption DEF Inner, Evaluating
  <1> HIDE DEF g, t
  <1>4. f # g => pc'[f] = "reenter"
    BY <1>1 DEF IInv, TypeOK
  <1>5. pc' = [[pc EXCEPT ![f] = pc'[f]] EXCEPT ![g] = FrameStart(t)]
    BY <1>1, <1>3, <1>4 DEF IInv, TypeOK
  <1> QED BY <1>1, <1>2, <1>3, <1>4, <1>5, ExecuteStep

(* The return of a call, to the user or to the node that made it. *)
LEMMA ReturnSteps ==
  ASSUME IInv,
         \/ \E c \in Callers, g \in GraphTasks : ReturnToCaller(c, g)
         \/ \E f \in Frames : ReturnToParent(f)
  PROVE  IInv'
  <1> USE DEF Working, Evaluating, Completing
  <1>1. ASSUME NEW c \in Callers, NEW g \in GraphTasks, ReturnToCaller(c, g) PROVE IInv'
    <2>1. TypeOK'
      BY <1>1 DEF ReturnToCaller, DeviceAfter, IInv, TypeOK
    <2>2. \A h \in GraphTasks : call'[h] # "idle" <=> call[h] # "idle"
      BY <1>1 DEF ReturnToCaller, IInv, TypeOK
    <2>3. \A k \in Frames : pc'[k] = pc[k] \/ pc'[k] = "done"
      BY <1>1 DEF ReturnToCaller, IInv, TypeOK
    <2>4. UNCHANGED <<owner, cpu_ready_queue, heap, local_ready_queue, cur, edge, thread,
                      graphtasks_queue>>
      BY <1>1 DEF ReturnToCaller
    <2>5. WellFormed'
      BY <2>2, <2>3, <2>4, SameCalls
    <2> QED BY <2>1, <2>5 DEF IInv
  <1>2. ASSUME NEW f \in Frames, ReturnToParent(f) PROVE IInv'
    <2> DEFINE h == Inner(f)
    <2>1. pc[f] = "reenter"
      BY <1>2 DEF ReturnToParent
    <2>2. cur[f] # None /\ cur[f].gt \in GraphTasks /\ call[cur[f].gt] # "idle"
      BY <2>1, HeldTask
    <2>3. thread[f] \in Threads /\ local_ready_queue[thread[f]] \in Queues /\ cur[f].fn \in Nodes
      BY <2>1, FrameFacts
    <2>4. /\ call[h] # "idle"
          /\ \E x \in {"returned", "aborted"} : call' = [call EXCEPT ![h] = x]
      BY <1>2 DEF ReturnToParent
    <2>5. UNCHANGED <<taskVars, owner, cpu_ready_queue, reentrant_depth, heap, worker_device,
                      local_ready_queue, cur, edge, thread, poolVars, lifeVars>>
      BY <1>2 DEF ReturnToParent
    <2>6. /\ current_depth' \in [Threads -> Int]
          /\ total_depth' \in [Threads -> Int]
      <3>1. CASE UNCHANGED <<current_depth, total_depth>>
        BY <3>1 DEF IInv, TypeOK
      <3>2. CASE /\ current_depth' = [current_depth EXCEPT ![thread[f]] = @ - 1]
                 /\ total_depth' = [total_depth EXCEPT ![thread[f]] = @ - 1]
        <4>1. current_depth[thread[f]] - 1 \in Int /\ total_depth[thread[f]] - 1 \in Int
          BY <2>3 DEF IInv, TypeOK
        <4> QED BY <3>2, <4>1 DEF IInv, TypeOK
      <3> QED BY <1>2, <3>1, <3>2 DEF ReturnToParent
    <2>7. \E x \in {"run", "throw"} : pc' = [pc EXCEPT ![f] = x] \/ pc' = [pc EXCEPT ![f] = x, ![h] = "done"]
      BY <1>2 DEF ReturnToParent
    <2> HIDE DEF h
    <2>8. TypeOK'
      <3>1. call' \in [GraphTasks -> {"idle", "inline", "handed", "returned", "aborted"}]
        BY <2>4 DEF IInv, TypeOK
      <3>2. pc' \in [Frames -> Labels]
        BY <2>7 DEF IInv, TypeOK
      <3> QED BY <2>5, <2>6, <3>1, <3>2 DEF IInv, TypeOK
    <2>9. \A g \in GraphTasks : call'[g] # "idle" <=> call[g] # "idle"
      BY <2>4 DEF IInv, TypeOK
    <2>10. \A k \in Frames : \/ pc'[k] = pc[k] \/ pc'[k] = "done"
                             \/ pc[k] = "reenter" /\ pc'[k] \in {"run", "throw"}
      BY <2>1, <2>7 DEF IInv, TypeOK
    <2>11. WellFormed'
      BY <2>5, <2>9, <2>10, SameCalls
    <2> QED BY <2>8, <2>11 DEF IInv
  <1> QED BY <1>1, <1>2

(* The thread pool. *)
LEMMA PoolSteps ==
  ASSUME IInv,
         \/ \E g \in GraphTasks : AddThreadPoolTask(g)
         \/ \E p \in PoolThreads : PoolStep(p)
  PROVE  IInv'
  <1> USE DEF Working, Evaluating, Completing
  <1>0. graphtasks_queue \in Seq(GraphTasks)
    BY DEF IInv, TypeOK
  <1>1. ASSUME NEW g \in GraphTasks, AddThreadPoolTask(g) PROVE IInv'
    <2>1. pc[g] = "handoff" /\ call[g] # "idle"
      BY <1>1 DEF AddThreadPoolTask, IInv, WellFormed, FrameWellFormed
    <2>2. UNCHANGED <<nodeVars, has_error, futureVars, outstanding_tasks, setupVars, heap, tlsVars,
                      cur, edge, thread, num_workers, lifeVars>>
      BY <1>1 DEF AddThreadPoolTask
    <2>m. mutex' \in [GraphTasks -> Frames \cup {None}]
      BY <1>1 DEF AddThreadPoolTask, IInv, TypeOK
    <2>3. pc' = [pc EXCEPT ![g] = "pooled"] /\ graphtasks_queue' = Append(graphtasks_queue, g)
      BY <1>1 DEF AddThreadPoolTask
    <2>4. graphtasks_queue' \in Seq(GraphTasks)
      BY <1>0, <2>3
    <2>5. worker' \in [PoolThreads -> {"unborn", "start", "wait", "drive"}]
      BY <1>1 DEF AddThreadPoolTask, IInv, TypeOK
    <2>6. TypeOK'
      BY <2>2, <2>m, <2>3, <2>4, <2>5 DEF IInv, TypeOK
    <2>7. \A k \in Frames : FrameWellFormed(k)'
      <3>1. \A k \in Frames : k # g => pc'[k] = pc[k]
        BY <2>3 DEF IInv, TypeOK
      <3>2. pc'[g] = "pooled" /\ FrameWellFormed(g)
        BY <2>3 DEF IInv, TypeOK, WellFormed
      <3>3. FrameWellFormed(g)'
        BY <2>1, <2>2, <3>2 DEF FrameWellFormed
      <3>4. ASSUME NEW k \in Frames, k # g PROVE FrameWellFormed(k)'
        BY <2>2, <3>1, <3>4 DEF IInv, WellFormed, FrameWellFormed
      <3> QED BY <3>3, <3>4
    <2>8. \A h \in GraphTasks : CallWellFormed(h)'
      BY <2>2 DEF IInv, WellFormed, CallWellFormed
    <2>9. \A i \in 1..Len(graphtasks_queue') : call'[graphtasks_queue'[i]] # "idle"
      <3>1. /\ Len(graphtasks_queue') = Len(graphtasks_queue) + 1 /\ Len(graphtasks_queue) \in Nat
            /\ graphtasks_queue'[Len(graphtasks_queue) + 1] = g
            /\ \A i \in 1..Len(graphtasks_queue) : graphtasks_queue'[i] = graphtasks_queue[i]
        BY <1>0, <2>3
      <3> QED BY <2>1, <2>2, <3>1 DEF IInv, WellFormed
    <2>10. WellFormed'
      BY <2>2, <2>7, <2>8, <2>9 DEF IInv, WellFormed
    <2> QED BY <2>6, <2>10 DEF IInv
  <1>2. ASSUME NEW p \in PoolThreads, WorkerWait(p) PROVE IInv'
    <2>1. num_workers' \in Int /\ worker' \in [PoolThreads -> {"unborn", "start", "wait", "drive"}]
      BY <1>2 DEF WorkerWait, IInv, TypeOK
    <2>2. UNCHANGED <<taskVars, setupVars, heap, tlsVars, pc, cur, edge, thread, graphtasks_queue,
                      lifeVars>>
      BY <1>2 DEF WorkerWait
    <2>3. TypeOK'
      BY <2>1, <2>2 DEF IInv, TypeOK
    <2>4. WellFormed'
      BY <2>2, SameCalls
    <2> QED BY <2>3, <2>4 DEF IInv
  <1>3. ASSUME NEW p \in PoolThreads, NEW g \in GraphTasks, WorkerDone(p, g) PROVE IInv'
    <2>1. TypeOK'
      BY <1>3 DEF WorkerDone, IInv, TypeOK
    <2>2. \A k \in Frames : pc'[k] = pc[k] \/ pc'[k] = "done"
      BY <1>3 DEF WorkerDone, IInv, TypeOK
    <2>3. UNCHANGED <<setupVars, heap, tlsVars, cur, edge, thread, graphtasks_queue>>
      BY <1>3 DEF WorkerDone
    <2>4. WellFormed'
      BY <2>2, <2>3, SameCalls
    <2> QED BY <2>1, <2>4 DEF IInv
  <1>4. ASSUME NEW p \in PoolThreads, WorkerTake(p) PROVE IInv'
    <2> DEFINE g == Head(graphtasks_queue)
               q == ready_queue_by_index(cpu_ready_queue[g], owner[g])
    <2>1. /\ graphtasks_queue # <<>> /\ graphtasks_queue' = Tail(graphtasks_queue)
          /\ num_workers' = num_workers - 1
          /\ UNCHANGED <<taskVars, setupVars, heap, current_depth, cur, edge, lifeVars>>
      BY <1>4 DEF WorkerTake
    <2>2. /\ g = graphtasks_queue[1] /\ 1 \in 1..Len(graphtasks_queue) /\ g \in GraphTasks
          /\ graphtasks_queue' \in Seq(GraphTasks)
          /\ \A i \in 1..Len(graphtasks_queue') :
                 i + 1 \in 1..Len(graphtasks_queue) /\ graphtasks_queue'[i] = graphtasks_queue[i + 1]
      BY <1>0, <2>1
    <2>3. call[g] # "idle" /\ p \in Threads /\ g \in Frames /\ g \notin Devices
      BY <2>2, EngineAssumption DEF IInv, WellFormed
    <2>4. q \in Queues /\ owner[g] \in Devices \cup {CPU, NO_DEVICE} /\ reentrant_depth[g] \in Int
      <3>1. owner[g] \in Devices \cup {CPU, NO_DEVICE} /\ reentrant_depth[g] \in Int
        BY <2>2 DEF IInv, TypeOK
      <3>2. cpu_ready_queue[g] \in Queues /\ owner[g] # NO_DEVICE
        BY <2>2, <2>3 DEF IInv, WellFormed, CallWellFormed
      <3> QED BY <3>1, <3>2 DEF ready_queue_by_index
    <2>5. \A h \in GraphTasks : CallWellFormed(h)'
      BY <2>1 DEF IInv, WellFormed, CallWellFormed
    <2>6. \A i \in 1..Len(graphtasks_queue') : call'[graphtasks_queue'[i]] # "idle"
      BY <2>1, <2>2 DEF IInv, WellFormed
    <2>7. \A r \in Queues : \A t \in heap'[r] : t # ShutdownTask => call'[t.gt] # "idle"
      BY <2>1 DEF IInv, WellFormed
    <2>8. CASE Alive(g)
      <3>1. /\ worker' = [worker EXCEPT ![p] = "drive"]
            /\ worker_device' = [worker_device EXCEPT ![p] = owner[g]]
            /\ local_ready_queue' = [local_ready_queue EXCEPT ![p] = q]
            /\ total_depth' = [total_depth EXCEPT ![p] = reentrant_depth[g]]
            /\ thread' = [thread EXCEPT ![g] = p]
            /\ pc' = [pc EXCEPT ![g] = "loop"]
        BY <1>4, <2>8 DEF WorkerTake
      <3> HIDE DEF g, q
      <3>2. TypeOK'
        <4>1. worker_device' \in [Threads -> Devices \cup {CPU, NO_DEVICE}]
          BY <2>4, <3>1 DEF IInv, TypeOK
        <4>2. /\ local_ready_queue' \in [Threads -> Queues \cup {None}]
              /\ total_depth' \in [Threads -> Int]
          BY <2>4, <3>1 DEF IInv, TypeOK
        <4>3. thread' \in [Frames -> Threads \cup {None}]
          BY <2>3, <3>1 DEF IInv, TypeOK
        <4>4. worker' \in [PoolThreads -> {"unborn", "start", "wait", "drive"}] /\ num_workers' \in Int
          BY <2>1, <3>1 DEF IInv, TypeOK
        <4>5. pc' \in [Frames -> Labels]
          BY <3>1 DEF IInv, TypeOK
        <4> QED BY <2>1, <2>2, <4>1, <4>2, <4>3, <4>4, <4>5 DEF IInv, TypeOK
      <3>3. \A s \in Threads : local_ready_queue[s] \in Queues => local_ready_queue'[s] \in Queues
        BY <2>4, <3>1 DEF IInv, TypeOK
      <3>4. ASSUME NEW k \in Frames PROVE FrameWellFormed(k)'
        <4>1. CASE k = g
          <5>1. pc'[k] = "loop" /\ thread'[k] = p /\ local_ready_queue'[p] = q /\ cur'[k] = cur[k]
            BY <2>1, <2>3, <3>1, <4>1 DEF IInv, TypeOK
          <5>2. cur'[k] # None => call'[cur'[k].gt] # "idle"
            BY <2>1 DEF IInv, WellFormed, FrameWellFormed
          <5> QED BY <2>3, <2>4, <4>1, <5>1, <5>2 DEF FrameWellFormed
        <4>2. CASE k # g
          <5>1. pc'[k] = pc[k] /\ thread'[k] = thread[k]
            BY <3>1, <4>2 DEF IInv, TypeOK
          <5> QED BY <2>1, <3>3, <5>1 DEF IInv, WellFormed, FrameWellFormed
        <4> QED BY <4>1, <4>2
      <3> QED BY <2>5, <2>6, <2>7, <3>2, <3>4 DEF IInv, WellFormed
    <2>9. CASE ~Alive(g)
      <3>1. /\ worker' = [worker EXCEPT ![p] = "start"] /\ pc' = [pc EXCEPT ![g] = "done"]
            /\ UNCHANGED <<worker_device, local_ready_queue, total_depth, thread>>
        BY <1>4, <2>9 DEF WorkerTake
      <3> HIDE DEF g, q
      <3>2. TypeOK'
        <4>1. worker' \in [PoolThreads -> {"unborn", "start", "wait", "drive"}] /\ num_workers' \in Int
          BY <2>1, <3>1 DEF IInv, TypeOK
        <4>2. pc' \in [Frames -> Labels]
          BY <3>1 DEF IInv, TypeOK
        <4> QED BY <2>1, <2>2, <3>1, <4>1, <4>2 DEF IInv, TypeOK
      <3>3. \A k \in Frames : FrameWellFormed(k)'
        BY <2>1, <3>1 DEF IInv, TypeOK, WellFormed, FrameWellFormed
      <3> QED BY <2>5, <2>6, <2>7, <3>2, <3>3 DEF IInv, WellFormed
    <2> QED BY <2>8, <2>9
  <1> QED BY <1>1, <1>2, <1>3, <1>4 DEF PoolStep

(* Start and stop of the device threads. *)
LEMMA LifeSteps ==
  ASSUME IInv, StartStep \/ StopStep
  PROVE  IInv'
  <1> USE DEF Working, Evaluating, Completing
  <1>1. CASE StartDeviceThreads \/ DeviceThreadsStarted
    <2>1. TypeOK'
      <3>1. pc' \in [Frames -> Labels]
        <4>1. pc' = pc \/ pc' = [f \in Frames |-> IF f \in Devices THEN "starting" ELSE pc[f]]
          BY <1>1 DEF StartDeviceThreads, DeviceThreadsStarted
        <4> QED BY <4>1 DEF IInv, TypeOK
      <3>2. started' \in {"no", "starting", "yes"}
        BY <1>1 DEF StartDeviceThreads, DeviceThreadsStarted
      <3>3. UNCHANGED <<otherThanLife, heap, tlsVars, thread_count, stop_pc, stop_todo>>
        BY <1>1 DEF StartDeviceThreads, DeviceThreadsStarted
      <3> QED BY <3>1, <3>2, <3>3 DEF IInv, TypeOK
    <2>2. WellFormed'
      <3>1. \A k \in Frames : pc'[k] = pc[k] \/ pc'[k] = "starting"
        BY <1>1 DEF StartDeviceThreads, DeviceThreadsStarted
      <3>2. UNCHANGED <<otherThanLife, heap, tlsVars>>
        BY <1>1 DEF StartDeviceThreads, DeviceThreadsStarted
      <3> QED BY <3>1, <3>2, SameCalls
    <2> QED BY <2>1, <2>2 DEF IInv
  <1>2. ASSUME NEW d \in Devices, ThreadInit(d) PROVE IInv'
    <2>1. /\ thread_count' = thread_count + 1
          /\ worker_device' = [worker_device EXCEPT ![d] = d]
          /\ local_ready_queue' = [local_ready_queue EXCEPT ![d] = d]
          /\ pc' = [pc EXCEPT ![d] = "pop"]
          /\ UNCHANGED <<otherThanLife, heap, current_depth, total_depth, started, stop_pc, stop_todo>>
      BY <1>2 DEF ThreadInit
    <2>2. TypeOK'
      BY <2>1 DEF IInv, TypeOK
    <2>3. \A s \in Threads : local_ready_queue[s] \in Queues => local_ready_queue'[s] \in Queues
      BY <2>1 DEF IInv, TypeOK
    <2>4. ASSUME NEW k \in Frames PROVE FrameWellFormed(k)'
      <3>1. CASE k = d
        <4>1. thread'[k] = d /\ pc'[k] = "pop" /\ local_ready_queue'[d] = d /\ cur'[k] = cur[k] /\ call' = call
          BY <2>1, <3>1 DEF IInv, TypeOK, WellFormed, FrameWellFormed
        <4> QED BY <3>1, <4>1 DEF IInv, WellFormed, FrameWellFormed
      <3>2. CASE k # d
        <4>1. pc'[k] = pc[k]
          BY <2>1, <3>2 DEF IInv, TypeOK
        <4> QED BY <2>1, <2>3, <4>1 DEF IInv, WellFormed, FrameWellFormed
      <3> QED BY <3>1, <3>2
    <2>5. WellFormed'
      BY <2>1, <2>4 DEF IInv, WellFormed, CallWellFormed
    <2> QED BY <2>2, <2>5 DEF IInv
  <1>3. ASSUME NEW d \in Devices, ThreadExit(d) PROVE IInv'
    <2>1. TypeOK'
      BY <1>3 DEF ThreadExit, IInv, TypeOK
    <2>2. \A k \in Frames : pc'[k] = pc[k] \/ pc'[k] = "dead"
      BY <1>3 DEF ThreadExit, IInv, TypeOK
    <2>3. UNCHANGED <<otherThanLife, heap, tlsVars>>
      BY <1>3 DEF ThreadExit
    <2>4. WellFormed'
      BY <2>2, <2>3, SameCalls
    <2> QED BY <2>1, <2>4 DEF IInv
  <1>4. CASE Stop \/ StopWait \/ \E d \in Devices : StopCheck(d)
    <2>1. UNCHANGED <<otherThanLife, heap, tlsVars, pc, started, thread_count>>
      BY <1>4 DEF Stop, StopWait, StopCheck
    <2>2. /\ stop_pc' \in {"running", "checking", "pushing", "waiting", "stopped", "timeout", "leaked"}
          /\ stop_todo' \subseteq Devices
      BY <1>4 DEF Stop, StopWait, StopCheck, IInv, TypeOK
    <2>3. TypeOK'
      BY <2>1, <2>2 DEF IInv, TypeOK
    <2>4. WellFormed'
      BY <2>1, SameCalls
    <2> QED BY <2>3, <2>4 DEF IInv
  <1>5. ASSUME NEW d \in Devices, PushShutdownTask(d) PROVE IInv'
    <2>1. /\ heap' = [heap EXCEPT ![d] = heap[d] \cup {ShutdownTask}]
          /\ stop_todo' = stop_todo \ {d} /\ stop_pc' \in {"waiting", "pushing"}
          /\ UNCHANGED <<otherThanLife, tlsVars, pc, started, thread_count>>
      BY <1>5 DEF PushShutdownTask
    <2>2. \A q \in Queues : heap'[q] = heap[q] \/ heap'[q] = heap[q] \cup {ShutdownTask}
      BY <2>1 DEF IInv, TypeOK
    <2>3. heap' \in [Queues -> SUBSET (NodeTasks \cup {ShutdownTask})]
      BY <2>1, <2>2 DEF IInv, TypeOK
    <2>4. TypeOK'
      BY <2>1, <2>3 DEF IInv, TypeOK
    <2>5. FrameWellFormed(d)'
      BY <2>1 DEF IInv, WellFormed, FrameWellFormed
    <2>6. WellFormed'
      BY <2>1, <2>2, <2>5, OneFrameMoves
    <2> QED BY <2>4, <2>6 DEF IInv
  <1> QED BY <1>1, <1>2, <1>3, <1>4, <1>5 DEF StartStep, StopStep

(* Every step of the engine preserves the invariant. *)
LEMMA NextIInv == IInv /\ [Next]_vars => IInv'
  <1> SUFFICES ASSUME IInv, [Next]_vars PROVE IInv'
    OBVIOUS
  <1>1. CASE UNCHANGED vars
    BY <1>1 DEF vars, IInv, TypeOK, WellFormed, CallWellFormed, FrameWellFormed
  <1>2. ASSUME NEW f \in Frames, FrameStep(f) PROVE IInv'
    BY <1>2, QuietSteps, PopStep, BeginStep, CallFunctionStep, PropagateEdgeStep,
       CompletionSteps, ReenterStep, ReturnSteps
    DEF FrameStep, EvaluateStep, CompleteStep
  <1>3. ASSUME NEW g \in GraphTasks, CallStep(g) PROVE IInv'
    BY <1>3, QuietSteps, ReturnSteps, PoolSteps DEF CallStep
  <1> QED BY <1>1, <1>2, <1>3, BackwardStep, PoolSteps, LifeSteps DEF Next, Terminating

(* Type correctness: every thread, queue and graph task of the engine stays *)
(* in its domain, whatever the graph and the number of threads.             *)
THEOREM TypeCorrect == Spec => []TypeOK
  <1>1. IInv => TypeOK
    BY DEF IInv
  <1> QED BY <1>1, InitIInv, NextIInv, PTL DEF Spec

(* No frame of thread_main runs without a ready queue, evaluates a task     *)
(* without a function or a graph task that execute() has not set up, or     *)
(* walks past the edges of its node.                                        *)
THEOREM AlwaysWellFormed == Spec => []WellFormed
  <1>1. IInv => WellFormed
    BY DEF IInv
  <1> QED BY <1>1, InitIInv, NextIInv, PTL DEF Spec

-----------------------------------------------------------------------------
(* A step that leaves every future alone, and puts no frame where it could  *)
(* write one, keeps the owner of each future.                               *)
LEMMA OwnerKept ==
  ASSUME FutureHasOneWriter, UNCHANGED futureVars,
         \A k \in Frames : pc'[k] \in {"seterror", "post"} => pc'[k] = pc[k] /\ cur'[k] = cur[k]
  PROVE  FutureHasOneWriter'
  <1>1. \A k \in Frames : \A g \in GraphTasks : Owns(k, g)' => Owns(k, g)
    BY DEF Owns
  <1> QED BY <1>1 DEF FutureHasOneWriter

(* future_completed_.exchange gives the future to a frame only if no frame  *)
(* had it.                                                                  *)
LEMMA ClaimStep ==
  ASSUME IInv, FutureHasOneWriter, NEW f \in Frames, SetException(f) \/ MarkAsCompleted(f)
  PROVE  FutureHasOneWriter' /\ UNCHANGED future_result
  <1> DEFINE g == cur[f].gt
  <1>1. pc[f] \in {"exception", "mark"} /\ UNCHANGED <<future_result, cur>>
    BY DEF SetException, MarkAsCompleted
  <1>2. cur[f] # None /\ g \in GraphTasks
    BY <1>1, HeldTask DEF Evaluating, Completing
  <1>3. /\ future_completed' = [future_completed EXCEPT ![g] = TRUE]
        /\ \E x \in {"seterror", "post"}, y \in {"dec", "await"} :
              pc' = [pc EXCEPT ![f] = IF future_completed[g] THEN y ELSE x]
    BY DEF SetException, MarkAsCompleted, ClaimFuture
  <1>4. \A k \in Frames : k # f => pc'[k] = pc[k]
    BY <1>3 DEF IInv, TypeOK
  <1>5. future_completed[g] => pc'[f] \notin {"seterror", "post"}
    BY <1>3 DEF IInv, TypeOK
  <1>6. \A h \in GraphTasks : h # g => future_completed'[h] = future_completed[h]
    BY <1>3 DEF IInv, TypeOK
  <1>7. future_completed'[g]
    BY <1>2, <1>3 DEF IInv, TypeOK
  <1> HIDE DEF g
  <1>8. ASSUME NEW h \in GraphTasks, NEW k \in Frames, Owns(k, h)'
        PROVE  Owns(k, h) \/ (k = f /\ h = g /\ ~future_completed[g])
    BY <1>1, <1>4, <1>5, <1>8 DEF Owns, g
  <1>9. FutureHasOneWriter'
    BY <1>1, <1>2, <1>6, <1>7, <1>8 DEF FutureHasOneWriter
  <1> QED BY <1>1, <1>9

(* The owner of a future settles it and lets go of it. *)
LEMMA SettleStep ==
  ASSUME IInv, FutureHasOneWriter, NEW f \in Frames, SetError(f) \/ ExecPostProcessing(f)
  PROVE  /\ FutureHasOneWriter'
         /\ \A h \in GraphTasks : future_result[h] # "none" => future_result'[h] = future_result[h]
  <1> DEFINE g == cur[f].gt
  <1>1. pc[f] \in {"seterror", "post"} /\ UNCHANGED <<future_completed, cur>>
    BY DEF SetError, ExecPostProcessing, FinishFuture
  <1>2. cur[f] # None /\ g \in GraphTasks
    BY <1>1, HeldTask DEF Evaluating, Completing
  <1>3. /\ \E x : future_result' = [future_result EXCEPT ![g] = x]
        /\ \E y \in {"dec", "wake"} : pc' = [pc EXCEPT ![f] = y]
    BY DEF SetError, ExecPostProcessing, FinishFuture
  <1>4. \A k \in Frames : k # f => pc'[k] = pc[k]
    BY <1>3 DEF IInv, TypeOK
  <1>5. pc'[f] \notin {"seterror", "post"}
    BY <1>3 DEF IInv, TypeOK
  <1>6. \A h \in GraphTasks : h # g => future_result'[h] = future_result[h]
    BY <1>3 DEF IInv, TypeOK
  <1>7. Owns(f, g)
    BY <1>1, <1>2 DEF Owns
  <1> HIDE DEF g
  <1>8. ASSUME NEW h \in GraphTasks, NEW k \in Frames, Owns(k, h)'
        PROVE  Owns(k, h) /\ k # f
    BY <1>1, <1>4, <1>5, <1>8 DEF Owns
  <1>9. future_completed[g] /\ future_result[g] = "none"
    BY <1>2, <1>7 DEF FutureHasOneWriter
  <1>10. FutureHasOneWriter'
    BY <1>1, <1>2, <1>6, <1>7, <1>8, <1>9 DEF FutureHasOneWriter
  <1> QED BY <1>6, <1>9, <1>10

(* No other step touches a future. *)
LEMMA OtherFrameSteps ==
  ASSUME IInv, NEW f \in Frames,
         \/ Pop(f) \/ Begin(f) \/ ReturnToParent(f) \/ CallFunction(f) \/ Throw(f)
         \/ PropagateEdge(f) \/ SetHasError(f) \/ DecrementOutstanding(f) \/ CheckCompleted(f)
         \/ AwaitFuture(f) \/ RunFinalCallback(f) \/ NotifyOwner(f) \/ Reenter(f)
  PROVE  /\ UNCHANGED futureVars
         /\ \A k \in Frames : pc'[k] \in {"seterror", "post"} => pc'[k] = pc[k] /\ cur'[k] = cur[k]
  <1>1. CASE Pop(f)
    BY <1>1 DEF Pop, IInv, TypeOK
  <1>2. CASE Begin(f)
    BY <1>2 DEF Begin, IInv, TypeOK
  <1>3. CASE ReturnToParent(f)
    BY <1>3 DEF ReturnToParent, IInv, TypeOK
  <1>4. CASE CallFunction(f) \/ Throw(f) \/ SetHasError(f)
    BY <1>4 DEF CallFunction, Throw, SetHasError, IInv, TypeOK
  <1>5. CASE PropagateEdge(f)
    <2>1. /\ \E x \in {"throw", "dec", "edges"} : pc' = [pc EXCEPT ![f] = x]
          /\ UNCHANGED <<cur, futureVars>>
      BY <1>5 DEF PropagateEdge
    <2> QED BY <2>1 DEF IInv, TypeOK
  <1>6. CASE DecrementOutstanding(f) \/ CheckCompleted(f) \/ AwaitFuture(f)
    BY <1>6 DEF DecrementOutstanding, CheckCompleted, AwaitFuture, IInv, TypeOK
  <1>7. CASE RunFinalCallback(f)
    BY <1>7 DEF RunFinalCallback
  <1>8. CASE NotifyOwner(f)
    BY <1>8 DEF NotifyOwner, IInv, TypeOK
  <1>9. CASE Reenter(f)
    BY <1>9 DEF Reenter, Execute, FrameStart, IInv, TypeOK
  <1> QED BY <1>1, <1>2, <1>3, <1>4, <1>5, <1>6, <1>7, <1>8, <1>9

LEMMA OtherSteps ==
  ASSUME IInv,
         \/ \E c \in Callers, g \in GraphTasks : Backward(c, g) \/ ReturnToCaller(c, g)
         \/ \E g \in GraphTasks : LoopCondition(g) \/ AddThreadPoolTask(g)
         \/ \E p \in PoolThreads : PoolStep(p)
         \/ StartStep \/ StopStep \/ UNCHANGED vars
  PROVE  /\ UNCHANGED futureVars
         /\ \A k \in Frames : pc'[k] \in {"seterror", "post"} => pc'[k] = pc[k] /\ cur'[k] = cur[k]
  <1>1. ASSUME NEW c \in Callers, NEW g \in GraphTasks, Backward(c, g) \/ ReturnToCaller(c, g)
        PROVE  /\ UNCHANGED <<futureVars, cur>>
               /\ \E x \in {"handoff", "loop", "done"} : pc' = [pc EXCEPT ![g] = x]
    BY <1>1 DEF Backward, Execute, FrameStart, ReturnToCaller
  <1>2. ASSUME NEW g \in GraphTasks, LoopCondition(g) \/ AddThreadPoolTask(g)
        PROVE  /\ UNCHANGED <<futureVars, cur>>
               /\ \E x \in {"left", "pop", "pooled"} : pc' = [pc EXCEPT ![g] = x]
    BY <1>2 DEF LoopCondition, AddThreadPoolTask
  <1>3. ASSUME NEW p \in PoolThreads, PoolStep(p)
        PROVE  /\ UNCHANGED <<futureVars, cur>>
               /\ pc' = pc \/ \E g : \E x \in {"loop", "done"} : pc' = [pc EXCEPT ![g] = x]
    BY <1>3 DEF PoolStep, WorkerWait, WorkerTake, WorkerDone
  <1>4. CASE StartStep
    <2>1. UNCHANGED <<futureVars, cur>>
      BY <1>4 DEF StartStep, StartDeviceThreads, ThreadInit, DeviceThreadsStarted, ThreadExit
    <2>2. \A k \in Frames : pc'[k] = pc[k] \/ pc'[k] \in {"starting", "pop", "dead"}
      <3>1. CASE StartDeviceThreads
        BY <3>1 DEF StartDeviceThreads
      <3>2. CASE pc' = pc \/ \E d \in Devices, x \in {"pop", "dead"} : pc' = [pc EXCEPT ![d] = x]
        BY <3>2 DEF IInv, TypeOK
      <3> QED BY <1>4, <3>1, <3>2 DEF StartStep, DeviceThreadsStarted, ThreadInit, ThreadExit
    <2> QED BY <2>1, <2>2
  <1>5. CASE StopStep
    BY <1>5 DEF StopStep, Stop, StopCheck, StopWait, PushShutdownTask
  <1>6. CASE UNCHANGED vars
    BY <1>6 DEF vars
  <1>7. ASSUME NEW g, NEW x \in {"handoff", "loop", "done", "left", "pop", "pooled"},
               pc' = [pc EXCEPT ![g] = x], cur' = cur
        PROVE  \A k \in Frames : pc'[k] \in {"seterror", "post"} => pc'[k] = pc[k] /\ cur'[k] = cur[k]
    BY <1>7 DEF IInv, TypeOK
  <1> QED BY <1>1, <1>2, <1>3, <1>4, <1>5, <1>6, <1>7

LEMMA NextOneWriter ==
  ASSUME IInv, FutureHasOneWriter, [Next]_vars
  PROVE  /\ FutureHasOneWriter'
         /\ \A g \in GraphTasks : future_result[g] # "none" => future_result'[g] = future_result[g]
  <1>1. ASSUME NEW f \in Frames, FrameStep(f)
        PROVE  /\ FutureHasOneWriter'
               /\ \A g \in GraphTasks :
                     future_result[g] # "none" => future_result'[g] = future_result[g]
    <2>1. CASE SetException(f) \/ MarkAsCompleted(f)
      BY <2>1, ClaimStep
    <2>2. CASE SetError(f) \/ ExecPostProcessing(f)
      BY <2>2, SettleStep
    <2>3. CASE ~(SetException(f) \/ MarkAsCompleted(f) \/ SetError(f) \/ ExecPostProcessing(f))
      <3>1. /\ UNCHANGED futureVars
            /\ \A k \in Frames : pc'[k] \in {"seterror", "post"} => pc'[k] = pc[k] /\ cur'[k] = cur[k]
        BY <1>1, <2>3, OtherFrameSteps DEF FrameStep, EvaluateStep, CompleteStep
      <3> QED BY <3>1, OwnerKept
    <2> QED BY <2>1, <2>2, <2>3
  <1>2. CASE ~\E f \in Frames : FrameStep(f)
    <2>1. /\ UNCHANGED futureVars
          /\ \A k \in Frames : pc'[k] \in {"seterror", "post"} => pc'[k] = pc[k] /\ cur'[k] = cur[k]
      BY <1>2, OtherSteps DEF Next, CallStep, Terminating
    <2> QED BY <2>1, OwnerKept
  <1> QED BY <1>1, <1>2

LEMMA InitOneWriter == Init => FutureHasOneWriter
  BY DEF Init, FutureHasOneWriter, Owns

(* The future of a graph task has one writer: of all the threads that fail  *)
(* or finish a pass, in any interleaving, one is let through to settle the  *)
(* future, and only while it is unset.                                      *)
THEOREM OneWriter == Spec => []FutureHasOneWriter
  <1>1. IInv /\ FutureHasOneWriter /\ [Next]_vars => FutureHasOneWriter'
    BY NextOneWriter
  <1> QED BY <1>1, InitIInv, InitOneWriter, NextIInv, PTL DEF Spec

(* The result of a backward pass never changes once it is set: no late      *)
(* error replaces a value, no value an error.                               *)
THEOREM WrittenOnce == Spec => FutureWrittenOnce
  <1> DEFINE Kept == \A g \in GraphTasks :
                        future_result[g] # "none" => future_result'[g] = future_result[g]
  <1>1. IInv /\ FutureHasOneWriter /\ [Next]_vars => FutureHasOneWriter' /\ Kept
    BY NextOneWriter
  <1>2. IInv /\ FutureHasOneWriter /\ [Next]_vars => [Kept]_vars
    BY <1>1
  <1> HIDE DEF Kept
  <1>3. Spec => [][Kept]_vars
    BY <1>1, <1>2, InitIInv, InitOneWriter, NextIInv, PTL DEF Spec
  <1> QED BY <1>3 DEF FutureWrittenOnce, Kept
-----------------------------------------------------------------------------
(* The counts.  A count is right after a push only if the task was not      *)
(* queued before.  For a node this follows from its dependency count, which *)
(* is 1 before the push and 0 as long as the task is queued; for a dummy    *)
(* task, from the count itself, which was 0 when its sender passed          *)
(* GraphTask::completed().                                                  *)

(* Control points with a task that is counted, and those of a frame that    *)
(* found the count at 0                                                     *)
Busy == Evaluating \cup {"got", "dec"}
PastCheck == {"mark", "await", "post", "wake"}

(* No call is made before the device threads run, and a call that was not   *)
(* made has no tasks and no frame.                                          *)
Unstarted ==
    /\ started # "yes" => \A g \in GraphTasks : call[g] = "idle"
    /\ \A g \in GraphTasks : call[g] = "idle" => outstanding_tasks[g] = 0 /\ pc[g] = "idle"

OneQueue ==
    \A q1, q2 \in Queues : \A t \in heap[q1] \cap heap[q2] : t # ShutdownTask => q1 = q2

QueuedIsReady ==
    \A q \in Queues : \A g \in GraphTasks, n \in Nodes :
        NodeTask(g, n) \in heap[q] => dependencies[g][n] = 0

NoDummyYet ==
    \A f \in Frames : pc[f] \in PastCheck =>
        \A q \in Queues : DummyTask(cur[f].gt, f) \notin heap[q]

PooledOnce ==
    \A i, j \in 1..Len(graphtasks_queue) :
        /\ pc[graphtasks_queue[i]] = "pooled"
        /\ graphtasks_queue[i] = graphtasks_queue[j] => i = j

CountInv ==
    /\ Unstarted /\ OneQueue /\ QueuedIsReady /\ NoDummyYet /\ PooledOnce
    /\ OutstandingIsExact

-----------------------------------------------------------------------------
(* There are finitely many tasks and frames. *)
LEMMA TasksFinite == IsFiniteSet(NodeTasks) /\ IsFiniteSet(Frames)
  <1> DEFINE A == Nodes \cup {None}
             B == Frames \cup {None}
             P == (GraphTasks \X A) \X B
             F == [p \in P |-> [gt |-> p[1][1], fn |-> p[1][2], from |-> p[2]]]
  <1>1. IsFiniteSet(Frames)
    BY EngineAssumption, FS_Union
  <1>2. IsFiniteSet(A) /\ IsFiniteSet(B)
    BY <1>1, EngineAssumption, FS_AddElement
  <1>3. IsFiniteSet(GraphTasks \X A)
    BY <1>2, EngineAssumption, FS_Product
  <1>4. IsFiniteSet(P)
    BY <1>2, <1>3, FS_Product
  <1>5. F \in Surjection(P, NodeTasks)
    <2>1. \A p \in P : F[p] \in NodeTasks
      BY DEF NodeTasks
    <2>2. \A t \in NodeTasks : <<<<t.gt, t.fn>>, t.from>> \in P
      BY DEF NodeTasks
    <2>3. \A t \in NodeTasks : F[<<<<t.gt, t.fn>>, t.from>>] = t
      BY <2>2 DEF NodeTasks
    <2> QED BY <2>1, <2>2, <2>3 DEF Surjection
  <1>6. IsFiniteSet(NodeTasks)
    BY <1>4, <1>5, FS_Surjection
  <1> QED BY <1>1, <1>6

(* No edge arrives at the root: what is reachable is no newer than it.      *)
LEMMA RootHasNoInputs ==
  ASSUME NEW g \in GraphTasks
  PROVE  InEdgesOf[g][Root[g]] = {} /\ DepsOf[g][Root[g]] = 0
  <1> DEFINE r == Root[g]
             S == {n \in Nodes : TopologicalNr[n] <= TopologicalNr[r]}
  <1>1. r \in Nodes
    BY EngineAssumption
  <1>2. S \in SUBSET Nodes /\ r \in S
    BY <1>1, GraphAssumption
  <1>3. \A m \in S : Children(m) \subseteq S
    <2> SUFFICES ASSUME NEW m \in S, NEW i \in DOMAIN NextEdges[m], NextEdges[m][i] # None
                 PROVE  NextEdges[m][i] \in S
      BY DEF Children
    <2>1. NextEdges[m] \in Seq(Nodes \cup {None})
      BY GraphAssumption
    <2>2. NextEdges[m][i] \in Nodes
      BY <2>1
    <2>3. TopologicalNr[NextEdges[m][i]] < TopologicalNr[m]
      BY GraphAssumption
    <2>4. /\ TopologicalNr[NextEdges[m][i]] \in Nat /\ TopologicalNr[m] \in Nat
          /\ TopologicalNr[r] \in Nat
      BY <1>1, <2>2, GraphAssumption
    <2> QED BY <2>2, <2>3, <2>4
  <1>4. NodesInGraph(r, Outputs[g]) \subseteq S
    BY <1>2, <1>3 DEF NodesInGraph
  <1>5. \A e \in GraphEdges(r, Outputs[g]) : NextEdges[e[1]][e[2]] # r
    <2> SUFFICES ASSUME NEW e \in GraphEdges(r, Outputs[g]), NextEdges[e[1]][e[2]] = r
                 PROVE  FALSE
      OBVIOUS
    <2>1. e[1] \in S /\ e \in Edges
      BY <1>4 DEF GraphEdges
    <2>2. e[2] \in DOMAIN NextEdges[e[1]]
      BY <2>1 DEF Edges
    <2>3. TopologicalNr[r] < TopologicalNr[e[1]]
      BY <1>1, <2>1, <2>2, GraphAssumption
    <2>4. TopologicalNr[e[1]] \in Nat /\ TopologicalNr[r] \in Nat
      BY <1>1, <2>1, GraphAssumption
    <2> QED BY <2>1, <2>3, <2>4
  <1>6. {e \in GraphEdges(r, Outputs[g]) : NextEdges[e[1]][e[2]] = r} = {}
    BY <1>5
  <1>7. Cardinality({e \in GraphEdges(r, Outputs[g]) : NextEdges[e[1]][e[2]] = r}) = 0
    BY <1>6, FS_EmptySet
  <1> QED BY <1>1, <1>6, <1>7 DEF InEdgesOf, GraphOf, DepsOf, Dependencies

(* A shutdown task is none of the tasks of a graph task. *)
LEMMA ShutdownIsNoTask == ShutdownTask \notin NodeTasks
  BY EngineAssumption DEF ShutdownTask, NodeTasks

(* A graph task nobody refers to is never referred to again. *)
LEMMA AliveKept ==
  ASSUME NEW g \in GraphTasks,
         call'[g] \in {"inline", "handed"} => call[g] \in {"inline", "handed"},
         thread'[g] \in PoolThreads /\ pc'[g] # "done"
            => thread[g] \in PoolThreads /\ pc[g] # "done",
         \A k \in Frames : Holds(k, g)' => Holds(k, g) \/ Alive(g)
  PROVE  Alive(g)' => Alive(g)
  BY DEF Alive

(* Most steps neither queue nor finish a task. *)
PlainMoveOf(k) ==
    /\ cur'[k] = cur[k]
    /\ pc[k] \notin {"got", "idle", "done"}
    /\ pc'[k] # "got"
    /\ pc[k] \in Busy <=> pc'[k] \in Busy
    /\ pc'[k] \in PastCheck => pc[k] \in PastCheck

LEMMA PlainPoolSteps ==
  ASSUME IInv, CountInv, PooledOnce',
         UNCHANGED <<heap, outstanding_tasks, dependencies>>,
         \A g \in GraphTasks : thread'[g] = thread[g] \/ Alive(g),
         started' # "yes" => started # "yes",
         \A h \in GraphTasks : \/ call'[h] = call[h]
                               \/ call[h] # "idle" /\ call'[h] \in {"returned", "aborted"},
         \A k \in Frames : (pc'[k] = pc[k] /\ cur'[k] = cur[k]) \/ PlainMoveOf(k)
  PROVE  CountInv'
  <1>1. Unstarted'
    BY DEF CountInv, Unstarted, PlainMoveOf
  <1>2. OneQueue' /\ QueuedIsReady'
    BY DEF CountInv, OneQueue, QueuedIsReady
  <1>3. NoDummyYet'
    BY DEF CountInv, NoDummyYet, PlainMoveOf
  <1>4. OutstandingIsExact'
    <2> SUFFICES ASSUME NEW g \in GraphTasks, Alive(g)'
                 PROVE  outstanding_tasks'[g] = Cardinality(Queued(g)') + Cardinality(Uncounted(g)')
      BY DEF OutstandingIsExact
    <2>1. Alive(g)
      <3>1. \A k \in Frames : Holds(k, g)' => Holds(k, g)
        BY DEF Holds, PlainMoveOf
      <3>2. pc'[g] # "done" => pc[g] # "done"
        BY DEF PlainMoveOf
      <3> QED BY <3>1, <3>2, AliveKept
    <2>2. Queued(g)' = Queued(g)
      BY DEF Queued
    <2>3. Uncounted(g)' = Uncounted(g)
      BY DEF Uncounted, PlainMoveOf, Busy
    <2> QED BY <2>1, <2>2, <2>3 DEF CountInv, OutstandingIsExact
  <1> QED BY <1>1, <1>2, <1>3, <1>4 DEF CountInv

LEMMA PlainSteps ==
  ASSUME IInv, CountInv,
         UNCHANGED <<heap, outstanding_tasks, dependencies, thread, graphtasks_queue>>,
         started' # "yes" => started # "yes",
         \A h \in GraphTasks : \/ call'[h] = call[h]
                               \/ call[h] # "idle" /\ call'[h] \in {"returned", "aborted"},
         \A k \in Frames : \/ pc'[k] = pc[k] /\ cur'[k] = cur[k]
                           \/ PlainMoveOf(k) /\ pc[k] # "pooled"
  PROVE  CountInv'
  <1>1. graphtasks_queue \in Seq(GraphTasks)
    BY DEF IInv, TypeOK
  <1>2. \A i \in 1..Len(graphtasks_queue) : graphtasks_queue[i] \in Frames
    BY <1>1
  <1>3. PooledOnce'
    BY <1>2 DEF CountInv, PooledOnce
  <1> QED BY <1>3, PlainPoolSteps

(* The steps of a frame that are plain. *)
LEMMA PlainFrameSteps ==
  ASSUME IInv, CountInv, NEW f \in Frames,
         \/ (f \in GraphTasks /\ LoopCondition(f)) \/ Throw(f) \/ SetHasError(f)
         \/ SetException(f) \/ SetError(f) \/ MarkAsCompleted(f) \/ AwaitFuture(f)
         \/ CallFunction(f) \/ RunFinalCallback(f) \/ ExecPostProcessing(f)
  PROVE  CountInv'
  <1>1. /\ UNCHANGED <<heap, outstanding_tasks, dependencies, thread, graphtasks_queue, started,
                       call, cur>>
        /\ \/ pc' = pc
           \/ pc[f] = "loop" /\ \E x \in {"left", "pop"} : pc' = [pc EXCEPT ![f] = x]
           \/ /\ pc[f] \in {"run", "throw", "exception", "seterror"}
              /\ \E x \in {"throw", "exception", "seterror", "dec", "edges"} :
                    pc' = [pc EXCEPT ![f] = x]
           \/ /\ pc[f] \in {"mark", "await", "post"}
              /\ \E x \in {"post", "await", "wake"} : pc' = [pc EXCEPT ![f] = x]
    <2>1. CASE (f \in GraphTasks /\ LoopCondition(f)) \/ Throw(f) \/ SetHasError(f) \/ SetError(f)
      BY <2>1 DEF LoopCondition, Throw, SetHasError, SetError
    <2>2. CASE SetException(f) \/ MarkAsCompleted(f) \/ AwaitFuture(f)
      BY <2>2 DEF SetException, MarkAsCompleted, ClaimFuture, AwaitFuture
    <2>3. CASE CallFunction(f)
      BY <2>3 DEF CallFunction
    <2>4. CASE RunFinalCallback(f) \/ ExecPostProcessing(f)
      BY <2>4 DEF RunFinalCallback, ExecPostProcessing, FinishFuture
    <2> QED BY <2>1, <2>2, <2>3, <2>4
  <1>2. \A k \in Frames : (pc'[k] = pc[k] /\ cur'[k] = cur[k]) \/ (PlainMoveOf(k) /\ pc[k] # "pooled")
    <2> SUFFICES ASSUME NEW k \in Frames
                 PROVE  (pc'[k] = pc[k] /\ cur'[k] = cur[k]) \/ (PlainMoveOf(k) /\ pc[k] # "pooled")
      OBVIOUS
    <2>1. CASE k # f
      BY <1>1, <2>1 DEF IInv, TypeOK
    <2>2. CASE k = f
      BY <1>1, <2>2 DEF IInv, TypeOK, PlainMoveOf, Busy, PastCheck, Evaluating
    <2> QED BY <2>1, <2>2
  <1> QED BY <1>1, <1>2, PlainSteps

(* The return of a call, to the user or to the node that made it. *)
LEMMA CountReturnSteps ==
  ASSUME IInv, CountInv,
         \/ \E c \in Callers, g \in GraphTasks : ReturnToCaller(c, g)
         \/ \E f \in Frames : ReturnToParent(f)
  PROVE  CountInv'
  <1> USE DEF PlainMoveOf, Busy, PastCheck, Evaluating
  <1>1. ASSUME NEW c \in Callers, NEW g \in GraphTasks, ReturnToCaller(c, g) PROVE CountInv'
    <2>1. /\ UNCHANGED <<heap, outstanding_tasks, dependencies, thread, graphtasks_queue, started, cur>>
          /\ pc[g] = "left" /\ pc' = [pc EXCEPT ![g] = "done"]
          /\ call[g] = "inline" /\ call' = [call EXCEPT ![g] = "returned"]
      BY <1>1 DEF ReturnToCaller
    <2>2. \A h \in GraphTasks : \/ call'[h] = call[h]
                                \/ call[h] # "idle" /\ call'[h] \in {"returned", "aborted"}
      <3>1. call \in [GraphTasks -> {"idle", "inline", "handed", "returned", "aborted"}]
        BY DEF IInv, TypeOK
      <3> QED BY <2>1, <3>1
    <2>3. \A k \in Frames : (pc'[k] = pc[k] /\ cur'[k] = cur[k]) \/ (PlainMoveOf(k) /\ pc[k] # "pooled")
      BY <2>1 DEF IInv, TypeOK
    <2> QED BY <2>1, <2>2, <2>3, PlainSteps
  <1>2. ASSUME NEW f \in Frames, ReturnToParent(f) PROVE CountInv'
    <2> DEFINE h == Inner(f)
    <2>1. /\ UNCHANGED <<heap, outstanding_tasks, dependencies, thread, graphtasks_queue, started, cur>>
          /\ pc[f] = "reenter" /\ call[h] \in {"inline", "handed"}
          /\ \E x \in {"returned", "aborted"} : call' = [call EXCEPT ![h] = x]
          /\ \E x \in {"run", "throw"} :
                \/ pc' = [pc EXCEPT ![f] = x]
                \/ pc[h] = "left" /\ pc' = [pc EXCEPT ![f] = x, ![h] = "done"]
      BY <1>2 DEF ReturnToParent
    <2> HIDE DEF h
    <2>2. \A g \in GraphTasks : \/ call'[g] = call[g]
                                \/ call[g] # "idle" /\ call'[g] \in {"returned", "aborted"}
      <3>1. call \in [GraphTasks -> {"idle", "inline", "handed", "returned", "aborted"}]
        BY DEF IInv, TypeOK
      <3> QED BY <2>1, <3>1
    <2>3. \A k \in Frames : (pc'[k] = pc[k] /\ cur'[k] = cur[k]) \/ (PlainMoveOf(k) /\ pc[k] # "pooled")
      <3> SUFFICES ASSUME NEW k \in Frames
                   PROVE  (pc'[k] = pc[k] /\ cur'[k] = cur[k]) \/ (PlainMoveOf(k) /\ pc[k] # "pooled")
        OBVIOUS
      <3>1. CASE k = f
        BY <2>1, <3>1 DEF IInv, TypeOK
      <3>2. CASE k # f
        BY <2>1, <3>2 DEF IInv, TypeOK
      <3> QED BY <3>1, <3>2
    <2> QED BY <2>1, <2>2, <2>3, PlainSteps
  <1> QED BY <1>1, <1>2

(* Start and stop of the device threads. *)
LEMMA CountLifeSteps ==
  ASSUME IInv, CountInv, StartStep \/ StopStep
  PROVE  CountInv'
  <1> USE DEF PlainMoveOf, Busy, PastCheck, Evaluating
  <1>1. CASE StartDeviceThreads
    <2>1. /\ UNCHANGED <<heap, outstanding_tasks, dependencies, thread, graphtasks_queue, call, cur>>
          /\ started = "no" /\ started' = "starting"
          /\ pc' = [f \in Frames |-> IF f \in Devices THEN "starting" ELSE pc[f]]
      BY <1>1 DEF StartDeviceThreads
    <2>2. \A k \in Frames : cur[k] = None
      <3>1. \A g \in GraphTasks : call[g] = "idle"
        BY <2>1 DEF CountInv, Unstarted
      <3> QED BY <3>1 DEF IInv, TypeOK, NodeTasks, WellFormed, FrameWellFormed
    <2>3. \A g \in GraphTasks : pc'[g] = pc[g]
      BY <2>1, EngineAssumption
    <2>4. Unstarted'
      BY <2>1, <2>3 DEF CountInv, Unstarted
    <2>5. OneQueue' /\ QueuedIsReady'
      BY <2>1 DEF CountInv, OneQueue, QueuedIsReady
    <2>6. NoDummyYet'
      BY <2>1 DEF CountInv, NoDummyYet
    <2>7. PooledOnce'
      <3>1. graphtasks_queue \in Seq(GraphTasks)
        BY DEF IInv, TypeOK
      <3>2. \A i \in 1..Len(graphtasks_queue) : graphtasks_queue[i] \in GraphTasks
        BY <3>1
      <3> QED BY <2>1, <2>3, <3>2 DEF CountInv, PooledOnce
    <2>8. OutstandingIsExact'
      <3> SUFFICES ASSUME NEW g \in GraphTasks, Alive(g)'
                   PROVE  outstanding_tasks'[g] = Cardinality(Queued(g)') + Cardinality(Uncounted(g)')
        BY DEF OutstandingIsExact
      <3>1. Alive(g)
        BY <2>1, <2>2, <2>3 DEF Alive, Holds
      <3>2. Queued(g)' = Queued(g) /\ Uncounted(g)' = Uncounted(g)
        BY <2>1, <2>2 DEF Queued, Uncounted
      <3> QED BY <2>1, <3>1, <3>2 DEF CountInv, OutstandingIsExact
    <2> QED BY <2>4, <2>5, <2>6, <2>7, <2>8 DEF CountInv
  <1>2. CASE (\E d \in Devices : ThreadInit(d) \/ ThreadExit(d)) \/ DeviceThreadsStarted
    <2>1. /\ UNCHANGED <<heap, outstanding_tasks, dependencies, thread, graphtasks_queue, call, cur>>
          /\ started' # "yes" => started # "yes"
          /\ \/ pc' = pc
             \/ \E d \in Devices, x \in {"pop", "dead"} :
                   pc[d] \in {"starting", "exit"} /\ pc' = [pc EXCEPT ![d] = x]
      BY <1>2 DEF ThreadInit, ThreadExit, DeviceThreadsStarted
    <2>2. \A k \in Frames : (pc'[k] = pc[k] /\ cur'[k] = cur[k]) \/ (PlainMoveOf(k) /\ pc[k] # "pooled")
      BY <2>1 DEF IInv, TypeOK
    <2> QED BY <2>1, <2>2, PlainSteps
  <1>3. CASE Stop \/ StopWait \/ \E d \in Devices : StopCheck(d)
    <2>1. UNCHANGED <<heap, outstanding_tasks, dependencies, thread, graphtasks_queue, call, cur, pc, started>>
      BY <1>3 DEF Stop, StopWait, StopCheck
    <2> QED BY <2>1, PlainSteps
  <1>4. ASSUME NEW d \in Devices, PushShutdownTask(d) PROVE CountInv'
    <2>1. /\ UNCHANGED <<outstanding_tasks, dependencies, thread, graphtasks_queue, call, cur, pc, started>>
          /\ heap' = [heap EXCEPT ![d] = @ \cup {ShutdownTask}]
      BY <1>4 DEF PushShutdownTask
    <2>2. \A q \in Queues : \A t : t # ShutdownTask => (t \in heap'[q] <=> t \in heap[q])
      BY <2>1 DEF IInv, TypeOK
    <2>3. Unstarted' /\ PooledOnce'
      BY <2>1 DEF CountInv, Unstarted, PooledOnce
    <2>4. OneQueue'
      BY <2>2 DEF CountInv, OneQueue
    <2>5. \A g \in GraphTasks, n \in Nodes : \A f : NodeTask(g, n) # ShutdownTask /\ DummyTask(g, f) # ShutdownTask
      BY EngineAssumption DEF NodeTask, DummyTask, ShutdownTask
    <2>6. QueuedIsReady'
      BY <2>1, <2>2, <2>5 DEF CountInv, QueuedIsReady
    <2>7. NoDummyYet'
      <3> SUFFICES ASSUME NEW f \in Frames, pc[f] \in PastCheck, NEW q \in Queues
                   PROVE  DummyTask(cur[f].gt, f) \notin heap'[q]
        BY <2>1 DEF NoDummyYet
      <3>1. cur[f].gt \in GraphTasks
        BY HeldTask DEF Completing
      <3>2. DummyTask(cur[f].gt, f) # ShutdownTask
        BY <3>1, EngineAssumption DEF DummyTask, ShutdownTask
      <3> QED BY <2>2, <3>2 DEF CountInv, NoDummyYet
    <2>8. OutstandingIsExact'
      <3> SUFFICES ASSUME NEW g \in GraphTasks, Alive(g)'
                   PROVE  outstanding_tasks'[g] = Cardinality(Queued(g)') + Cardinality(Uncounted(g)')
        BY DEF OutstandingIsExact
      <3>1. Alive(g)
        BY <2>1 DEF Alive, Holds
      <3>2. Queued(g)' = Queued(g) /\ Uncounted(g)' = Uncounted(g)
        BY <2>1, <2>2, ShutdownIsNoTask DEF Queued, Uncounted
      <3> QED BY <2>1, <3>1, <3>2 DEF CountInv, OutstandingIsExact
    <2> QED BY <2>3, <2>4, <2>6, <2>7, <2>8 DEF CountInv
  <1> QED BY <1>1, <1>2, <1>3, <1>4 DEF StartStep, StopStep

-----------------------------------------------------------------------------
(* The number of tasks of a graph task is a number. *)
LEMMA CountType ==
  ASSUME NEW S \in SUBSET NodeTasks, NEW F \in SUBSET Frames
  PROVE  /\ IsFiniteSet(S) /\ Cardinality(S) \in Nat
         /\ IsFiniteSet(F) /\ Cardinality(F) \in Nat
  BY TasksFinite, FS_Subset, FS_CardinalityType

(* ReadyQueue::push of a task that is in no queue. *)
LEMMA PushCounts ==
  ASSUME TypeOK, OneQueue, NEW q \in Queues, NEW t \in NodeTasks, Push(q, t),
         \A r \in Queues : t \notin heap[r]
  PROVE  /\ outstanding_tasks'[t.gt] = outstanding_tasks[t.gt] + 1
         /\ Cardinality(Queued(t.gt)') = Cardinality(Queued(t.gt)) + 1
         /\ \A g \in GraphTasks : g # t.gt => /\ outstanding_tasks'[g] = outstanding_tasks[g]
                                             /\ Queued(g)' = Queued(g)
         /\ \A r \in Queues : \A u : u \in heap'[r] <=> u \in heap[r] \/ (u = t /\ r = q)
         /\ OneQueue'
  <1>1. t.gt \in GraphTasks
    BY DEF NodeTasks
  <1>2. \A r \in Queues : \A u : u \in heap'[r] <=> u \in heap[r] \/ (u = t /\ r = q)
    BY DEF TypeOK, Push
  <1>3. /\ outstanding_tasks'[t.gt] = outstanding_tasks[t.gt] + 1
        /\ \A g \in GraphTasks : g # t.gt => outstanding_tasks'[g] = outstanding_tasks[g]
    BY <1>1 DEF TypeOK, Push
  <1>4. \A g \in GraphTasks : g # t.gt => Queued(g)' = Queued(g)
    BY <1>2 DEF Queued
  <1>5. Queued(t.gt)' = Queued(t.gt) \cup {t} /\ t \notin Queued(t.gt)
    BY <1>2 DEF Queued
  <1>6. IsFiniteSet(Queued(t.gt))
    BY CountType DEF Queued
  <1>7. Cardinality(Queued(t.gt)') = Cardinality(Queued(t.gt)) + 1
    BY <1>5, <1>6, FS_AddElement
  <1>8. OneQueue'
    BY <1>2 DEF OneQueue
  <1> QED BY <1>2, <1>3, <1>4, <1>7, <1>8

(* A step of one running frame leaves the calls that were not made, and the *)
(* graph tasks in the pool's queue, alone, and revives no graph task.       *)
LEMMA OneFrame ==
  ASSUME IInv, CountInv, NEW f \in Frames, pc[f] \notin {"idle", "pooled", "done"},
         UNCHANGED <<thread, graphtasks_queue, started, call>>,
         \A k \in Frames : k # f => pc'[k] = pc[k] /\ cur'[k] = cur[k],
         \A g \in GraphTasks : call[g] = "idle" => outstanding_tasks'[g] = outstanding_tasks[g],
         \A g \in GraphTasks : Holds(f, g)' => Holds(f, g) \/ Alive(g)
  PROVE  /\ Unstarted' /\ PooledOnce'
         /\ \A g \in GraphTasks : Alive(g)' => Alive(g)
  <1>1. Unstarted'
    <2>1. \A h \in GraphTasks : pc[h] = "idle" => pc'[h] = "idle"
      OBVIOUS
    <2> QED BY <2>1 DEF CountInv, Unstarted
  <1>2. PooledOnce'
    <2>1. graphtasks_queue \in Seq(GraphTasks)
      BY DEF IInv, TypeOK
    <2>2. \A i \in 1..Len(graphtasks_queue) : graphtasks_queue[i] \in Frames
      BY <2>1
    <2> QED BY <2>2 DEF CountInv, PooledOnce
  <1>3. ASSUME NEW g \in GraphTasks PROVE Alive(g)' => Alive(g)
    <2>1. \A k \in Frames : Holds(k, g)' => Holds(k, g) \/ Alive(g)
      BY DEF Holds
    <2>2. pc'[g] # "done" => pc[g] # "done"
      OBVIOUS
    <2> QED BY <2>1, <2>2, AliveKept
  <1> QED BY <1>1, <1>2, <1>3

(* A frame that drops the task it has no longer works on. *)
LEMMA CheckCompletedCounts ==
  ASSUME IInv, CountInv, NEW f \in Frames, CheckCompleted(f)
  PROVE  CountInv'
  <1> DEFINE g == cur[f].gt
  <1>1. /\ UNCHANGED <<heap, outstanding_tasks, dependencies, thread, graphtasks_queue, started, call>>
        /\ pc[f] = "check"
        /\ \/ /\ outstanding_tasks[g] = 0 /\ pc' = [pc EXCEPT ![f] = "mark"] /\ cur' = cur
           \/ /\ pc' = [pc EXCEPT ![f] = LoopHead(f)]
              /\ cur' = [cur EXCEPT ![f] = None]
    BY DEF CheckCompleted, Completed
  <1>2. cur[f] # None /\ g \in GraphTasks
    BY <1>1, HeldTask DEF Completing
  <1>3. \A k \in Frames : k # f => pc'[k] = pc[k] /\ cur'[k] = cur[k]
    BY <1>1 DEF IInv, TypeOK
  <1>4. \/ outstanding_tasks[g] = 0 /\ pc'[f] = "mark" /\ cur'[f] = cur[f]
        \/ pc'[f] \in {"loop", "pop"} /\ cur'[f] = None
    BY <1>1 DEF IInv, TypeOK
  <1> HIDE DEF g
  <1>5. Unstarted' /\ PooledOnce' /\ \A h \in GraphTasks : Alive(h)' => Alive(h)
    <2>1. \A h \in GraphTasks : Holds(f, h)' => Holds(f, h)
      BY <1>1, <1>4 DEF Holds
    <2> QED BY <1>1, <1>3, <2>1, OneFrame
  <1>6. OneQueue' /\ QueuedIsReady'
    BY <1>1 DEF CountInv, OneQueue, QueuedIsReady
  <1>7. NoDummyYet'
    <2>1. ASSUME pc'[f] = "mark", cur'[f] = cur[f], outstanding_tasks[g] = 0, NEW q \in Queues
          PROVE  DummyTask(g, f) \notin heap[q]
      <3>1. Alive(g)
        BY <1>1, <1>2 DEF Alive, Holds, g
      <3>2. 0 = Cardinality(Queued(g)) + Cardinality(Uncounted(g))
        BY <1>2, <2>1, <3>1 DEF CountInv, OutstandingIsExact
      <3>3. IsFiniteSet(Queued(g)) /\ Cardinality(Queued(g)) \in Nat /\ Cardinality(Uncounted(g)) \in Nat
        BY CountType DEF Queued, Uncounted
      <3>4. Queued(g) = {}
        BY <3>2, <3>3, FS_EmptySet
      <3>5. DummyTask(g, f) \in NodeTasks /\ DummyTask(g, f).gt = g
        BY <1>2 DEF DummyTask, NodeTasks
      <3> QED BY <3>4, <3>5 DEF Queued
    <2>2. ASSUME NEW k \in Frames, pc'[k] \in PastCheck, NEW q \in Queues
          PROVE  DummyTask(cur'[k].gt, k) \notin heap[q]
      <3>1. CASE k = f
        BY <1>4, <2>1, <2>2, <3>1 DEF g, PastCheck
      <3>2. CASE k # f
        BY <1>3, <2>2, <3>2 DEF CountInv, NoDummyYet
      <3> QED BY <3>1, <3>2
    <2> QED BY <1>1, <2>2 DEF NoDummyYet
  <1>9. OutstandingIsExact'
    <2> SUFFICES ASSUME NEW h \in GraphTasks, Alive(h)'
                 PROVE  outstanding_tasks'[h] = Cardinality(Queued(h)') + Cardinality(Uncounted(h)')
      BY DEF OutstandingIsExact
    <2>1. Alive(h)
      BY <1>5
    <2>2. Queued(h)' = Queued(h)
      BY <1>1 DEF Queued
    <2>3. Uncounted(h)' = Uncounted(h)
      BY <1>1, <1>3, <1>4 DEF Uncounted, Evaluating
    <2> QED BY <1>1, <2>1, <2>2, <2>3 DEF CountInv, OutstandingIsExact
  <1> QED BY <1>5, <1>6, <1>7, <1>9 DEF CountInv

(* --outstanding_tasks_ at the end of a task. *)
LEMMA DecrementCounts ==
  ASSUME IInv, CountInv, NEW f \in Frames, DecrementOutstanding(f)
  PROVE  CountInv'
  <1> DEFINE g == cur[f].gt
  <1>1. /\ UNCHANGED <<heap, dependencies, thread, graphtasks_queue, started, call, cur>>
        /\ pc[f] = "dec" /\ pc' = [pc EXCEPT ![f] = "check"]
        /\ outstanding_tasks' = [outstanding_tasks EXCEPT ![g] = @ - 1]
    BY DEF DecrementOutstanding
  <1>2. cur[f] # None /\ g \in GraphTasks /\ call[g] # "idle"
    BY <1>1, HeldTask
  <1>3. /\ \A k \in Frames : k # f => pc'[k] = pc[k]
        /\ pc'[f] = "check"
    BY <1>1 DEF IInv, TypeOK
  <1>4. /\ outstanding_tasks[g] \in Int /\ outstanding_tasks'[g] = outstanding_tasks[g] - 1
        /\ \A h \in GraphTasks : h # g => outstanding_tasks'[h] = outstanding_tasks[h]
    BY <1>1, <1>2 DEF IInv, TypeOK
  <1> HIDE DEF g
  <1>5. Unstarted' /\ PooledOnce' /\ \A h \in GraphTasks : Alive(h)' => Alive(h)
    <2>1. \A h \in GraphTasks : Holds(f, h)' => Holds(f, h)
      BY <1>1, <1>3 DEF Holds
    <2> QED BY <1>1, <1>2, <1>3, <1>4, <2>1, OneFrame
  <1>6. OneQueue' /\ QueuedIsReady'
    BY <1>1 DEF CountInv, OneQueue, QueuedIsReady
  <1>7. NoDummyYet'
    BY <1>1, <1>3 DEF CountInv, NoDummyYet, PastCheck
  <1>9. OutstandingIsExact'
    <2> SUFFICES ASSUME NEW h \in GraphTasks, Alive(h)'
                 PROVE  outstanding_tasks'[h] = Cardinality(Queued(h)') + Cardinality(Uncounted(h)')
      BY DEF OutstandingIsExact
    <2>1. Alive(h)
      BY <1>5
    <2>2. Queued(h)' = Queued(h)
      BY <1>1 DEF Queued
    <2>3. outstanding_tasks[h] = Cardinality(Queued(h)) + Cardinality(Uncounted(h))
      BY <2>1 DEF CountInv, OutstandingIsExact
    <2>4. CASE h # g
      <3>1. Uncounted(h)' = Uncounted(h)
        BY <1>1, <1>3, <2>4 DEF Uncounted, g
      <3> QED BY <1>4, <2>2, <2>3, <2>4, <3>1
    <2>5. CASE h = g
      <3>1. Uncounted(h)' = Uncounted(h) \ {f} /\ f \in Uncounted(h)
        <4>1. f \in Uncounted(h)
          BY <1>1, <1>2, <2>5 DEF Uncounted, g
        <4>2. Uncounted(h)' = Uncounted(h) \ {f}
          BY <1>1, <1>3 DEF Uncounted, Evaluating
        <4> QED BY <4>1, <4>2
      <3>2. IsFiniteSet(Uncounted(h)) /\ Cardinality(Uncounted(h)) \in Nat /\ Cardinality(Queued(h)) \in Nat
        BY CountType DEF Uncounted, Queued
      <3>3. Cardinality(Uncounted(h)') = Cardinality(Uncounted(h)) - 1
        BY <3>1, <3>2, FS_RemoveElement
      <3> QED BY <1>4, <2>2, <2>3, <2>5, <3>2, <3>3
    <2> QED BY <2>4, <2>5
  <1> QED BY <1>5, <1>6, <1>7, <1>9 DEF CountInv

(* Tasks wait in the queue, or with one frame. *)
LEMMA PopCounts ==
  ASSUME IInv, CountInv, NEW f \in Frames, Pop(f)
  PROVE  CountInv'
  <1>1. pc[f] = "pop" /\ UNCHANGED <<outstanding_tasks, dependencies, thread, graphtasks_queue, started, call>>
    BY DEF Pop
  <1>2. PICK q \in Queues : q = local_ready_queue[thread[f]]
    BY <1>1, FrameFacts DEF Working
  <1>3. PICK t \in heap[q] :
            /\ heap' = [heap EXCEPT ![q] = @ \ {t}]
            /\ IF t = ShutdownTask
                 THEN /\ pc' = [pc EXCEPT ![f] = IF f \in Devices THEN "exit" ELSE "left"]
                      /\ cur' = cur
                 ELSE cur' = [cur EXCEPT ![f] = t] /\ pc' = [pc EXCEPT ![f] = "got"]
    BY <1>2 DEF Pop
  <1>4. t # ShutdownTask => t \in NodeTasks /\ t # None /\ t.gt \in GraphTasks
    BY NullAssumption DEF IInv, TypeOK, NodeTasks
  <1>5. /\ \A k \in Frames : k # f => pc'[k] = pc[k] /\ cur'[k] = cur[k]
        /\ IF t = ShutdownTask THEN pc'[f] \in {"exit", "left"} /\ cur'[f] = cur[f]
                               ELSE pc'[f] = "got" /\ cur'[f] = t
    BY <1>3 DEF IInv, TypeOK
  <1>6. \A r \in Queues : \A u : u \in heap'[r] <=> u \in heap[r] /\ ~(r = q /\ u = t)
    BY <1>3 DEF IInv, TypeOK
  <1>7. Unstarted' /\ PooledOnce' /\ \A h \in GraphTasks : Alive(h)' => Alive(h)
    <2>1. \A h \in GraphTasks : Holds(f, h)' => Holds(f, h)
      BY <1>1, <1>5 DEF Holds
    <2> QED BY <1>1, <1>5, <2>1, OneFrame
  <1>8. OneQueue' /\ QueuedIsReady'
    BY <1>1, <1>6 DEF CountInv, OneQueue, QueuedIsReady
  <1>9. NoDummyYet'
    BY <1>1, <1>5, <1>6 DEF CountInv, NoDummyYet, PastCheck
  <1>11. OutstandingIsExact'
    <2> SUFFICES ASSUME NEW h \in GraphTasks, Alive(h)'
                 PROVE  outstanding_tasks'[h] = Cardinality(Queued(h)') + Cardinality(Uncounted(h)')
      BY DEF OutstandingIsExact
    <2>1. Alive(h)
      BY <1>7
    <2>2. outstanding_tasks[h] = Cardinality(Queued(h)) + Cardinality(Uncounted(h))
      BY <2>1 DEF CountInv, OutstandingIsExact
    <2>3. CASE t = ShutdownTask \/ t.gt # h
      <3>1. Queued(h)' = Queued(h)
        BY <1>6, <2>3, ShutdownIsNoTask DEF Queued
      <3>2. Uncounted(h)' = Uncounted(h)
        BY <1>1, <1>5, <2>3 DEF Uncounted, Evaluating
      <3> QED BY <1>1, <2>2, <3>1, <3>2
    <2>4. CASE t # ShutdownTask /\ t.gt = h
      <3>1. Queued(h)' = Queued(h) \ {t}
        BY <1>3, <1>4, <1>6, <2>4 DEF Queued, CountInv, OneQueue
      <3>2. t \in Queued(h)
        BY <1>3, <1>4, <2>4 DEF Queued
      <3>3. Uncounted(h)' = Uncounted(h) \cup {f}
        BY <1>1, <1>4, <1>5, <2>4 DEF Uncounted
      <3>4. f \notin Uncounted(h)
        BY <1>1 DEF Uncounted, Evaluating
      <3>5. /\ IsFiniteSet(Queued(h)) /\ Cardinality(Queued(h)) \in Nat
            /\ IsFiniteSet(Uncounted(h)) /\ Cardinality(Uncounted(h)) \in Nat
        BY CountType DEF Queued, Uncounted
      <3>6. Cardinality(Queued(h)') = Cardinality(Queued(h)) - 1
        BY <3>1, <3>2, <3>5, FS_RemoveElement
      <3>7. Cardinality(Uncounted(h)') = Cardinality(Uncounted(h)) + 1
        BY <3>3, <3>4, <3>5, FS_AddElement
      <3> QED BY <1>1, <2>2, <3>5, <3>6, <3>7
    <2> QED BY <2>3, <2>4
  <1> QED BY <1>7, <1>8, <1>9, <1>11 DEF CountInv

(* A popped task is evaluated, or dropped with its expired graph task. *)
LEMMA BeginCounts ==
  ASSUME IInv, CountInv, NEW f \in Frames, Begin(f)
  PROVE  CountInv'
  <1>1. /\ pc[f] = "got"
        /\ UNCHANGED <<heap, outstanding_tasks, dependencies, thread, graphtasks_queue, started, call>>
    BY DEF Begin
  <1>2. PICK g \in GraphTasks : g = cur[f].gt /\ cur[f] # None
    BY <1>1, HeldTask
  <1>3. /\ \A k \in Frames : k # f => pc'[k] = pc[k] /\ cur'[k] = cur[k]
        /\ \/ ~Alive(g) /\ cur'[f] = None /\ pc'[f] \in {"loop", "pop"}
           \/ Alive(g) /\ cur'[f] = cur[f] /\ pc'[f] \in {"run", "dec"}
    BY <1>2 DEF Begin, IInv, TypeOK
  <1>4. Unstarted' /\ PooledOnce' /\ \A h \in GraphTasks : Alive(h)' => Alive(h)
    <2>1. \A h \in GraphTasks : Holds(f, h)' => Holds(f, h) \/ Alive(h)
      BY <1>2, <1>3 DEF Holds
    <2> QED BY <1>1, <1>3, <2>1, OneFrame
  <1>5. OneQueue' /\ QueuedIsReady'
    BY <1>1 DEF CountInv, OneQueue, QueuedIsReady
  <1>6. NoDummyYet'
    BY <1>1, <1>3 DEF CountInv, NoDummyYet, PastCheck
  <1>8. OutstandingIsExact'
    <2> SUFFICES ASSUME NEW h \in GraphTasks, Alive(h)'
                 PROVE  outstanding_tasks'[h] = Cardinality(Queued(h)') + Cardinality(Uncounted(h)')
      BY DEF OutstandingIsExact
    <2>1. Alive(h)
      BY <1>4
    <2>2. outstanding_tasks[h] = Cardinality(Queued(h)) + Cardinality(Uncounted(h))
      BY <2>1 DEF CountInv, OutstandingIsExact
    <2>3. Queued(h)' = Queued(h)
      BY <1>1 DEF Queued
    <2>4. Uncounted(h)' = Uncounted(h)
      BY <1>1, <1>2, <1>3, <2>1 DEF Uncounted, Evaluating
    <2> QED BY <1>1, <2>2, <2>3, <2>4
  <1> QED BY <1>4, <1>5, <1>6, <1>8 DEF CountInv

(* A step that queues one new task t of graph task g, whose frame f keeps   *)
(* its task or is done with one that is no longer counted.                  *)
LEMMA QueueingSteps ==
  ASSUME IInv, CountInv, NEW f \in Frames, NEW g \in GraphTasks, NEW t \in NodeTasks,
         NEW q \in Queues, t.gt = g, Push(q, t), call[g] # "idle",
         \A r \in Queues : t \notin heap[r],
         UNCHANGED <<thread, graphtasks_queue, started, call>>,
         \A k \in Frames : k # f => pc'[k] = pc[k] /\ cur'[k] = cur[k],
         pc[f] \in {"edges", "wake"},
         \/ cur'[f] = cur[f] /\ pc[f] = "edges" /\ pc'[f] \in {"edges", "dec"}
         \/ cur'[f] = None /\ pc[f] = "wake" /\ pc'[f] \in {"loop", "pop"},
         QueuedIsReady', NoDummyYet'
  PROVE  CountInv'
  <1>1. /\ outstanding_tasks'[g] = outstanding_tasks[g] + 1
        /\ Cardinality(Queued(g)') = Cardinality(Queued(g)) + 1
        /\ \A h \in GraphTasks : h # g => /\ outstanding_tasks'[h] = outstanding_tasks[h]
                                         /\ Queued(h)' = Queued(h)
        /\ OneQueue'
    BY PushCounts DEF IInv, CountInv
  <1>2. Unstarted' /\ PooledOnce' /\ \A h \in GraphTasks : Alive(h)' => Alive(h)
    <2>1. \A h \in GraphTasks : Holds(f, h)' => Holds(f, h)
      BY DEF Holds
    <2> QED BY <1>1, <2>1, OneFrame
  <1>4. OutstandingIsExact'
    <2> SUFFICES ASSUME NEW h \in GraphTasks, Alive(h)'
                 PROVE  outstanding_tasks'[h] = Cardinality(Queued(h)') + Cardinality(Uncounted(h)')
      BY DEF OutstandingIsExact
    <2>1. Alive(h)
      BY <1>2
    <2>2. outstanding_tasks[h] = Cardinality(Queued(h)) + Cardinality(Uncounted(h))
      BY <2>1 DEF CountInv, OutstandingIsExact
    <2>3. Uncounted(h)' = Uncounted(h)
      BY DEF Uncounted, Evaluating
    <2>4. Cardinality(Queued(h)) \in Nat /\ Cardinality(Uncounted(h)) \in Nat
      BY CountType DEF Queued, Uncounted
    <2> QED BY <1>1, <2>2, <2>3, <2>4
  <1> QED BY <1>1, <1>2, <1>4 DEF CountInv

(* The queues a task is sent to exist. *)
LEMMA QueueExists ==
  ASSUME IInv, NEW g \in GraphTasks, call[g] # "idle"
  PROVE  /\ \A n \in Nodes : ready_queue(cpu_ready_queue[g], NodeDevice[n]) \in Queues
         /\ ready_queue_by_index(cpu_ready_queue[g], owner[g]) \in Queues
  <1>1. cpu_ready_queue[g] \in Queues /\ owner[g] # NO_DEVICE
    BY DEF IInv, WellFormed, CallWellFormed
  <1>2. owner[g] \in Devices \cup {CPU}
    BY <1>1 DEF IInv, TypeOK
  <1> QED BY <1>1, <1>2, EngineAssumption DEF ready_queue, ready_queue_by_index

(* A node is queued when its last gradient arrives, and only then. *)
LEMMA PropagateCounts ==
  ASSUME IInv, CountInv, NEW f \in Frames, PropagateEdge(f)
  PROVE  CountInv'
  <1>1. pc[f] = "edges" /\ UNCHANGED <<thread, graphtasks_queue, started, call, cur>>
    BY DEF PropagateEdge
  <1>2. PICK g \in GraphTasks : g = cur[f].gt /\ cur[f] # None /\ call[g] # "idle"
    BY <1>1, HeldTask DEF Evaluating
  <1>3. PICK m \in Nodes, i \in 1..Len(NextEdges[cur[f].fn]) : m = cur[f].fn /\ i = edge[f]
    BY <1>1, FrameFacts DEF Working, Evaluating, IInv, WellFormed, FrameWellFormed
  <1>4. NextEdges[m] \in Seq(Nodes \cup {None})
    BY GraphAssumption
  <1>5. PICK n \in Nodes \cup {None} : n = NextEdges[m][i]
    BY <1>3, <1>4
  <1>6. \E x \in {"throw", "dec", "edges"} : pc' = [pc EXCEPT ![f] = x]
    BY DEF PropagateEdge
  <1>7. /\ \A k \in Frames : k # f => pc'[k] = pc[k]
        /\ pc'[f] \in {"throw", "dec", "edges"}
    BY <1>6 DEF IInv, TypeOK
  <1>8. CASE UNCHANGED <<heap, outstanding_tasks, dependencies>>
    <2>1. \A k \in Frames : (pc'[k] = pc[k] /\ cur'[k] = cur[k]) \/ (PlainMoveOf(k) /\ pc[k] # "pooled")
      BY <1>1, <1>7 DEF PlainMoveOf, Busy, PastCheck, Evaluating
    <2> QED BY <1>1, <1>8, <2>1, PlainSteps
  <1>9. CASE n # None /\ dependencies[g][n] # 0
    <2>1. PropagateTo(g, <<m, i>>, n) /\ pc'[f] \in {"dec", "edges"}
      <3>1. /\ PropagateTo(g, <<m, i>>, n)
            /\ \E x \in {"dec", "edges"} : pc' = [pc EXCEPT ![f] = x]
        BY <1>2, <1>3, <1>5, <1>9 DEF PropagateEdge
      <3> QED BY <3>1 DEF IInv, TypeOK
    <2>2. n \in Nodes
      BY <1>9
    <2>3. dependencies[g][n] \in Nat
      BY <2>2 DEF IInv, TypeOK
    <2>4. /\ dependencies'[g][n] = dependencies[g][n] - 1
          /\ \A h \in GraphTasks, k \in Nodes :
                ~(h = g /\ k = n) => dependencies'[h][k] = dependencies[h][k]
      <3>1. dependencies' = [dependencies EXCEPT ![g][n] = @ - 1]
        BY <2>1 DEF PropagateTo
      <3> QED BY <2>2, <3>1 DEF IInv, TypeOK
    <2>5. \A q \in Queues : NodeTask(g, n) \notin heap[q]
      BY <1>9, <2>2 DEF CountInv, QueuedIsReady
    <2>6. CASE UNCHANGED <<heap, outstanding_tasks>>
      <3>1. QueuedIsReady'
        BY <2>4, <2>5, <2>6 DEF CountInv, QueuedIsReady
      <3>2. NoDummyYet'
        BY <1>1, <1>7, <2>1, <2>6 DEF CountInv, NoDummyYet, PastCheck
      <3>3. Unstarted' /\ PooledOnce' /\ \A h \in GraphTasks : Alive(h)' => Alive(h)
        <4>1. \A h \in GraphTasks : Holds(f, h)' => Holds(f, h)
          BY <1>1, <1>7 DEF Holds
        <4> QED BY <1>1, <1>7, <2>6, <4>1, OneFrame
      <3>5. OneQueue'
        BY <2>6 DEF CountInv, OneQueue
      <3>6. OutstandingIsExact'
        <4> SUFFICES ASSUME NEW h \in GraphTasks, Alive(h)'
                     PROVE  outstanding_tasks'[h] = Cardinality(Queued(h)') + Cardinality(Uncounted(h)')
          BY DEF OutstandingIsExact
        <4>1. Alive(h)
          BY <3>3
        <4>2. Queued(h)' = Queued(h) /\ Uncounted(h)' = Uncounted(h)
          BY <1>1, <1>7, <2>6 DEF Queued, Uncounted, Evaluating
        <4> QED BY <2>6, <4>1, <4>2 DEF CountInv, OutstandingIsExact
      <3> QED BY <3>1, <3>2, <3>3, <3>5, <3>6 DEF CountInv
    <2>7. CASE ~UNCHANGED <<heap, outstanding_tasks>>
      <3>1. PICK q \in Queues : Push(q, NodeTask(g, n))
        BY <1>2, <2>1, <2>2, <2>7, QueueExists DEF PropagateTo
      <3>2. IsReady(g, n)
        BY <2>1, <2>7 DEF PropagateTo
      <3>3. NodeTask(g, n) \in NodeTasks /\ NodeTask(g, n).gt = g
        BY <2>2 DEF NodeTask, NodeTasks
      <3>4. \A r \in Queues : \A u : u \in heap'[r] <=> u \in heap[r] \/ (u = NodeTask(g, n) /\ r = q)
        BY <2>5, <3>1, <3>3, PushCounts DEF IInv, CountInv
      <3>5. QueuedIsReady'
        <4> SUFFICES ASSUME NEW r \in Queues, NEW h \in GraphTasks, NEW k \in Nodes,
                            NodeTask(h, k) \in heap'[r]
                     PROVE  dependencies'[h][k] = 0
          BY DEF QueuedIsReady
        <4>1. CASE h = g /\ k = n
          BY <2>3, <2>4, <3>2, <4>1 DEF IsReady
        <4>2. CASE ~(h = g /\ k = n)
          <5>1. NodeTask(h, k) # NodeTask(g, n)
            BY <4>2 DEF NodeTask
          <5>2. NodeTask(h, k) \in heap[r]
            BY <3>4, <5>1
          <5> QED BY <2>4, <4>2, <5>2 DEF CountInv, QueuedIsReady
        <4> QED BY <4>1, <4>2
      <3>6. NoDummyYet'
        <4>1. \A h, k : DummyTask(h, k) # NodeTask(g, n)
          BY <1>9 DEF DummyTask, NodeTask
        <4> QED BY <1>1, <1>7, <2>1, <3>4, <4>1 DEF CountInv, NoDummyYet, PastCheck
      <3> QED BY <1>1, <1>2, <1>7, <2>1, <2>5, <3>1, <3>3, <3>5, <3>6, QueueingSteps
    <2> QED BY <2>6, <2>7
  <1>10. CASE n = None \/ dependencies[g][n] = 0
    BY <1>2, <1>3, <1>5, <1>8, <1>10 DEF PropagateEdge
  <1> QED BY <1>9, <1>10

(* The dummy task for the owner. *)
LEMMA NotifyCounts ==
  ASSUME IInv, CountInv, NEW f \in Frames, NotifyOwner(f)
  PROVE  CountInv'
  <1>1. /\ pc[f] = "wake"
        /\ pc' = [pc EXCEPT ![f] = LoopHead(f)] /\ cur' = [cur EXCEPT ![f] = None]
        /\ UNCHANGED <<thread, graphtasks_queue, started, call, dependencies>>
    BY DEF NotifyOwner
  <1>2. PICK g \in GraphTasks : g = cur[f].gt /\ cur[f] # None /\ call[g] # "idle"
    BY <1>1, HeldTask DEF Completing
  <1>3. /\ \A k \in Frames : k # f => pc'[k] = pc[k] /\ cur'[k] = cur[k]
        /\ pc'[f] \in {"loop", "pop"} /\ cur'[f] = None
    BY <1>1 DEF IInv, TypeOK
  <1>d. DummyTask(g, f) \in NodeTasks /\ DummyTask(g, f).gt = g
    BY DEF DummyTask, NodeTasks
  <1>4. PICK t \in NodeTasks : t = DummyTask(g, f) /\ t.gt = g
    BY <1>d
  <1>5. \A r \in Queues : t \notin heap[r]
    BY <1>1, <1>2, <1>4 DEF CountInv, NoDummyYet, PastCheck
  <1>6. CASE UNCHANGED <<heap, outstanding_tasks>>
    <2>1. Unstarted' /\ PooledOnce' /\ \A h \in GraphTasks : Alive(h)' => Alive(h)
      <3>1. \A h \in GraphTasks : Holds(f, h)' => Holds(f, h)
        BY <1>1, <1>3 DEF Holds
      <3> QED BY <1>1, <1>3, <1>6, <3>1, OneFrame
    <2>2. OneQueue' /\ QueuedIsReady'
      BY <1>1, <1>6 DEF CountInv, OneQueue, QueuedIsReady
    <2>3. NoDummyYet'
      BY <1>1, <1>3, <1>6 DEF CountInv, NoDummyYet, PastCheck
    <2>5. OutstandingIsExact'
      <3> SUFFICES ASSUME NEW h \in GraphTasks, Alive(h)'
                   PROVE  outstanding_tasks'[h] = Cardinality(Queued(h)') + Cardinality(Uncounted(h)')
        BY DEF OutstandingIsExact
      <3>1. Alive(h)
        BY <2>1
      <3>2. Queued(h)' = Queued(h) /\ Uncounted(h)' = Uncounted(h)
        BY <1>1, <1>3, <1>6 DEF Queued, Uncounted, Evaluating
      <3> QED BY <1>6, <3>1, <3>2 DEF CountInv, OutstandingIsExact
    <2> QED BY <2>1, <2>2, <2>3, <2>5 DEF CountInv
  <1>7. CASE ~UNCHANGED <<heap, outstanding_tasks>>
    <2>1. PICK q \in Queues : Push(q, t)
      BY <1>2, <1>4, <1>7, QueueExists DEF NotifyOwner
    <2>2. \A r \in Queues : \A u : u \in heap'[r] <=> u \in heap[r] \/ (u = t /\ r = q)
      BY <1>5, <2>1, PushCounts DEF IInv, CountInv
    <2>3. QueuedIsReady'
      <3>1. \A h \in GraphTasks, n \in Nodes : NodeTask(h, n) # t
        BY <1>4, GraphAssumption DEF NodeTask, DummyTask
      <3> QED BY <1>1, <2>2, <3>1 DEF CountInv, QueuedIsReady
    <2>4. NoDummyYet'
      <3> SUFFICES ASSUME NEW k \in Frames, pc'[k] \in PastCheck, NEW r \in Queues
                   PROVE  DummyTask(cur'[k].gt, k) \notin heap'[r]
        BY DEF NoDummyYet
      <3>1. k # f /\ pc[k] \in PastCheck /\ cur'[k] = cur[k]
        BY <1>3 DEF PastCheck
      <3>2. DummyTask(cur[k].gt, k) # t
        BY <1>4, <3>1 DEF DummyTask
      <3> QED BY <2>2, <3>1, <3>2 DEF CountInv, NoDummyYet
    <2> QED BY <1>1, <1>2, <1>3, <1>4, <1>5, <2>1, <2>3, <2>4, QueueingSteps
  <1> QED BY <1>6, <1>7

(* Engine::execute queues the first task of a call. *)
LEMMA ExecuteCounts ==
  ASSUME IInv, CountInv, NEW t \in Threads, NEW g \in GraphTasks, Execute(t, g),
         local_ready_queue[t] \in Queues \/ t \in Callers,
         \A k \in Frames : k # g => pc'[k] = pc[k] \/ (pc[k] = "run" /\ pc'[k] = "reenter"),
         pc'[g] \in {"loop", "handoff"}
  PROVE  CountInv'
  <1> DEFINE q == IF local_ready_queue[t] = None THEN t ELSE local_ready_queue[t]
             u == NodeTask(g, Root[g])
             r == ready_queue(q, NodeDevice[Root[g]])
  <1>1. q \in Queues
    BY EngineAssumption DEF IInv, TypeOK
  <1>2. r \in Queues
    BY <1>1, EngineAssumption DEF ready_queue
  <1>3. u \in NodeTasks /\ u.gt = g
    BY EngineAssumption DEF NodeTask, NodeTasks
  <1>4. /\ call[g] = "idle" /\ started = "yes" /\ Push(r, u)
        /\ dependencies' = [dependencies EXCEPT ![g] = DepsOf[g]]
        /\ UNCHANGED <<cur, graphtasks_queue, started>>
        /\ \E x \in {"handed", "inline"} : call' = [call EXCEPT ![g] = x]
        /\ thread' = thread \/ thread' = [thread EXCEPT ![g] = t]
    BY DEF Execute
  <1> HIDE DEF q, r
  <1>6. \A s \in Queues : u \notin heap[s]
    <2>1. u # ShutdownTask
      BY <1>3, ShutdownIsNoTask
    <2> QED BY <1>3, <1>4, <2>1 DEF IInv, WellFormed
  <1>7. /\ outstanding_tasks'[g] = outstanding_tasks[g] + 1
        /\ Cardinality(Queued(g)') = Cardinality(Queued(g)) + 1
        /\ \A h \in GraphTasks : h # g => /\ outstanding_tasks'[h] = outstanding_tasks[h]
                                         /\ Queued(h)' = Queued(h)
        /\ \A s \in Queues : \A v : v \in heap'[s] <=> v \in heap[s] \/ (v = u /\ s = r)
        /\ OneQueue'
    BY <1>2, <1>3, <1>4, <1>6, PushCounts DEF IInv, CountInv
  <1>8. \A h \in GraphTasks : h # g => call'[h] = call[h] /\ thread'[h] = thread[h]
    BY <1>4 DEF IInv, TypeOK
  <1>9. call'[g] # "idle"
    BY <1>4 DEF IInv, TypeOK
  <1>10. Unstarted'
    <2>1. \A h \in GraphTasks : h # g /\ pc[h] = "idle" => pc'[h] = "idle"
      OBVIOUS
    <2> QED BY <1>4, <1>7, <1>8, <1>9, <2>1 DEF CountInv, Unstarted
  <1>11. QueuedIsReady'
    <2> SUFFICES ASSUME NEW s \in Queues, NEW h \in GraphTasks, NEW n \in Nodes,
                        NodeTask(h, n) \in heap'[s]
                 PROVE  dependencies'[h][n] = 0
      BY DEF QueuedIsReady
    <2>1. CASE NodeTask(h, n) = u
      <3>1. h = g /\ n = Root[g]
        BY <2>1 DEF NodeTask
      <3>2. dependencies'[g] = DepsOf[g]
        BY <1>4 DEF IInv, TypeOK
      <3> QED BY <3>1, <3>2, RootHasNoInputs
    <2>2. CASE NodeTask(h, n) # u
      <3>1. NodeTask(h, n) \in heap[s]
        BY <1>7, <2>2
      <3>2. NodeTask(h, n).gt = h /\ NodeTask(h, n) \in NodeTasks
        BY DEF NodeTask, NodeTasks
      <3>3. call[h] # "idle"
        BY <3>1, <3>2, ShutdownIsNoTask DEF IInv, WellFormed
      <3>4. dependencies'[h] = dependencies[h]
        BY <1>4, <3>3 DEF IInv, TypeOK
      <3> QED BY <3>1, <3>4 DEF CountInv, QueuedIsReady
    <2> QED BY <2>1, <2>2
  <1>12. NoDummyYet'
    <2>1. \A h, k : DummyTask(h, k) # u
      BY EngineAssumption, GraphAssumption DEF DummyTask, NodeTask
    <2>2. \A k \in Frames : pc'[k] \in PastCheck => pc[k] \in PastCheck
      BY DEF PastCheck
    <2> QED BY <1>4, <1>7, <2>1, <2>2 DEF CountInv, NoDummyYet
  <1>13. PooledOnce'
    <2>1. graphtasks_queue \in Seq(GraphTasks)
      BY DEF IInv, TypeOK
    <2>2. \A i \in 1..Len(graphtasks_queue) : graphtasks_queue[i] \in GraphTasks
      BY <2>1
    <2>3. \A i \in 1..Len(graphtasks_queue) : graphtasks_queue[i] # g
      BY <1>4, <2>2 DEF IInv, WellFormed
    <2> QED BY <1>4, <2>2, <2>3 DEF CountInv, PooledOnce
  <1>14. OutstandingIsExact'
    <2> SUFFICES ASSUME NEW h \in GraphTasks, Alive(h)'
                 PROVE  outstanding_tasks'[h] = Cardinality(Queued(h)') + Cardinality(Uncounted(h)')
      BY DEF OutstandingIsExact
    <2>1. CASE h = g
      <3>1. Queued(g) = {}
        BY <1>4, ShutdownIsNoTask DEF IInv, WellFormed, Queued
      <3>2. Uncounted(g)' = {}
        BY <1>4 DEF IInv, WellFormed, FrameWellFormed, Uncounted
      <3>3. outstanding_tasks[g] = 0
        BY <1>4 DEF CountInv, Unstarted
      <3> QED BY <1>7, <2>1, <3>1, <3>2, <3>3, FS_EmptySet
    <2>2. CASE h # g
      <3>2. \A k \in Frames : k = g => pc[k] = "idle"
        BY <1>4 DEF CountInv, Unstarted
      <3>3. Alive(h)
        <4>1. \A k \in Frames : Holds(k, h)' => Holds(k, h)
          BY <1>4, <3>2 DEF Holds
        <4>2. pc'[h] # "done" => pc[h] # "done"
          BY <2>2
        <4> QED BY <1>8, <2>2, <4>1, <4>2, AliveKept
      <3>4. Uncounted(h)' = Uncounted(h)
        BY <1>4, <3>2 DEF Uncounted, Evaluating
      <3> QED BY <1>7, <2>2, <3>3, <3>4 DEF CountInv, OutstandingIsExact
    <2> QED BY <2>1, <2>2
  <1> QED BY <1>7, <1>10, <1>11, <1>12, <1>13, <1>14 DEF CountInv

LEMMA CallCounts ==
  ASSUME IInv, CountInv,
         \/ \E c \in Callers, g \in GraphTasks : Backward(c, g)
         \/ \E f \in Frames : Reenter(f)
  PROVE  CountInv'
  <1>1. ASSUME NEW c \in Callers, NEW g \in GraphTasks, Backward(c, g) PROVE CountInv'
    <2>1. Execute(c, g) /\ pc' = [pc EXCEPT ![g] = FrameStart(c)]
      BY <1>1 DEF Backward
    <2>2. /\ \A k \in Frames : k # g => pc'[k] = pc[k]
          /\ pc'[g] \in {"loop", "handoff"}
      BY <2>1 DEF IInv, TypeOK, FrameStart
    <2> QED BY <2>1, <2>2, ExecuteCounts
  <1>2. ASSUME NEW f \in Frames, Reenter(f) PROVE CountInv'
    <2>1. pc[f] = "run" /\ Inner(f) # None
      BY <1>2 DEF Reenter
    <2>2. thread[f] \in Threads /\ local_ready_queue[thread[f]] \in Queues /\ cur[f].fn \in Nodes
      BY <2>1, FrameFacts DEF Working, Evaluating
    <2>3. PICK g \in GraphTasks, t \in Threads : g = Inner(f) /\ t = thread[f]
      BY <2>1, <2>2, HeldTask, EngineAssumption DEF Inner, Evaluating
    <2>4. Execute(t, g) /\ pc' = [pc EXCEPT ![f] = "reenter", ![g] = FrameStart(t)]
      BY <1>2, <2>3 DEF Reenter
    <2>5. /\ \A k \in Frames : k # g => pc'[k] = pc[k] \/ (pc[k] = "run" /\ pc'[k] = "reenter")
          /\ pc'[g] \in {"loop", "handoff"}
      BY <2>1, <2>4 DEF IInv, TypeOK, FrameStart
    <2> QED BY <2>2, <2>3, <2>4, <2>5, ExecuteCounts
  <1> QED BY <1>1, <1>2

(* The reentrant pool's queue of graph tasks. *)
LEMMA PoolCounts ==
  ASSUME IInv, CountInv,
         \/ \E g \in GraphTasks : AddThreadPoolTask(g)
         \/ \E p \in PoolThreads : PoolStep(p)
  PROVE  CountInv'
  <1> USE DEF PlainMoveOf, Busy, PastCheck, Evaluating
  <1>0. graphtasks_queue \in Seq(GraphTasks)
    BY DEF IInv, TypeOK
  <1>1. ASSUME NEW g \in GraphTasks, AddThreadPoolTask(g) PROVE CountInv'
    <2>1. /\ UNCHANGED <<heap, outstanding_tasks, dependencies, thread, started, call, cur>>
          /\ pc[g] = "handoff" /\ pc' = [pc EXCEPT ![g] = "pooled"]
          /\ graphtasks_queue' = Append(graphtasks_queue, g)
      BY <1>1 DEF AddThreadPoolTask
    <2>2. /\ \A k \in Frames : k # g => pc'[k] = pc[k]
          /\ pc'[g] = "pooled"
      BY <2>1 DEF IInv, TypeOK
    <2>3. /\ Len(graphtasks_queue') = Len(graphtasks_queue) + 1
          /\ graphtasks_queue'[Len(graphtasks_queue) + 1] = g
          /\ \A i \in 1..Len(graphtasks_queue) : /\ graphtasks_queue'[i] = graphtasks_queue[i]
                                                 /\ graphtasks_queue[i] \in GraphTasks
          /\ Len(graphtasks_queue) \in Nat
      BY <1>0, <2>1
    <2>4. \A i \in 1..Len(graphtasks_queue) : graphtasks_queue[i] # g
      BY <2>1 DEF CountInv, PooledOnce
    <2>5. PooledOnce'
      <3> SUFFICES ASSUME NEW i \in 1..Len(graphtasks_queue'), NEW j \in 1..Len(graphtasks_queue')
                   PROVE  /\ pc'[graphtasks_queue'[i]] = "pooled"
                          /\ graphtasks_queue'[i] = graphtasks_queue'[j] => i = j
        BY DEF PooledOnce
      <3>1. /\ i \in 1..Len(graphtasks_queue) \/ i = Len(graphtasks_queue) + 1
            /\ j \in 1..Len(graphtasks_queue) \/ j = Len(graphtasks_queue) + 1
        BY <2>3
      <3>2. pc'[graphtasks_queue'[i]] = "pooled"
        BY <2>2, <2>3, <3>1 DEF CountInv, PooledOnce
      <3>3. graphtasks_queue'[i] = graphtasks_queue'[j] => i = j
        BY <2>3, <2>4, <3>1 DEF CountInv, PooledOnce
      <3> QED BY <3>2, <3>3
    <2>6. \A k \in Frames : (pc'[k] = pc[k] /\ cur'[k] = cur[k]) \/ PlainMoveOf(k)
      BY <2>1, <2>2
    <2> QED BY <2>1, <2>5, <2>6, PlainPoolSteps
  <1>2. ASSUME NEW p \in PoolThreads, WorkerWait(p) PROVE CountInv'
    <2>1. UNCHANGED <<heap, outstanding_tasks, dependencies, thread, graphtasks_queue, started,
                      call, pc, cur>>
      BY <1>2 DEF WorkerWait
    <2> QED BY <2>1, PlainSteps
  <1>3. ASSUME NEW p \in PoolThreads, WorkerTake(p) PROVE CountInv'
    <2>1. /\ UNCHANGED <<heap, outstanding_tasks, dependencies, started, call, cur>>
          /\ graphtasks_queue # <<>> /\ graphtasks_queue' = Tail(graphtasks_queue)
      BY <1>3 DEF WorkerTake
    <2>2. PICK g \in GraphTasks : g = Head(graphtasks_queue) /\ g = graphtasks_queue[1]
      BY <1>0, <2>1
    <2>3. /\ \E x \in {"loop", "done"} : pc' = [pc EXCEPT ![g] = x]
          /\ thread' = thread \/ (Alive(g) /\ thread' = [thread EXCEPT ![g] = p])
      BY <1>3, <2>2 DEF WorkerTake
    <2>4. pc[g] = "pooled"
      <3>1. 1 \in 1..Len(graphtasks_queue)
        BY <1>0, <2>1
      <3> QED BY <2>2, <3>1 DEF CountInv, PooledOnce
    <2>5. \A k \in Frames : (pc'[k] = pc[k] /\ cur'[k] = cur[k]) \/ (k = g /\ PlainMoveOf(k))
      BY <2>1, <2>3, <2>4 DEF IInv, TypeOK
    <2>6. \A h \in GraphTasks : thread'[h] = thread[h] \/ Alive(h)
      BY <2>3 DEF IInv, TypeOK
    <2>7. PooledOnce'
      <3>1. /\ Len(graphtasks_queue') = Len(graphtasks_queue) - 1 /\ Len(graphtasks_queue) \in Nat
            /\ \A i \in 1..Len(graphtasks_queue') : /\ graphtasks_queue'[i] = graphtasks_queue[i + 1]
                                                    /\ graphtasks_queue[i + 1] \in GraphTasks
        BY <1>0, <2>1
      <3>2. \A i \in 1..Len(graphtasks_queue') :
               i + 1 \in 1..Len(graphtasks_queue) /\ graphtasks_queue[i + 1] # g
        <4>1. \A i \in 1..Len(graphtasks_queue') :
                 i + 1 \in 1..Len(graphtasks_queue) /\ 1 \in 1..Len(graphtasks_queue) /\ i + 1 # 1
          BY <3>1
        <4> QED BY <2>2, <4>1 DEF CountInv, PooledOnce
      <3> SUFFICES ASSUME NEW i \in 1..Len(graphtasks_queue'), NEW j \in 1..Len(graphtasks_queue')
                   PROVE  /\ pc'[graphtasks_queue'[i]] = "pooled"
                          /\ graphtasks_queue'[i] = graphtasks_queue'[j] => i = j
        BY DEF PooledOnce
      <3>3. pc'[graphtasks_queue[i + 1]] = pc[graphtasks_queue[i + 1]]
        BY <2>5, <3>1, <3>2
      <3>4. pc'[graphtasks_queue'[i]] = "pooled"
        BY <3>1, <3>2, <3>3 DEF CountInv, PooledOnce
      <3>5. graphtasks_queue[i + 1] = graphtasks_queue[j + 1] => i + 1 = j + 1
        BY <3>2 DEF CountInv, PooledOnce
      <3> QED BY <3>1, <3>4, <3>5
    <2> QED BY <2>1, <2>5, <2>6, <2>7, PlainPoolSteps
  <1>4. ASSUME NEW p \in PoolThreads, NEW g \in GraphTasks, WorkerDone(p, g) PROVE CountInv'
    <2>1. /\ UNCHANGED <<heap, outstanding_tasks, dependencies, thread, graphtasks_queue, started, call, cur>>
          /\ pc[g] = "left" /\ pc' = [pc EXCEPT ![g] = "done"]
      BY <1>4 DEF WorkerDone
    <2>2. \A k \in Frames : (pc'[k] = pc[k] /\ cur'[k] = cur[k]) \/ (PlainMoveOf(k) /\ pc[k] # "pooled")
      BY <2>1 DEF IInv, TypeOK
    <2> QED BY <2>1, <2>2, PlainSteps
  <1> QED BY <1>1, <1>2, <1>3, <1>4 DEF PoolStep

-----------------------------------------------------------------------------
LEMMA InitCounts == Init => CountInv
  <1> SUFFICES ASSUME Init PROVE CountInv
    OBVIOUS
  <1>1. Unstarted
    BY EngineAssumption DEF Init, Unstarted
  <1>2. OneQueue /\ QueuedIsReady /\ PooledOnce
    BY DEF Init, OneQueue, QueuedIsReady, PooledOnce
  <1>3. NoDummyYet
    BY DEF Init, NoDummyYet, PastCheck
  <1>4. OutstandingIsExact
    <2> SUFFICES ASSUME NEW g \in GraphTasks
                 PROVE  outstanding_tasks[g] = Cardinality(Queued(g)) + Cardinality(Uncounted(g))
      BY DEF OutstandingIsExact
    <2>1. Queued(g) = {} /\ Uncounted(g) = {} /\ outstanding_tasks[g] = 0
      BY DEF Init, Queued, Uncounted
    <2> QED BY <2>1, FS_EmptySet
  <1> QED BY <1>1, <1>2, <1>3, <1>4 DEF CountInv

LEMMA NextCounts == IInv /\ CountInv /\ [Next]_vars => CountInv'
  <1> SUFFICES ASSUME IInv, CountInv, [Next]_vars PROVE CountInv'
    OBVIOUS
  <1>1. CASE UNCHANGED vars
    BY <1>1, PlainSteps DEF vars
  <1>2. ASSUME NEW f \in Frames, FrameStep(f) PROVE CountInv'
    BY <1>2, PlainFrameSteps, PopCounts, BeginCounts, CallCounts, CountReturnSteps,
       PropagateCounts, DecrementCounts, CheckCompletedCounts, NotifyCounts
    DEF FrameStep, EvaluateStep, CompleteStep
  <1>3. ASSUME NEW g \in GraphTasks, CallStep(g) PROVE CountInv'
    BY <1>3, PlainFrameSteps, CountReturnSteps, PoolCounts DEF CallStep
  <1> QED BY <1>1, <1>2, <1>3, CallCounts, PoolCounts, CountLifeSteps DEF Next, Terminating

(* GraphTask::completed() is right, whatever the graph and the threads:     *)
(* outstanding_tasks_ is the number of tasks that are queued or evaluated,  *)
(* as long as anyone refers to the graph task.                              *)
THEOREM CountsTasks == Spec => []OutstandingIsExact
  <1>1. CountInv => OutstandingIsExact
    BY DEF CountInv
  <1> QED BY <1>1, InitIInv, NextIInv, InitCounts, NextCounts, PTL DEF Spec

-----------------------------------------------------------------------------
(* num_workers_ counts the workers that wait; the ones about to wait make   *)
(* up for the graph tasks it does not cover.                                *)
Idle == {p \in PoolThreads : worker[p] = "wait"}
Free == {p \in PoolThreads : worker[p] \in {"start", "wait"}}

WorkersInv ==
    /\ num_workers = Cardinality(Idle)
    /\ Len(graphtasks_queue) <= Cardinality(Free)

LEMMA WorkersType ==
  ASSUME NEW S \in SUBSET PoolThreads
  PROVE  IsFiniteSet(S) /\ Cardinality(S) \in Nat
  BY EngineAssumption, FS_Subset, FS_CardinalityType

(* A thread is created unless a waiting worker is left for the graph task. *)
LEMMA AddTaskWorkers ==
  ASSUME IInv, WorkersInv, NEW g \in GraphTasks, AddThreadPoolTask(g)
  PROVE  WorkersInv'
  <1>1. /\ graphtasks_queue' = Append(graphtasks_queue, g) /\ num_workers' = num_workers
        /\ graphtasks_queue \in Seq(GraphTasks)
        /\ worker \in [PoolThreads -> {"unborn", "start", "wait", "drive"}]
    BY DEF AddThreadPoolTask, IInv, TypeOK
  <1>2. Len(graphtasks_queue') = Len(graphtasks_queue) + 1 /\ Len(graphtasks_queue) \in Nat
    BY <1>1
  <1>3. /\ IsFiniteSet(Idle) /\ Cardinality(Idle) \in Nat
        /\ IsFiniteSet(Free) /\ Cardinality(Free) \in Nat
    BY WorkersType DEF Idle, Free
  <1>4. CASE CreatesThread
    <2>1. PICK p \in PoolThreads : worker[p] = "unborn" /\ worker' = [worker EXCEPT ![p] = "start"]
      BY <1>4 DEF AddThreadPoolTask
    <2>2. Idle' = Idle /\ Free' = Free \cup {p} /\ p \notin Free
      BY <1>1, <2>1 DEF Idle, Free
    <2>3. Cardinality(Free') = Cardinality(Free) + 1
      BY <1>3, <2>2, FS_AddElement
    <2> QED BY <1>1, <1>2, <1>3, <2>2, <2>3 DEF WorkersInv
  <1>5. CASE ~CreatesThread
    <2>1. worker' = worker
      BY <1>5 DEF AddThreadPoolTask
    <2>2. Idle' = Idle /\ Free' = Free
      BY <2>1 DEF Idle, Free
    <2>3. Cardinality(Idle) <= Cardinality(Free)
      <3>1. Idle \in SUBSET Free
        BY DEF Idle, Free
      <3> QED BY <1>3, <3>1, FS_Subset
    <2>4. Len(graphtasks_queue) < Cardinality(Idle)
      BY <1>2, <1>3, <1>5 DEF CreatesThread, WorkersInv
    <2> QED BY <1>1, <1>2, <1>3, <2>2, <2>3, <2>4 DEF WorkersInv
  <1> QED BY <1>4, <1>5

LEMMA PoolWorkers ==
  ASSUME IInv, WorkersInv, NEW p \in PoolThreads, PoolStep(p)
  PROVE  WorkersInv'
  <1>1. /\ graphtasks_queue \in Seq(GraphTasks)
        /\ worker \in [PoolThreads -> {"unborn", "start", "wait", "drive"}]
    BY DEF IInv, TypeOK
  <1>2. /\ IsFiniteSet(Idle) /\ Cardinality(Idle) \in Nat
        /\ IsFiniteSet(Free) /\ Cardinality(Free) \in Nat /\ Len(graphtasks_queue) \in Nat
    BY <1>1, WorkersType DEF Idle, Free
  <1>3. CASE WorkerWait(p)
    <2>1. /\ worker[p] = "start" /\ worker' = [worker EXCEPT ![p] = "wait"]
          /\ num_workers' = num_workers + 1 /\ graphtasks_queue' = graphtasks_queue
      BY <1>3 DEF WorkerWait
    <2>2. Idle' = Idle \cup {p} /\ p \notin Idle /\ Free' = Free
      BY <1>1, <2>1 DEF Idle, Free
    <2>3. Cardinality(Idle') = Cardinality(Idle) + 1
      BY <1>2, <2>2, FS_AddElement
    <2> QED BY <2>1, <2>2, <2>3 DEF WorkersInv
  <1>4. CASE WorkerTake(p)
    <2>1. /\ worker[p] = "wait" /\ \E x \in {"drive", "start"} : worker' = [worker EXCEPT ![p] = x]
          /\ num_workers' = num_workers - 1
          /\ graphtasks_queue # <<>> /\ graphtasks_queue' = Tail(graphtasks_queue)
      BY <1>4 DEF WorkerTake
    <2>2. Len(graphtasks_queue') = Len(graphtasks_queue) - 1
      BY <1>1, <2>1
    <2>3. Idle' = Idle \ {p} /\ p \in Idle
      BY <1>1, <2>1 DEF Idle
    <2>4. Cardinality(Idle') = Cardinality(Idle) - 1
      BY <1>2, <2>3, FS_RemoveElement
    <2>5. (Free' = Free \ {p} \/ Free' = Free) /\ p \in Free
      <3>1. CASE worker' = [worker EXCEPT ![p] = "start"]
        BY <1>1, <2>1, <3>1 DEF Free
      <3>2. CASE worker' = [worker EXCEPT ![p] = "drive"]
        BY <1>1, <2>1, <3>2 DEF Free
      <3> QED BY <2>1, <3>1, <3>2
    <2>6. Cardinality(Free \ {p}) = Cardinality(Free) - 1
      BY <1>2, <2>5, FS_RemoveElement
    <2>7. Cardinality(Free') = Cardinality(Free) - 1 \/ Cardinality(Free') = Cardinality(Free)
      BY <2>5, <2>6
    <2>8. num_workers' = Cardinality(Idle')
      BY <2>1, <2>4 DEF WorkersInv
    <2>9. Len(graphtasks_queue') <= Cardinality(Free')
      BY <1>2, <2>2, <2>7 DEF WorkersInv
    <2> QED BY <2>8, <2>9 DEF WorkersInv
  <1>5. ASSUME NEW g \in GraphTasks, WorkerDone(p, g) PROVE WorkersInv'
    <2>1. /\ worker[p] = "drive" /\ worker' = [worker EXCEPT ![p] = "start"]
          /\ num_workers' = num_workers /\ graphtasks_queue' = graphtasks_queue
      BY <1>5 DEF WorkerDone
    <2>2. Idle' = Idle /\ Free' = Free \cup {p} /\ p \notin Free
      BY <1>1, <2>1 DEF Idle, Free
    <2>3. Cardinality(Free') = Cardinality(Free) + 1
      BY <1>2, <2>2, FS_AddElement
    <2> QED BY <1>2, <2>1, <2>2, <2>3 DEF WorkersInv
  <1> QED BY <1>3, <1>4, <1>5 DEF PoolStep

LEMMA NextWorkers == IInv /\ WorkersInv /\ [Next]_vars => WorkersInv'
  <1> SUFFICES ASSUME IInv, WorkersInv, [Next]_vars PROVE WorkersInv'
    OBVIOUS
  <1>0. ASSUME UNCHANGED poolVars PROVE WorkersInv'
    BY <1>0 DEF WorkersInv, Idle, Free
  <1>1. ASSUME NEW c \in Callers, NEW g \in GraphTasks, Backward(c, g) \/ ReturnToCaller(c, g)
        PROVE  UNCHANGED poolVars
    BY <1>1 DEF Backward, Execute, ReturnToCaller
  <1>2. ASSUME NEW f \in Frames, Pop(f) \/ EvaluateStep(f) PROVE UNCHANGED poolVars
    <2>1. CASE Pop(f) \/ Begin(f) \/ CallFunction(f) \/ Throw(f)
      BY <2>1 DEF Pop, Begin, CallFunction, Throw
    <2>2. CASE Reenter(f)
      BY <2>2 DEF Reenter, Execute
    <2>3. CASE ReturnToParent(f)
      BY <2>3 DEF ReturnToParent
    <2>4. CASE PropagateEdge(f)
      BY <2>4 DEF PropagateEdge
    <2>5. CASE SetHasError(f) \/ SetException(f) \/ SetError(f)
      BY <2>5 DEF SetHasError, SetException, SetError
    <2> QED BY <1>2, <2>1, <2>2, <2>3, <2>4, <2>5 DEF EvaluateStep
  <1>3. ASSUME NEW f \in Frames, CompleteStep(f) PROVE UNCHANGED poolVars
    <2>1. CASE DecrementOutstanding(f) \/ CheckCompleted(f) \/ MarkAsCompleted(f) \/ AwaitFuture(f)
      BY <2>1 DEF DecrementOutstanding, CheckCompleted, MarkAsCompleted, AwaitFuture
    <2>2. CASE RunFinalCallback(f) \/ ExecPostProcessing(f) \/ NotifyOwner(f)
      BY <2>2 DEF RunFinalCallback, ExecPostProcessing, FinishFuture, NotifyOwner
    <2> QED BY <1>3, <2>1, <2>2 DEF CompleteStep
  <1>4. ASSUME NEW g \in GraphTasks, LoopCondition(g) PROVE UNCHANGED poolVars
    BY <1>4 DEF LoopCondition
  <1>5. CASE StartStep \/ StopStep
    BY <1>0, <1>5 DEF StartStep, StopStep, StartDeviceThreads, DeviceThreadsStarted, ThreadInit,
       ThreadExit, Stop, StopWait, StopCheck, PushShutdownTask
  <1>6. CASE UNCHANGED vars
    BY <1>0, <1>6 DEF vars
  <1> QED BY <1>0, <1>1, <1>2, <1>3, <1>4, <1>5, <1>6, AddTaskWorkers, PoolWorkers
          DEF Next, FrameStep, CallStep, Terminating

(* No nested pass that was handed to the reentrant pool waits for a thread  *)
(* that nobody creates, however many passes are handed over at once.        *)
THEOREM PoolIsLargeEnough == Spec => []EnoughWorkers
  <1>1. Init => WorkersInv
    <2> SUFFICES ASSUME Init PROVE WorkersInv
      OBVIOUS
    <2>1. Idle = {} /\ Free = {} /\ num_workers = 0 /\ Len(graphtasks_queue) = 0
      BY DEF Init, Idle, Free
    <2> QED BY <2>1, FS_EmptySet DEF WorkersInv
  <1>2. WorkersInv => EnoughWorkers
    BY DEF WorkersInv, EnoughWorkers, Free
  <1> QED BY <1>1, <1>2, InitIInv, NextIInv, NextWorkers, PTL DEF Spec
-----------------------------------------------------------------------------
(* The nesting depth.  The calls inline on a caller's thread are a stack:   *)
(* their reentrant_depth_ numbers them from 0, the call the user made, to   *)
(* current_depth, and all but the last wait for the next one.               *)
Inline(c) == {g \in GraphTasks : call[g] = "inline" /\ thread[g] = c}
Blocked(g) == pc[g] = "reenter" /\ call[Inner(g)] = "inline"

StackOf(c) ==
    /\ total_depth[c] = current_depth[c]
    /\ Inline(c) = {} => worker_device[c] = NO_DEVICE /\ current_depth[c] = 0
    /\ Inline(c) # {} => /\ worker_device[c] # NO_DEVICE
                         /\ \E g \in Inline(c) : g \in TopLevel[c] /\ reentrant_depth[g] = 0
    /\ \A g \in Inline(c) :
          /\ reentrant_depth[g] \in 0..current_depth[c]
          /\ g \in TopLevel[c] => reentrant_depth[g] = 0
          /\ Blocked(g) => reentrant_depth[Inner(g)] = reentrant_depth[g] + 1
          /\ reentrant_depth[g] < current_depth[c] => Blocked(g)
    /\ \A g, h \in Inline(c) : reentrant_depth[g] = reentrant_depth[h] => g = h

(* Which frames are on a thread *)
FramesPlaced ==
    /\ \A g \in GraphTasks :
          /\ pc[g] \in Working \cup {"left"} /\ thread[g] \in Callers => call[g] = "inline"
          /\ pc[g] \in {"handoff", "pooled"} => call[g] # "inline"
    /\ \A f \in Frames : pc[f] = "reenter" =>
          /\ Inner(f) \in GraphTasks /\ call[Inner(f)] # "idle"
          /\ call[Inner(f)] = "inline" => thread[Inner(f)] = thread[f]

DepthInv ==
    /\ FramesPlaced
    /\ \A c \in Callers : StackOf(c)
    /\ \A t \in Threads : current_depth[t] <= MaxDepth

-----------------------------------------------------------------------------
Running == Working \cup {"left"}

(* Steps that start no call, end none and leave the nesting alone *)
NestingKept ==
    /\ UNCHANGED <<call, reentrant_depth, current_depth>>
    /\ \A c \in Callers : worker_device'[c] = worker_device[c] /\ total_depth'[c] = total_depth[c]
    /\ \A f \in Frames : pc[f] = "reenter" \/ pc'[f] = "reenter"
          => pc'[f] = pc[f] /\ cur'[f] = cur[f] /\ thread'[f] = thread[f]
    /\ \A g \in GraphTasks :
          /\ call[g] = "inline" => thread'[g] = thread[g]
          /\ pc'[g] \in Running /\ thread'[g] \in Callers => pc[g] \in Running /\ thread'[g] = thread[g]
          /\ pc'[g] \in {"handoff", "pooled"} => pc[g] \in {"handoff", "pooled"}

LEMMA NestingKeptKeeps ==
  ASSUME IInv, DepthInv, NestingKept
  PROVE  DepthInv'
  <1>1. \A f \in Frames : pc'[f] = "reenter" => pc[f] = "reenter" /\ Inner(f)' = Inner(f)
    BY DEF NestingKept, Inner
  <1>2. \A g \in GraphTasks : Blocked(g)' <=> Blocked(g)
    BY <1>1 DEF NestingKept, Inner, Blocked
  <1>3. FramesPlaced'
    <2>1. ASSUME NEW g \in GraphTasks
          PROVE  /\ pc'[g] \in Running /\ thread'[g] \in Callers => call'[g] = "inline"
                 /\ pc'[g] \in {"handoff", "pooled"} => call'[g] # "inline"
      BY DEF NestingKept, DepthInv, FramesPlaced, Running
    <2>2. ASSUME NEW f \in Frames, pc'[f] = "reenter"
          PROVE  /\ Inner(f)' \in GraphTasks /\ call'[Inner(f)'] # "idle"
                 /\ call'[Inner(f)'] = "inline" => thread'[Inner(f)'] = thread'[f]
      <3>1. /\ pc[f] = "reenter" /\ Inner(f)' = Inner(f) /\ thread'[f] = thread[f]
            /\ call' = call
        BY <1>1, <2>2 DEF NestingKept
      <3>2. /\ Inner(f) \in GraphTasks /\ call[Inner(f)] # "idle"
            /\ call[Inner(f)] = "inline" => thread[Inner(f)] = thread[f]
        BY <3>1 DEF DepthInv, FramesPlaced
      <3> QED BY <3>1, <3>2 DEF NestingKept
    <2> QED BY <2>1, <2>2 DEF FramesPlaced, Running
  <1>4. ASSUME NEW c \in Callers PROVE StackOf(c)'
    <2>1. Inline(c)' = Inline(c)
      <3>1. \A g \in GraphTasks : call[g] = "inline" => thread'[g] = thread[g]
        BY DEF NestingKept
      <3>2. call' = call
        BY DEF NestingKept
      <3> QED BY <3>1, <3>2 DEF Inline
    <2>2. StackOf(c)
      BY DEF DepthInv
    <2>3. \A g \in Inline(c) : Blocked(g) => Inner(g)' = Inner(g)
      <3>1. \A g \in GraphTasks : pc[g] = "reenter" => Inner(g)' = Inner(g)
        BY DEF NestingKept, Inner
      <3> QED BY <3>1 DEF Blocked, Inline
    <2>4. \A g \in Inline(c) : g \in GraphTasks
      BY DEF Inline
    <2>5. UNCHANGED <<reentrant_depth, current_depth[c], total_depth[c], worker_device[c]>>
      BY DEF NestingKept
    <2> HIDE DEF Inline, Blocked
    <2> QED BY <1>2, <2>1, <2>2, <2>3, <2>4, <2>5 DEF StackOf
  <1>5. \A t \in Threads : current_depth'[t] <= MaxDepth
    BY DEF NestingKept, DepthInv
  <1> QED BY <1>3, <1>4, <1>5 DEF DepthInv

LEMMA NestingFrameSteps ==
  ASSUME IInv, NEW f \in Frames, FrameStep(f), ~Reenter(f), ~ReturnToParent(f)
  PROVE  NestingKept
  <1>0. pc \in [Frames -> Labels] /\ cur \in [Frames -> NodeTasks \cup {None}]
    BY DEF IInv, TypeOK
  <1>1. UNCHANGED <<call, reentrant_depth, current_depth, total_depth, worker_device, thread>>
    <2>1. CASE Pop(f) \/ Begin(f) \/ CallFunction(f) \/ Throw(f) \/ PropagateEdge(f)
      BY <2>1 DEF Pop, Begin, CallFunction, Throw, PropagateEdge
    <2>2. CASE SetHasError(f) \/ SetException(f) \/ SetError(f) \/ CompleteStep(f)
      BY <2>2 DEF SetHasError, SetException, SetError, CompleteStep, DecrementOutstanding,
                  CheckCompleted, MarkAsCompleted, AwaitFuture, RunFinalCallback,
                  ExecPostProcessing, FinishFuture, NotifyOwner
    <2> QED BY <2>1, <2>2 DEF FrameStep, EvaluateStep
  <1>2. /\ pc[f] \in Working \ {"reenter"}
        /\ pc' = pc \/ \E x \in Labels \ {"reenter", "handoff", "pooled"} : pc' = [pc EXCEPT ![f] = x]
        /\ cur' = cur \/ \E t : cur' = [cur EXCEPT ![f] = t]
    <2> USE DEF Working, Evaluating, Completing
    <2>1. CASE Pop(f)
      BY <2>1 DEF Pop
    <2>2. CASE Begin(f) \/ CallFunction(f) \/ Throw(f)
      BY <2>2 DEF Begin, CallFunction, Throw
    <2>3. CASE PropagateEdge(f)
      BY <2>3 DEF PropagateEdge
    <2>4. CASE SetHasError(f) \/ SetException(f) \/ SetError(f)
      BY <2>4 DEF SetHasError, SetException, ClaimFuture, SetError
    <2>5. CASE CompleteStep(f)
      BY <2>5 DEF CompleteStep, DecrementOutstanding, CheckCompleted, MarkAsCompleted, ClaimFuture,
                  AwaitFuture, RunFinalCallback, ExecPostProcessing, FinishFuture, NotifyOwner
    <2> QED BY <2>1, <2>2, <2>3, <2>4, <2>5 DEF FrameStep, EvaluateStep
  <1>3. \A k \in Frames : k # f => pc'[k] = pc[k] /\ cur'[k] = cur[k]
    BY <1>0, <1>2
  <1>4. pc[f] # "reenter" /\ pc'[f] \notin {"reenter", "handoff", "pooled"} /\ pc[f] \in Running
    BY <1>0, <1>2 DEF Running, Working, Evaluating, Completing
  <1> QED BY <1>1, <1>3, <1>4 DEF NestingKept

LEMMA NestingOtherSteps ==
  ASSUME IInv, CountInv, DepthInv,
         \/ \E g \in GraphTasks : LoopCondition(g) \/ AddThreadPoolTask(g)
         \/ \E p \in PoolThreads : PoolStep(p)
         \/ StartStep \/ StopStep \/ UNCHANGED vars
  PROVE  NestingKept
  <1> USE DEF Working, Evaluating, Completing, Running
  <1>0. /\ pc \in [Frames -> Labels] /\ thread \in [Frames -> Threads \cup {None}]
        /\ worker_device \in [Threads -> Devices \cup {CPU, NO_DEVICE}]
        /\ total_depth \in [Threads -> Int]
    BY DEF IInv, TypeOK
  <1>1. ASSUME NEW g \in GraphTasks, LoopCondition(g) PROVE NestingKept
    <2>1. /\ UNCHANGED <<call, reentrant_depth, current_depth, total_depth, worker_device, thread, cur>>
          /\ pc[g] = "loop" /\ \E x \in {"left", "pop"} : pc' = [pc EXCEPT ![g] = x]
      BY <1>1 DEF LoopCondition
    <2> QED BY <1>0, <2>1 DEF NestingKept
  <1>2. ASSUME NEW g \in GraphTasks, AddThreadPoolTask(g) PROVE NestingKept
    <2>1. /\ UNCHANGED <<call, reentrant_depth, current_depth, total_depth, worker_device, thread, cur>>
          /\ pc[g] = "handoff" /\ pc' = [pc EXCEPT ![g] = "pooled"]
      BY <1>2 DEF AddThreadPoolTask
    <2> QED BY <1>0, <2>1 DEF NestingKept
  <1>3. ASSUME NEW p \in PoolThreads, WorkerWait(p) PROVE NestingKept
    BY <1>3 DEF WorkerWait, NestingKept
  <1>4. ASSUME NEW p \in PoolThreads, WorkerTake(p) PROVE NestingKept
    <2>1. PICK g \in GraphTasks : g = Head(graphtasks_queue) /\ pc[g] = "pooled"
      <3>1. graphtasks_queue \in Seq(GraphTasks) /\ graphtasks_queue # <<>>
        BY <1>4 DEF WorkerTake, IInv, TypeOK
      <3>2. 1 \in 1..Len(graphtasks_queue) /\ Head(graphtasks_queue) = graphtasks_queue[1]
        BY <3>1
      <3> QED BY <3>1, <3>2 DEF CountInv, PooledOnce
    <2>2. /\ UNCHANGED <<call, reentrant_depth, current_depth, cur>>
          /\ worker_device' = worker_device \/ \E x : worker_device' = [worker_device EXCEPT ![p] = x]
          /\ total_depth' = total_depth \/ \E x : total_depth' = [total_depth EXCEPT ![p] = x]
          /\ \/ thread' = [thread EXCEPT ![g] = p] /\ pc' = [pc EXCEPT ![g] = "loop"]
             \/ thread' = thread /\ pc' = [pc EXCEPT ![g] = "done"]
      BY <1>4, <2>1 DEF WorkerTake
    <2>3. p \notin Callers
      BY EngineAssumption
    <2>4. \A c \in Callers : worker_device'[c] = worker_device[c] /\ total_depth'[c] = total_depth[c]
      BY <1>0, <2>2, <2>3
    <2>5. call[g] # "inline"
      BY <2>1 DEF DepthInv, FramesPlaced
    <2>6. \A f \in Frames : f # g => pc'[f] = pc[f] /\ thread'[f] = thread[f]
      BY <1>0, <2>2
    <2>7. (pc'[g] = "loop" /\ thread'[g] = p) \/ pc'[g] = "done"
      BY <1>0, <2>2
    <2> QED BY <2>1, <2>2, <2>3, <2>4, <2>5, <2>6, <2>7 DEF NestingKept
  <1>5. ASSUME NEW p \in PoolThreads, NEW g \in GraphTasks, WorkerDone(p, g) PROVE NestingKept
    <2>1. /\ UNCHANGED <<call, reentrant_depth, current_depth, total_depth, worker_device, thread, cur>>
          /\ pc[g] = "left" /\ pc' = [pc EXCEPT ![g] = "done"]
      BY <1>5 DEF WorkerDone
    <2> QED BY <1>0, <2>1 DEF NestingKept
  <1>6. CASE StartStep \/ StopStep
    <2>1. /\ UNCHANGED <<call, reentrant_depth, current_depth, total_depth, thread, cur>>
          /\ \/ worker_device' = worker_device
             \/ \E d \in Devices : worker_device' = [worker_device EXCEPT ![d] = d]
      BY <1>6 DEF StartStep, StopStep, StartDeviceThreads, DeviceThreadsStarted, ThreadInit,
                  ThreadExit, Stop, StopWait, StopCheck, PushShutdownTask
    <2>2. /\ \A g \in GraphTasks : pc'[g] = pc[g]
          /\ \A f \in Frames : pc[f] = "reenter" \/ pc'[f] = "reenter" => pc'[f] = pc[f]
      <3>1. CASE StartDeviceThreads
        <4>1. started = "no" /\ pc' = [f \in Frames |-> IF f \in Devices THEN "starting" ELSE pc[f]]
          BY <3>1 DEF StartDeviceThreads
        <4>2. \A g \in GraphTasks : pc'[g] = pc[g]
          BY <4>1, EngineAssumption
        <4>3. ASSUME NEW f \in Frames, pc[f] = "reenter" PROVE FALSE
          <5>1. Inner(f) \in GraphTasks /\ call[Inner(f)] # "idle"
            BY <4>3 DEF DepthInv, FramesPlaced
          <5> QED BY <4>1, <5>1 DEF CountInv, Unstarted
        <4> QED BY <4>1, <4>2, <4>3
      <3>2. CASE ~StartDeviceThreads
        <4>1. \/ pc' = pc
              \/ \E d \in Devices, x \in {"pop", "dead"} :
                    pc[d] \in {"starting", "exit"} /\ pc' = [pc EXCEPT ![d] = x]
          BY <1>6, <3>2 DEF StartStep, StopStep, DeviceThreadsStarted, ThreadInit,
                  ThreadExit, Stop, StopWait, StopCheck, PushShutdownTask
        <4> QED BY <1>0, <4>1, EngineAssumption
      <3> QED BY <3>1, <3>2
    <2>3. \A c \in Callers : worker_device'[c] = worker_device[c]
      BY <1>0, <2>1, EngineAssumption
    <2> QED BY <2>1, <2>2, <2>3 DEF NestingKept
  <1>7. CASE UNCHANGED vars
    BY <1>7 DEF vars, NestingKept
  <1> QED BY <1>1, <1>2, <1>3, <1>4, <1>5, <1>6, <1>7 DEF PoolStep

-----------------------------------------------------------------------------
(* A caller whose frames a step does not touch *)
LEMMA StackKept ==
  ASSUME NEW c \in Callers, StackOf(c), Inline(c)' = Inline(c),
         UNCHANGED <<current_depth[c], total_depth[c], worker_device[c]>>,
         \A k \in Inline(c) :
            /\ reentrant_depth'[k] = reentrant_depth[k]
            /\ Blocked(k)' <=> Blocked(k)
            /\ Blocked(k) => Inner(k)' = Inner(k) /\ reentrant_depth'[Inner(k)] = reentrant_depth[Inner(k)]
  PROVE  StackOf(c)'
  <1> HIDE DEF Inline, Blocked
  <1>1. \A k \in Inline(c) : Blocked(k)' =>
           reentrant_depth'[Inner(k)'] = reentrant_depth'[k] + 1
    BY DEF StackOf
  <1> QED BY <1>1 DEF StackOf

(* What execute() changes of the nesting *)
LEMMA NestingEffect ==
  ASSUME IInv, CountInv, NEW t \in Threads, NEW g \in GraphTasks, Execute(t, g)
  PROVE  /\ call[g] = "idle" /\ pc[g] = "idle" /\ cur' = cur
         /\ \A k \in GraphTasks : k # g => call'[k] = call[k] /\ reentrant_depth'[k] = reentrant_depth[k]
         /\ \A k \in Frames : k # g => thread'[k] = thread[k]
         /\ \A u \in Threads : u # t => UNCHANGED <<current_depth[u], total_depth[u], worker_device[u]>>
         /\ UsesPool(t) => /\ call'[g] = "handed"
                           /\ UNCHANGED <<current_depth[t], total_depth[t], worker_device[t]>>
         /\ ~UsesPool(t) => call'[g] = "inline" /\ thread'[g] = t
         /\ ~Reentrant(t) => /\ reentrant_depth'[g] = 0 /\ worker_device'[t] = CPU
                             /\ UNCHANGED <<current_depth[t], total_depth[t]>>
         /\ Reentrant(t) /\ ~UsesPool(t) =>
               /\ current_depth[t] < MaxDepth
               /\ reentrant_depth'[g] = total_depth[t] + 1
               /\ current_depth'[t] = current_depth[t] + 1
               /\ total_depth'[t] = total_depth[t] + 1
               /\ worker_device'[t] = worker_device[t]
  <1>1. /\ call \in [GraphTasks -> {"idle", "inline", "handed", "returned", "aborted"}]
        /\ reentrant_depth \in [GraphTasks -> Int]
        /\ thread \in [Frames -> Threads \cup {None}]
        /\ worker_device \in [Threads -> Devices \cup {CPU, NO_DEVICE}]
        /\ current_depth \in [Threads -> Int] /\ total_depth \in [Threads -> Int]
    BY DEF IInv, TypeOK
  <1>2. /\ call[g] = "idle" /\ cur' = cur
        /\ call' = [call EXCEPT ![g] = IF UsesPool(t) THEN "handed" ELSE "inline"]
        /\ reentrant_depth' = [reentrant_depth EXCEPT
                ![g] = IF Reentrant(t) THEN total_depth[t] + 1 ELSE 0]
        /\ worker_device' = [worker_device EXCEPT ![t] = IF Reentrant(t) THEN @ ELSE CPU]
    BY DEF Execute
  <1>3. UsesPool(t) => UNCHANGED <<thread, current_depth, total_depth>>
    BY DEF Execute
  <1>4. ~UsesPool(t) =>
          /\ thread' = [thread EXCEPT ![g] = t]
          /\ current_depth' = [current_depth EXCEPT ![t] = IF Reentrant(t) THEN @ + 1 ELSE @]
          /\ total_depth' = [total_depth EXCEPT ![t] = IF Reentrant(t) THEN @ + 1 ELSE @]
    BY DEF Execute
  <1>5. pc[g] = "idle"
    BY <1>2 DEF CountInv, Unstarted
  <1>6. MaxDepth \in Nat
    BY EngineAssumption
  <1>7. Reentrant(t) /\ ~UsesPool(t) => current_depth[t] < MaxDepth
    BY <1>1, <1>6 DEF UsesPool
  <1>8. UsesPool(t) => Reentrant(t)
    BY DEF UsesPool
  <1>9. /\ \A k \in GraphTasks : k # g => call'[k] = call[k] /\ reentrant_depth'[k] = reentrant_depth[k]
        /\ \A u \in Threads : u # t => worker_device'[u] = worker_device[u]
        /\ UsesPool(t) => call'[g] = "handed"
        /\ ~UsesPool(t) => call'[g] = "inline"
        /\ ~Reentrant(t) => reentrant_depth'[g] = 0 /\ worker_device'[t] = CPU
        /\ Reentrant(t) => reentrant_depth'[g] = total_depth[t] + 1 /\ worker_device'[t] = worker_device[t]
    BY <1>1, <1>2
  <1>10. CASE UsesPool(t)
    BY <1>2, <1>3, <1>5, <1>8, <1>9, <1>10
  <1>11. CASE ~UsesPool(t)
    <2>1. /\ \A k \in Frames : k # g => thread'[k] = thread[k]
          /\ thread'[g] = t
          /\ \A u \in Threads : u # t => UNCHANGED <<current_depth[u], total_depth[u]>>
          /\ ~Reentrant(t) => UNCHANGED <<current_depth[t], total_depth[t]>>
          /\ Reentrant(t) => /\ current_depth'[t] = current_depth[t] + 1
                             /\ total_depth'[t] = total_depth[t] + 1
      BY <1>1, <1>4, <1>11
    <2> QED BY <1>2, <1>5, <1>7, <1>9, <1>11, <2>1
  <1> QED BY <1>10, <1>11

(* execute() leaves the frames of other callers alone. *)
LEMMA ExecuteElsewhere ==
  ASSUME IInv, CountInv, DepthInv, NEW t \in Threads, NEW g \in GraphTasks, Execute(t, g),
         NEW c \in Callers, c # t,
         \A k \in GraphTasks : k # g /\ thread[k] # t => pc'[k] = pc[k]
  PROVE  StackOf(c)'
  <1>1. StackOf(c) /\ c \in Threads
    BY DEF DepthInv
  <1>2. Inline(c)' = Inline(c)
    BY NestingEffect DEF Inline
  <1>3. ASSUME NEW k \in Inline(c)
        PROVE  /\ reentrant_depth'[k] = reentrant_depth[k]
               /\ Blocked(k)' <=> Blocked(k)
               /\ Blocked(k) => /\ Inner(k)' = Inner(k)
                                /\ reentrant_depth'[Inner(k)] = reentrant_depth[Inner(k)]
    <2>1. k \in GraphTasks /\ k # g /\ thread[k] = c /\ pc'[k] = pc[k]
      BY NestingEffect DEF Inline
    <2>2. Inner(k)' = Inner(k)
      BY NestingEffect DEF Inner
    <2>3. pc[k] = "reenter" => Inner(k) \in GraphTasks /\ Inner(k) # g
      BY <2>1, NestingEffect DEF DepthInv, FramesPlaced
    <2> QED BY <2>1, <2>2, <2>3, NestingEffect DEF Blocked
  <1> QED BY <1>1, <1>2, <1>3, NestingEffect, StackKept

(* Where the frames are after execute(), called by the user or by the       *)
(* function of frame f.                                                     *)
LEMMA ExecutePlaces ==
  ASSUME IInv, CountInv, DepthInv, NEW t \in Threads, NEW g \in GraphTasks, Execute(t, g),
         pc'[g] = FrameStart(t),
         \A k \in Frames : k # g =>
            \/ pc'[k] = pc[k]
            \/ /\ pc[k] = "run" /\ pc'[k] = "reenter" /\ Inner(k) = g /\ thread[k] = t
  PROVE  FramesPlaced'
  <1> USE DEF Working, Evaluating, Completing
  <1>1. ASSUME NEW k \in GraphTasks
        PROVE  /\ pc'[k] \in Working \cup {"left"} /\ thread'[k] \in Callers => call'[k] = "inline"
               /\ pc'[k] \in {"handoff", "pooled"} => call'[k] # "inline"
    <2>1. CASE k = g
      BY <2>1, NestingEffect DEF FrameStart
    <2>2. CASE k # g
      <3>1. call'[k] = call[k] /\ thread'[k] = thread[k]
        BY <2>2, NestingEffect
      <3>2. /\ pc'[k] \in Working \cup {"left"} => pc[k] \in Working \cup {"left"}
            /\ pc'[k] \in {"handoff", "pooled"} => pc[k] \in {"handoff", "pooled"}
        BY <2>2
      <3> QED BY <3>1, <3>2 DEF DepthInv, FramesPlaced
    <2> QED BY <2>1, <2>2
  <1>2. ASSUME NEW k \in Frames, pc'[k] = "reenter"
        PROVE  /\ Inner(k)' \in GraphTasks /\ call'[Inner(k)'] # "idle"
               /\ call'[Inner(k)'] = "inline" => thread'[Inner(k)'] = thread'[k]
    <2>1. Inner(k)' = Inner(k)
      BY NestingEffect DEF Inner
    <2>2. k # g
      BY <1>2 DEF FrameStart
    <2>3. thread'[k] = thread[k]
      BY <2>2, NestingEffect
    <2>4. CASE pc[k] = "reenter"
      <3>1. /\ Inner(k) \in GraphTasks /\ call[Inner(k)] # "idle"
            /\ call[Inner(k)] = "inline" => thread[Inner(k)] = thread[k]
        BY <2>4 DEF DepthInv, FramesPlaced
      <3>2. Inner(k) # g
        BY <3>1, NestingEffect
      <3> QED BY <2>1, <2>3, <3>1, <3>2, NestingEffect
    <2>5. CASE pc[k] # "reenter"
      <3>1. Inner(k) = g /\ thread[k] = t
        BY <1>2, <2>2, <2>5
      <3>2. call'[g] # "idle" /\ (call'[g] = "inline" => thread'[g] = t)
        BY NestingEffect
      <3> QED BY <2>1, <2>3, <3>1, <3>2
    <2> QED BY <2>4, <2>5
  <1> QED BY <1>1, <1>2 DEF FramesPlaced

LEMMA ExecuteDepth ==
  ASSUME IInv, CountInv, DepthInv, NEW t \in Threads, NEW g \in GraphTasks, Execute(t, g)
  PROVE  \A u \in Threads : current_depth'[u] <= MaxDepth
  <1>1. current_depth \in [Threads -> Int] /\ MaxDepth \in Nat
    BY EngineAssumption DEF IInv, TypeOK
  <1>2. \A u \in Threads : current_depth[u] <= MaxDepth
    BY DEF DepthInv
  <1>3. UsesPool(t) => Reentrant(t)
    BY DEF UsesPool
  <1>4. current_depth'[t] <= MaxDepth
    <2>1. CASE UsesPool(t) \/ ~Reentrant(t)
      BY <1>2, <2>1, NestingEffect
    <2>2. CASE Reentrant(t) /\ ~UsesPool(t)
      BY <1>1, <2>2, NestingEffect
    <2> QED BY <2>1, <2>2
  <1> QED BY <1>2, <1>4, NestingEffect

(* A user's call finds nothing under way on its thread. *)
LEMMA OutsideIsEmpty ==
  ASSUME DepthInv, NEW c \in Callers, Outside(c)
  PROVE  Inline(c) = {} /\ worker_device[c] = NO_DEVICE /\ current_depth[c] = 0 /\ total_depth[c] = 0
  <1>1. StackOf(c)
    BY DEF DepthInv
  <1>2. Inline(c) = {}
    <2>1. \A g \in Inline(c) : g \notin TopLevel[c]
      BY DEF Outside, Inline
    <2> QED BY <1>1, <2>1 DEF StackOf
  <1> QED BY <1>1, <1>2 DEF StackOf

LEMMA BackwardDepth ==
  ASSUME IInv, CountInv, DepthInv, NEW c \in Callers, NEW g \in GraphTasks, Backward(c, g)
  PROVE  DepthInv'
  <1>0. pc \in [Frames -> Labels]
    BY DEF IInv, TypeOK
  <1>1. /\ c \in Threads /\ g \in TopLevel[c] /\ Outside(c) /\ Execute(c, g)
        /\ pc' = [pc EXCEPT ![g] = FrameStart(c)]
    BY DEF Backward
  <1>2. pc'[g] = FrameStart(c) /\ \A k \in Frames : k # g => pc'[k] = pc[k]
    BY <1>0, <1>1
  <1>3. FramesPlaced'
    BY <1>1, <1>2, ExecutePlaces
  <1>4. \A u \in Threads : current_depth'[u] <= MaxDepth
    BY <1>1, ExecuteDepth
  <1>5. Inline(c) = {} /\ ~Reentrant(c) /\ ~UsesPool(c) /\ current_depth[c] = 0 /\ total_depth[c] = 0
    BY <1>1, OutsideIsEmpty DEF Reentrant, UsesPool
  <1>6. /\ Inline(c)' = {g} /\ reentrant_depth'[g] = 0 /\ worker_device'[c] = CPU
        /\ current_depth'[c] = 0 /\ total_depth'[c] = 0
    BY <1>1, <1>5, NestingEffect DEF Inline
  <1>7. ~Blocked(g)'
    BY <1>2, <1>5 DEF Blocked, FrameStart
  <1>8. StackOf(c)'
    <2> HIDE DEF Inline, Blocked
    <2> QED BY <1>1, <1>6, <1>7, EngineAssumption DEF StackOf
  <1>9. ASSUME NEW d \in Callers, d # c PROVE StackOf(d)'
    BY <1>1, <1>2, <1>9, ExecuteElsewhere
  <1> QED BY <1>3, <1>4, <1>8, <1>9 DEF DepthInv

(* A frame of a caller's thread that is not blocked is the last one. *)
LEMMA LastFrame ==
  ASSUME IInv, DepthInv, NEW f \in Frames, pc[f] \in Working \cup {"left"}, thread[f] \in Callers
  PROVE  /\ f \in Inline(thread[f])
         /\ ~Blocked(f) => reentrant_depth[f] = current_depth[thread[f]]
  <1>1. f \notin Devices
    BY EngineAssumption DEF IInv, WellFormed, FrameWellFormed
  <1>2. f \in Inline(thread[f])
    BY <1>1 DEF DepthInv, FramesPlaced, Inline
  <1>3. StackOf(thread[f])
    BY DEF DepthInv
  <1>4. current_depth[thread[f]] \in Int /\ reentrant_depth[f] \in Int
    BY <1>1 DEF IInv, TypeOK
  <1> HIDE DEF Inline, Blocked
  <1> QED BY <1>2, <1>3, <1>4 DEF StackOf

LEMMA ReenterDepth ==
  ASSUME IInv, CountInv, DepthInv, NEW f \in Frames, Reenter(f)
  PROVE  DepthInv'
  <1>0. pc \in [Frames -> Labels]
    BY DEF IInv, TypeOK
  <1>1. pc[f] = "run" /\ Inner(f) # None
    BY DEF Reenter
  <1>2. thread[f] \in Threads /\ Inner(f) \in GraphTasks
    BY <1>1, FrameFacts, HeldTask, EngineAssumption DEF Working, Evaluating, Inner
  <1>3. PICK t \in Threads, g \in GraphTasks : t = thread[f] /\ g = Inner(f)
    BY <1>2
  <1>4. /\ pc[f] = "run" /\ g # None /\ Execute(t, g)
        /\ pc' = [pc EXCEPT ![f] = "reenter", ![g] = FrameStart(t)]
    BY <1>3 DEF Reenter
  <1>5. t \in Threads /\ g \in GraphTasks
    OBVIOUS
  <1>6. f # g
    BY <1>4, <1>5, NestingEffect
  <1>7. /\ pc'[g] = FrameStart(t) /\ pc'[f] = "reenter"
        /\ \A k \in Frames : k # f /\ k # g => pc'[k] = pc[k]
    BY <1>0, <1>4, <1>5, <1>6
  <1>8. t = thread[f] /\ g = Inner(f)
    BY <1>3
  <1>9. FramesPlaced'
    BY <1>4, <1>5, <1>7, <1>8, ExecutePlaces
  <1>10. \A u \in Threads : current_depth'[u] <= MaxDepth
    BY <1>4, <1>5, ExecuteDepth
  <1>11. ASSUME NEW d \in Callers, d # t PROVE StackOf(d)'
    <2>1. \A k \in GraphTasks : k # g /\ thread[k] # t => pc'[k] = pc[k]
      BY <1>7, <1>8
    <2> QED BY <1>4, <1>5, <1>11, <2>1, ExecuteElsewhere
  <1>12. ASSUME t \in Callers PROVE StackOf(t)'
    <2>1. /\ f \in Inline(t) /\ ~Blocked(f) /\ reentrant_depth[f] = current_depth[t]
      BY <1>4, <1>8, <1>12, LastFrame DEF Blocked, Working, Evaluating
    <2>2. StackOf(t)
      BY <1>12 DEF DepthInv
    <2>3. Reentrant(t) /\ total_depth[t] = current_depth[t]
      BY <2>1, <2>2 DEF StackOf, Reentrant
    <2>4. /\ f \in GraphTasks /\ call[f] = "inline" /\ g \notin Inline(t)
          /\ Inner(f)' = g
      BY <1>4, <1>5, <1>8, <2>1, NestingEffect DEF Inline, Inner
    <2>5. ASSUME NEW k \in Inline(t), k # f
          PROVE  /\ k # g /\ reentrant_depth'[k] = reentrant_depth[k]
                 /\ Blocked(k)' <=> Blocked(k)
                 /\ Inner(k)' = Inner(k)
                 /\ Blocked(k) => reentrant_depth'[Inner(k)] = reentrant_depth[Inner(k)]
      <3>1. k \in GraphTasks /\ k # g /\ pc'[k] = pc[k]
        BY <1>7, <2>4, <2>5 DEF Inline
      <3>2. Inner(k)' = Inner(k)
        BY <1>4, <1>5, NestingEffect DEF Inner
      <3>3. pc[k] = "reenter" => Inner(k) \in GraphTasks /\ Inner(k) # g
        BY <1>4, <1>5, <3>1, NestingEffect DEF DepthInv, FramesPlaced
      <3> QED BY <1>4, <1>5, <3>1, <3>2, <3>3, NestingEffect DEF Blocked
    <2>6. reentrant_depth'[f] = reentrant_depth[f]
      BY <1>4, <1>5, <1>6, <2>4, NestingEffect
    <2>7. CASE UsesPool(t)
      <3>1. Inline(t)' = Inline(t)
        BY <1>4, <1>5, <2>4, <2>7, NestingEffect DEF Inline
      <3>2. ~Blocked(f)'
        BY <1>4, <1>5, <2>4, <2>7, NestingEffect DEF Blocked
      <3>3. UNCHANGED <<current_depth[t], total_depth[t], worker_device[t]>>
        BY <1>4, <1>5, <2>7, NestingEffect
      <3> QED BY <1>12, <2>1, <2>2, <2>5, <2>6, <3>1, <3>2, <3>3, StackKept
    <2>8. CASE ~UsesPool(t)
      <3>1. Inline(t)' = Inline(t) \cup {g}
        BY <1>4, <1>5, <2>4, <2>8, NestingEffect DEF Inline
      <3>2. Blocked(f)' /\ ~Blocked(g)'
        BY <1>4, <1>5, <1>7, <2>4, <2>8, NestingEffect DEF Blocked, FrameStart
      <3>3. /\ reentrant_depth'[g] = current_depth[t] + 1
            /\ current_depth'[t] = current_depth[t] + 1 /\ total_depth'[t] = current_depth[t] + 1
            /\ worker_device'[t] = worker_device[t]
        BY <1>4, <1>5, <2>3, <2>8, NestingEffect
      <3>4. current_depth[t] \in Int /\ \A k \in Inline(t) : reentrant_depth[k] \in Int
        BY <1>5 DEF IInv, TypeOK, Inline
      <3>5. g \notin TopLevel[t]
        BY <1>4, <1>8, <1>12, HeldTask, FrameFacts, CallAssumption DEF Inner, Working, Evaluating
      <3> HIDE DEF Inline, Blocked
      <3>6. \E k \in Inline(t)' : k \in TopLevel[t] /\ reentrant_depth'[k] = 0
        BY <2>1, <2>2, <2>5, <2>6, <3>1 DEF StackOf
      <3>7. ASSUME NEW k \in Inline(t)'
            PROVE  /\ reentrant_depth'[k] \in 0..current_depth'[t]
                   /\ k \in TopLevel[t] => reentrant_depth'[k] = 0
                   /\ Blocked(k)' => reentrant_depth'[Inner(k)'] = reentrant_depth'[k] + 1
                   /\ reentrant_depth'[k] < current_depth'[t] => Blocked(k)'
        <4>1. CASE k = g
          <5>1. reentrant_depth[f] \in 0..current_depth[t]
            BY <2>1, <2>2 DEF StackOf
          <5> QED BY <2>1, <3>2, <3>3, <3>4, <3>5, <4>1, <5>1
        <4>2. CASE k = f
          BY <2>1, <2>2, <2>4, <2>6, <3>2, <3>3, <3>4, <4>2 DEF StackOf
        <4>3. CASE k # f /\ k # g
          <5>1. /\ k \in Inline(t) /\ reentrant_depth[k] # current_depth[t]
            BY <2>1, <2>2, <3>1, <4>3 DEF StackOf
          <5>2. /\ reentrant_depth[k] \in 0..current_depth[t] /\ Blocked(k)
                /\ k \in TopLevel[t] => reentrant_depth[k] = 0
                /\ reentrant_depth[Inner(k)] = reentrant_depth[k] + 1
            BY <2>2, <3>4, <5>1 DEF StackOf
          <5> QED BY <2>5, <3>3, <3>4, <4>3, <5>1, <5>2
        <4> QED BY <4>1, <4>2, <4>3
      <3>8. ASSUME NEW k \in Inline(t)', NEW h \in Inline(t)', reentrant_depth'[k] = reentrant_depth'[h]
            PROVE  k = h
        <4>1. \A j \in Inline(t) : /\ reentrant_depth'[j] = reentrant_depth[j]
                                   /\ reentrant_depth[j] < reentrant_depth'[g]
          BY <2>2, <2>5, <2>6, <3>3, <3>4 DEF StackOf
        <4>2. CASE k \in Inline(t) /\ h \in Inline(t)
          BY <2>2, <3>8, <4>1, <4>2 DEF StackOf
        <4>3. CASE k = g \/ h = g
          BY <3>1, <3>3, <3>4, <3>8, <4>1, <4>3
        <4> QED BY <3>1, <4>2, <4>3
      <3>9. worker_device'[t] # NO_DEVICE
        BY <2>3, <3>3 DEF Reentrant
      <3> QED BY <3>3, <3>6, <3>7, <3>8, <3>9 DEF StackOf
    <2> QED BY <2>7, <2>8
  <1> QED BY <1>9, <1>10, <1>11, <1>12 DEF DepthInv

-----------------------------------------------------------------------------
(* Where the frames are after a call returned, to the user or to frame f *)
LEMMA ReturnPlaces ==
  ASSUME IInv, DepthInv, NEW h \in GraphTasks, call[h] # "idle",
         call'[h] \in {"returned", "aborted"},
         \A k \in GraphTasks : k # h => call'[k] = call[k],
         UNCHANGED <<thread, cur>>,
         pc'[h] = "done" \/ (pc'[h] = pc[h] /\ call[h] = "handed"),
         \A k \in Frames : k # h =>
            \/ pc'[k] = pc[k]
            \/ pc[k] = "reenter" /\ pc'[k] \in {"run", "throw"}
  PROVE  FramesPlaced'
  <1> USE DEF Working, Evaluating, Completing
  <1>1. ASSUME NEW k \in GraphTasks
        PROVE  /\ pc'[k] \in Working \cup {"left"} /\ thread'[k] \in Callers => call'[k] = "inline"
               /\ pc'[k] \in {"handoff", "pooled"} => call'[k] # "inline"
    <2>1. CASE k = h
      BY <2>1 DEF DepthInv, FramesPlaced
    <2>2. CASE k # h
      <3>1. /\ pc'[k] \in Working \cup {"left"} => pc[k] \in Working \cup {"left"}
            /\ pc'[k] \in {"handoff", "pooled"} => pc[k] \in {"handoff", "pooled"}
        BY <2>2
      <3> QED BY <2>2, <3>1 DEF DepthInv, FramesPlaced
    <2> QED BY <2>1, <2>2
  <1>2. ASSUME NEW k \in Frames, pc'[k] = "reenter"
        PROVE  /\ Inner(k)' \in GraphTasks /\ call'[Inner(k)'] # "idle"
               /\ call'[Inner(k)'] = "inline" => thread'[Inner(k)'] = thread'[k]
    <2>1. Inner(k)' = Inner(k) /\ pc[k] = "reenter"
      BY <1>2 DEF Inner
    <2>2. /\ Inner(k) \in GraphTasks /\ call[Inner(k)] # "idle"
          /\ call[Inner(k)] = "inline" => thread[Inner(k)] = thread[k]
      BY <2>1 DEF DepthInv, FramesPlaced
    <2> QED BY <2>1, <2>2
  <1> QED BY <1>1, <1>2 DEF FramesPlaced

(* A call that returns leaves the frames of other callers alone. *)
LEMMA ReturnElsewhere ==
  ASSUME IInv, DepthInv, NEW h \in GraphTasks, call[h] = "inline",
         call'[h] \in {"returned", "aborted"},
         \A k \in GraphTasks : k # h => call'[k] = call[k],
         UNCHANGED <<thread, cur, reentrant_depth>>,
         NEW c \in Callers, c # thread[h],
         \A k \in GraphTasks : thread[k] # thread[h] => pc'[k] = pc[k],
         UNCHANGED <<current_depth[c], total_depth[c], worker_device[c]>>
  PROVE  StackOf(c)'
  <1>1. StackOf(c)
    BY DEF DepthInv
  <1>2. Inline(c)' = Inline(c)
    BY DEF Inline
  <1>3. ASSUME NEW k \in Inline(c)
        PROVE  (Blocked(k)' <=> Blocked(k)) /\ Inner(k)' = Inner(k)
    <2>1. k \in GraphTasks /\ thread[k] = c /\ pc'[k] = pc[k]
      BY DEF Inline
    <2>2. Inner(k)' = Inner(k)
      BY DEF Inner
    <2>3. pc[k] = "reenter" => Inner(k) \in GraphTasks /\ Inner(k) # h
      BY <2>1 DEF DepthInv, FramesPlaced
    <2> QED BY <2>1, <2>2, <2>3 DEF Blocked
  <1> QED BY <1>1, <1>2, <1>3, StackKept

(* A call that was handed to the pool returns: no stack changes. *)
LEMMA HandedReturnDepth ==
  ASSUME IInv, CountInv, DepthInv, NEW f \in Frames, ReturnToParent(f), call[Inner(f)] # "inline"
  PROVE  DepthInv'
  <1>0. /\ pc \in [Frames -> Labels]
        /\ call \in [GraphTasks -> {"idle", "inline", "handed", "returned", "aborted"}]
    BY DEF IInv, TypeOK
  <1>1. pc[f] = "reenter"
    BY DEF ReturnToParent
  <1>2. PICK h \in GraphTasks : h = Inner(f) /\ call[h] # "idle"
    BY <1>1 DEF DepthInv, FramesPlaced
  <1>3. /\ UNCHANGED <<current_depth, total_depth, worker_device, reentrant_depth, thread, cur>>
        /\ call[h] = "handed"
        /\ \E x \in {"run", "throw"} : pc' = [pc EXCEPT ![f] = x]
        /\ \E x \in {"returned", "aborted"} : call' = [call EXCEPT ![h] = x]
    BY <1>2 DEF ReturnToParent
  <1>4. /\ pc'[f] \in {"run", "throw"} /\ \A k \in Frames : k # f => pc'[k] = pc[k]
        /\ call'[h] \in {"returned", "aborted"} /\ \A k \in GraphTasks : k # h => call'[k] = call[k]
    BY <1>0, <1>3
  <1>5. FramesPlaced'
    <2>1. CASE f = h
      <3>1. thread[h] \notin Callers
        BY <1>1, <1>3, <2>1 DEF DepthInv, FramesPlaced, Working, Evaluating
      <3>2. ASSUME NEW k \in GraphTasks
            PROVE  /\ pc'[k] \in Working \cup {"left"} /\ thread'[k] \in Callers => call'[k] = "inline"
                   /\ pc'[k] \in {"handoff", "pooled"} => call'[k] # "inline"
        BY <1>3, <1>4, <2>1, <3>1 DEF DepthInv, FramesPlaced
      <3>3. ASSUME NEW k \in Frames, pc'[k] = "reenter"
            PROVE  /\ Inner(k)' \in GraphTasks /\ call'[Inner(k)'] # "idle"
                   /\ call'[Inner(k)'] = "inline" => thread'[Inner(k)'] = thread'[k]
        <4>1. Inner(k)' = Inner(k) /\ pc[k] = "reenter"
          BY <1>3, <1>4, <3>3 DEF Inner
        <4>2. /\ Inner(k) \in GraphTasks /\ call[Inner(k)] # "idle"
              /\ call[Inner(k)] = "inline" => thread[Inner(k)] = thread[k]
          BY <4>1 DEF DepthInv, FramesPlaced
        <4> QED BY <1>3, <1>4, <4>1, <4>2
      <3> QED BY <3>2, <3>3 DEF FramesPlaced
    <2>2. CASE f # h
      BY <1>1, <1>2, <1>3, <1>4, <2>2, ReturnPlaces
    <2> QED BY <2>1, <2>2
  <1>6. ASSUME NEW c \in Callers PROVE StackOf(c)'
    <2>1. StackOf(c)
      BY DEF DepthInv
    <2>2. Inline(c)' = Inline(c)
      BY <1>3, <1>4 DEF Inline
    <2>3. ASSUME NEW k \in Inline(c)
          PROVE  (Blocked(k)' <=> Blocked(k)) /\ Inner(k)' = Inner(k)
      <3>1. Inner(k)' = Inner(k) /\ k \in GraphTasks
        BY <1>3 DEF Inner, Inline
      <3>2. pc[k] = "reenter" => Inner(k) \in GraphTasks
        BY <3>1 DEF DepthInv, FramesPlaced
      <3>3. CASE k = f
        <4>1. ~Blocked(f)
          BY <1>2, <1>3 DEF Blocked
        <4>2. pc'[k] # "reenter"
          BY <1>4, <3>3
        <4> QED BY <3>1, <3>3, <4>1, <4>2 DEF Blocked
      <3>4. CASE k # f
        BY <1>3, <1>4, <3>1, <3>2, <3>4 DEF Blocked
      <3> QED BY <3>1, <3>3, <3>4
    <2> QED BY <1>3, <2>1, <2>2, <2>3, StackKept
  <1>7. \A u \in Threads : current_depth'[u] <= MaxDepth
    BY <1>3 DEF DepthInv
  <1> QED BY <1>5, <1>6, <1>7 DEF DepthInv

LEMMA InlineReturnDepth ==
  ASSUME IInv, CountInv, DepthInv, NEW f \in Frames, ReturnToParent(f), call[Inner(f)] = "inline"
  PROVE  DepthInv'
  <1> USE DEF Working, Evaluating, Completing
  <1>0. /\ pc \in [Frames -> Labels]
        /\ call \in [GraphTasks -> {"idle", "inline", "handed", "returned", "aborted"}]
        /\ current_depth \in [Threads -> Int] /\ total_depth \in [Threads -> Int]
        /\ reentrant_depth \in [GraphTasks -> Int]
    BY DEF IInv, TypeOK
  <1>1. pc[f] = "reenter"
    BY DEF ReturnToParent
  <1>2. PICK h \in GraphTasks : h = Inner(f) /\ call[h] = "inline"
    BY <1>1 DEF DepthInv, FramesPlaced
  <1>3. PICK t \in Threads : t = thread[f]
    BY <1>1, FrameFacts
  <1>4. thread[h] = t
    BY <1>1, <1>2, <1>3 DEF DepthInv, FramesPlaced
  <1>5. /\ UNCHANGED <<worker_device, reentrant_depth, thread, cur>>
        /\ pc[h] = "left"
        /\ current_depth' = [current_depth EXCEPT ![t] = @ - 1]
        /\ total_depth' = [total_depth EXCEPT ![t] = @ - 1]
        /\ \E x \in {"run", "throw"} : pc' = [pc EXCEPT ![f] = x, ![h] = "done"]
        /\ \E x \in {"returned", "aborted"} : call' = [call EXCEPT ![h] = x]
    BY <1>2, <1>3 DEF ReturnToParent
  <1>6. /\ f # h /\ pc'[f] \in {"run", "throw"} /\ pc'[h] = "done"
        /\ \A k \in Frames : k # f /\ k # h => pc'[k] = pc[k]
        /\ call'[h] \in {"returned", "aborted"} /\ \A k \in GraphTasks : k # h => call'[k] = call[k]
        /\ current_depth'[t] = current_depth[t] - 1 /\ total_depth'[t] = total_depth[t] - 1
        /\ \A u \in Threads : u # t => UNCHANGED <<current_depth[u], total_depth[u]>>
    BY <1>0, <1>1, <1>5
  <1>7. FramesPlaced'
    <2>1. \A k \in Frames : k # h => \/ pc'[k] = pc[k]
                                     \/ pc[k] = "reenter" /\ pc'[k] \in {"run", "throw"}
      BY <1>1, <1>6
    <2>2. call[h] # "idle" /\ UNCHANGED <<thread, cur>>
      BY <1>2, <1>5
    <2>3. /\ pc'[h] = "done" /\ call'[h] \in {"returned", "aborted"}
          /\ \A k \in GraphTasks : k # h => call'[k] = call[k]
      BY <1>6
    <2> QED BY <2>1, <2>2, <2>3, ReturnPlaces
  <1>8. \A u \in Threads : current_depth'[u] <= MaxDepth
    <2>1. MaxDepth \in Nat /\ \A u \in Threads : current_depth[u] <= MaxDepth
      BY EngineAssumption DEF DepthInv
    <2>2. current_depth'[t] <= MaxDepth
      BY <1>0, <1>6, <2>1
    <2> QED BY <1>6, <2>1, <2>2
  <1>9. ASSUME NEW c \in Callers, c # t PROVE StackOf(c)'
    <2>1. \A k \in GraphTasks : thread[k] # thread[h] => pc'[k] = pc[k]
      BY <1>3, <1>4, <1>6
    <2>2. UNCHANGED <<current_depth[c], total_depth[c], worker_device[c]>>
      BY <1>5, <1>6, <1>9
    <2> QED BY <1>2, <1>4, <1>5, <1>6, <1>9, <2>1, <2>2, ReturnElsewhere
  <1>10. ASSUME t \in Callers PROVE StackOf(t)'
    <2>1. StackOf(t)
      BY <1>10 DEF DepthInv
    <2>2. f \in Inline(t) /\ h \in Inline(t) /\ Blocked(f) /\ ~Blocked(h)
      BY <1>1, <1>2, <1>3, <1>4, <1>5, <1>10, LastFrame DEF Blocked, Inline
    <2>3. reentrant_depth[h] = reentrant_depth[f] + 1 /\ reentrant_depth[h] = current_depth[t]
      BY <1>2, <1>4, <1>5, <1>10, <2>1, <2>2, LastFrame DEF StackOf
    <2>4. Inline(t)' = Inline(t) \ {h}
      BY <1>5, <1>6, <2>2 DEF Inline
    <2>5. \A k \in Inline(t) : k \in GraphTasks /\ reentrant_depth[k] \in Int
      BY <1>0 DEF Inline
    <2>6. ~Blocked(f)'
      BY <1>6 DEF Blocked
    <2>7. ASSUME NEW k \in Inline(t), k # h, k # f PROVE Inner(k)' = Inner(k) /\ Blocked(k) /\ Blocked(k)'
      <3>1. Inner(k)' = Inner(k)
        BY <1>5 DEF Inner
      <3>2. reentrant_depth[k] # reentrant_depth[h] /\ reentrant_depth[k] # reentrant_depth[f]
        BY <2>1, <2>2, <2>7 DEF StackOf
      <3>3. Blocked(k)
        BY <1>0, <2>1, <2>3, <2>5, <3>2 DEF StackOf
      <3>4. reentrant_depth[Inner(k)] = reentrant_depth[k] + 1
        BY <2>1, <3>3 DEF StackOf
      <3>5. Inner(k) # h
        BY <2>2, <2>3, <2>5, <3>2, <3>4
      <3>6. pc[k] = "reenter" /\ call[Inner(k)] = "inline"
        BY <3>3 DEF Blocked
      <3>7. Inner(k) \in GraphTasks
        BY <2>5, <3>6 DEF DepthInv, FramesPlaced
      <3> QED BY <1>6, <2>5, <2>7, <3>1, <3>3, <3>5, <3>6, <3>7 DEF Blocked
    <2>8. reentrant_depth' = reentrant_depth /\ worker_device' = worker_device
      BY <1>5
    <2> HIDE DEF Inline, Blocked
    <2>9. \E k \in Inline(t)' : k \in TopLevel[t] /\ reentrant_depth'[k] = 0
      <3>1. reentrant_depth[f] \in 0..current_depth[t]
        BY <2>1, <2>2 DEF StackOf
      <3>2. reentrant_depth[h] # 0
        BY <1>0, <2>3, <3>1
      <3> QED BY <2>1, <2>2, <2>4, <2>8, <3>2 DEF StackOf
    <2>10. ASSUME NEW k \in Inline(t)'
           PROVE  /\ reentrant_depth'[k] \in 0..current_depth'[t]
                  /\ k \in TopLevel[t] => reentrant_depth'[k] = 0
                  /\ Blocked(k)' => reentrant_depth'[Inner(k)'] = reentrant_depth'[k] + 1
                  /\ reentrant_depth'[k] < current_depth'[t] => Blocked(k)'
      <3>1. k \in Inline(t) /\ k # h
        BY <2>4
      <3>2. /\ reentrant_depth[k] \in 0..current_depth[t] /\ reentrant_depth[k] # current_depth[t]
            /\ k \in TopLevel[t] => reentrant_depth[k] = 0
            /\ Blocked(k) => reentrant_depth[Inner(k)] = reentrant_depth[k] + 1
        BY <2>1, <2>2, <2>3, <3>1 DEF StackOf
      <3>3. current_depth[t] \in Int /\ current_depth'[t] = current_depth[t] - 1
        BY <1>0, <1>6
      <3>4. reentrant_depth'[k] \in 0..current_depth'[t]
        BY <2>8, <3>2, <3>3
      <3>5. CASE k = f
        BY <2>3, <2>5, <2>6, <2>8, <3>1, <3>2, <3>3, <3>4, <3>5
      <3>6. CASE k # f
        BY <2>7, <2>8, <3>1, <3>2, <3>4, <3>6
      <3> QED BY <3>5, <3>6
    <2>11. \A k, j \in Inline(t)' : reentrant_depth'[k] = reentrant_depth'[j] => k = j
      BY <2>1, <2>4, <2>8 DEF StackOf
    <2>12. total_depth'[t] = current_depth'[t] /\ worker_device'[t] # NO_DEVICE
      BY <1>6, <2>1, <2>2, <2>8 DEF StackOf
    <2> QED BY <2>9, <2>10, <2>11, <2>12 DEF StackOf
  <1> QED BY <1>7, <1>8, <1>9, <1>10 DEF DepthInv

LEMMA ReturnToCallerDepth ==
  ASSUME IInv, CountInv, DepthInv, NEW c \in Callers, NEW g \in GraphTasks, ReturnToCaller(c, g)
  PROVE  DepthInv'
  <1> USE DEF Working, Evaluating, Completing
  <1>0. /\ pc \in [Frames -> Labels]
        /\ call \in [GraphTasks -> {"idle", "inline", "handed", "returned", "aborted"}]
        /\ worker_device \in [Threads -> Devices \cup {CPU, NO_DEVICE}]
        /\ current_depth \in [Threads -> Int] /\ reentrant_depth \in [GraphTasks -> Int]
    BY DEF IInv, TypeOK
  <1>1. /\ g \in TopLevel[c] /\ call[g] = "inline" /\ thread[g] = c /\ pc[g] = "left"
        /\ worker_device' = [worker_device EXCEPT ![c] = NO_DEVICE]
        /\ call' = [call EXCEPT ![g] = "returned"] /\ pc' = [pc EXCEPT ![g] = "done"]
        /\ UNCHANGED <<current_depth, total_depth, reentrant_depth, thread, cur>>
    BY DEF ReturnToCaller, DeviceAfter
  <1>2. /\ pc'[g] = "done" /\ \A k \in Frames : k # g => pc'[k] = pc[k]
        /\ call'[g] = "returned" /\ \A k \in GraphTasks : k # g => call'[k] = call[k]
        /\ worker_device'[c] = NO_DEVICE /\ \A d \in Callers : d # c => worker_device'[d] = worker_device[d]
    BY <1>0, <1>1
  <1>3. FramesPlaced'
    <2>1. \A k \in Frames : k # g => \/ pc'[k] = pc[k]
                                     \/ pc[k] = "reenter" /\ pc'[k] \in {"run", "throw"}
      BY <1>2
    <2>2. call[g] # "idle" /\ call'[g] \in {"returned", "aborted"} /\ UNCHANGED <<thread, cur>>
      BY <1>1, <1>2
    <2>3. pc'[g] = "done" /\ \A k \in GraphTasks : k # g => call'[k] = call[k]
      BY <1>2
    <2> QED BY <2>1, <2>2, <2>3, ReturnPlaces
  <1>4. ASSUME NEW d \in Callers, d # c PROVE StackOf(d)'
    BY <1>1, <1>2, <1>4, ReturnElsewhere
  <1>5. StackOf(c)'
    <2>1. StackOf(c) /\ g \in Inline(c)
      BY <1>1 DEF DepthInv, Inline
    <2>2. ~Blocked(g)
      BY <1>1 DEF Blocked
    <2>3. reentrant_depth[g] = 0 /\ current_depth[c] = 0
      BY <1>1, <2>1, <2>2, LastFrame DEF StackOf
    <2>4. Inline(c) = {g}
      BY <2>1, <2>3 DEF StackOf
    <2>5. Inline(c)' = {}
      BY <1>1, <1>2, <2>4 DEF Inline
    <2>6. current_depth'[c] = 0 /\ total_depth'[c] = 0 /\ worker_device'[c] = NO_DEVICE
      BY <1>1, <1>2, <2>1, <2>3 DEF StackOf
    <2> HIDE DEF Inline
    <2> QED BY <2>5, <2>6 DEF StackOf
  <1>6. \A u \in Threads : current_depth'[u] <= MaxDepth
    BY <1>1 DEF DepthInv
  <1> QED BY <1>3, <1>4, <1>5, <1>6 DEF DepthInv

LEMMA InitDepth == Init => DepthInv
  <1> SUFFICES ASSUME Init PROVE DepthInv
    OBVIOUS
  <1>1. \A g \in GraphTasks : call[g] = "idle" /\ pc[g] = "idle"
    BY EngineAssumption DEF Init
  <1>2. \A f \in Frames : pc[f] \in {"idle", "unborn"}
    BY DEF Init
  <1>3. FramesPlaced
    BY <1>1, <1>2 DEF FramesPlaced, Working, Evaluating, Completing
  <1>4. \A c \in Callers : Inline(c) = {}
    BY <1>1 DEF Inline
  <1>5. \A t \in Threads : current_depth[t] = 0 /\ total_depth[t] = 0 /\ worker_device[t] = NO_DEVICE
    BY DEF Init
  <1>6. \A c \in Callers : StackOf(c)
    BY <1>4, <1>5 DEF StackOf
  <1> QED BY <1>3, <1>5, <1>6, EngineAssumption DEF DepthInv

LEMMA NextDepth == IInv /\ CountInv /\ DepthInv /\ [Next]_vars => DepthInv'
  <1> SUFFICES ASSUME IInv, CountInv, DepthInv, [Next]_vars PROVE DepthInv'
    OBVIOUS
  <1>1. ASSUME NEW f \in Frames, FrameStep(f) PROVE DepthInv'
    BY <1>1, NestingFrameSteps, NestingKeptKeeps, ReenterDepth, HandedReturnDepth, InlineReturnDepth
  <1>2. ASSUME NEW g \in GraphTasks, CallStep(g) PROVE DepthInv'
    <2>1. CASE LoopCondition(g) \/ AddThreadPoolTask(g)
      BY <2>1, NestingOtherSteps, NestingKeptKeeps
    <2> QED BY <1>2, <2>1, ReturnToCallerDepth DEF CallStep
  <1>3. CASE \/ \E p \in PoolThreads : PoolStep(p)
             \/ StartStep \/ StopStep \/ UNCHANGED vars
    BY <1>3, NestingOtherSteps, NestingKeptKeeps
  <1> QED BY <1>1, <1>2, <1>3, BackwardDepth DEF Next, Terminating

(* A caller's thread-local state is back to its initial value whenever no   *)
(* backward() of its own is under way, whatever passes nested on its stack, *)
(* returned or failed meanwhile; and no stack holds more nested passes than *)
(* max_recursion_depth_.                                                    *)
THEOREM ThreadStateIsRestored == Spec => []ThreadStateRestored
  <1>1. DepthInv => ThreadStateRestored
    BY OutsideIsEmpty DEF DepthInv, ThreadStateRestored
  <1> QED BY <1>1, InitIInv, NextIInv, InitCounts, NextCounts, InitDepth, NextDepth, PTL DEF Spec

-----------------------------------------------------------------------------
(* The graph.  Every set of numbers has a least one. *)
LEMMA LeastNumber ==
  ASSUME NEW T \in SUBSET Nat, T # {}
  PROVE  \E x \in T : \A y \in T : x <= y
  <1>1. PICK x \in T : \A y \in T : ~(<<y, x>> \in OpToRel(<, Nat))
    BY NatLessThanWellFounded, WFMin
  <1>2. ASSUME NEW y \in T PROVE x <= y
    <2>1. <<y, x>> \in Nat \X Nat
      OBVIOUS
    <2>2. ~(y < x)
      BY <1>1, <2>1 DEF OpToRel
    <2> QED BY <2>2
  <1> QED BY <1>2

(* compute_min_topological_nr is no more than any output's number. *)
LEMMA MinIsLeast ==
  ASSUME NEW outputs \in SUBSET Nodes
  PROVE  /\ MinTopologicalNr(outputs) \in Nat
         /\ \A o \in outputs : MinTopologicalNr(outputs) <= TopologicalNr[o]
  <1>1. CASE outputs = {}
    BY <1>1 DEF MinTopologicalNr
  <1>2. CASE outputs # {}
    <2> DEFINE T == {TopologicalNr[o] : o \in outputs}
    <2>1. T \in SUBSET Nat /\ T # {}
      BY <1>2, GraphAssumption
    <2>2. \E k \in T : \A y \in T : k <= y
      BY <2>1, LeastNumber
    <2>3. \E k \in T : \A o \in outputs : k <= TopologicalNr[o]
      BY <2>2
    <2>4. MinTopologicalNr(outputs) = CHOOSE k \in T : \A o \in outputs : k <= TopologicalNr[o]
      BY <1>2 DEF MinTopologicalNr
    <2>5. MinTopologicalNr(outputs) \in T /\ \A o \in outputs : MinTopologicalNr(outputs) <= TopologicalNr[o]
      BY <2>3, <2>4
    <2> QED BY <2>1, <2>5
  <1> QED BY <1>1, <1>2

(* The next edges of a node lead to older nodes. *)
LEMMA EdgeFacts ==
  ASSUME NEW m \in Nodes, NEW i \in DOMAIN NextEdges[m], NextEdges[m][i] # None
  PROVE  /\ NextEdges[m][i] \in Nodes /\ NextEdges[m][i] \in Children(m)
         /\ TopologicalNr[NextEdges[m][i]] < TopologicalNr[m]
         /\ TopologicalNr[NextEdges[m][i]] \in Nat /\ TopologicalNr[m] \in Nat
         /\ <<m, i>> \in Edges
  <1>1. NextEdges[m] \in Seq(Nodes \cup {None})
    BY GraphAssumption
  <1>2. NextEdges[m][i] \in Nodes
    BY <1>1
  <1>3. <<m, i>> \in Edges
    BY DEF Edges
  <1> QED BY <1>2, <1>3, GraphAssumption DEF Children

(* A node above an expanded one is expanded. *)
LEMMA ParentIsExpanded ==
  ASSUME NEW outputs \in SUBSET Nodes, NEW m \in Nodes, NEW i \in DOMAIN NextEdges[m],
         NextEdges[m][i] # None, Expanded(NextEdges[m][i], outputs)
  PROVE  Expanded(m, outputs)
  <1>1. /\ TopologicalNr[NextEdges[m][i]] < TopologicalNr[m]
        /\ TopologicalNr[NextEdges[m][i]] \in Nat /\ TopologicalNr[m] \in Nat
    BY EdgeFacts
  <1>2. MinTopologicalNr(outputs) \in Nat
    BY MinIsLeast
  <1>3. \A k, a, b \in Nat : a < b /\ a >= k => b >= k
    OBVIOUS
  <1> QED BY <1>1, <1>2, <1>3 DEF Expanded

(* What leads to an output is no older than the oldest output. *)
LEMMA LeadsToIsNewer ==
  ASSUME NEW outputs \in SUBSET Nodes, NEW n \in LeadsTo(outputs)
  PROVE  Expanded(n, outputs)
  <1> DEFINE S == {m \in Nodes : Expanded(m, outputs)}
  <1>1. outputs \subseteq S
    BY MinIsLeast, GraphAssumption DEF Expanded
  <1>2. \A m \in Nodes : Children(m) \cap S # {} => m \in S
    <2> SUFFICES ASSUME NEW m \in Nodes, NEW i \in DOMAIN NextEdges[m],
                        NextEdges[m][i] # None, NextEdges[m][i] \in S
                 PROVE  m \in S
      BY DEF Children
    <2> QED BY ParentIsExpanded
  <1>3. S \in SUBSET Nodes
    OBVIOUS
  <1> QED BY <1>1, <1>2, <1>3 DEF LeadsTo

(* A node that is to be called is expanded. *)
LEMMA NeededIsExpanded ==
  ASSUME NEW g \in GraphTasks, NEW n \in Nodes, n \in NeededOf[g]
  PROVE  Expanded(n, Outputs[g])
  <1>1. Outputs[g] \in SUBSET Nodes
    BY EngineAssumption
  <1>2. CASE Outputs[g] = {}
    BY <1>2, GraphAssumption DEF Expanded, MinTopologicalNr
  <1>3. CASE n \in Outputs[g]
    BY <1>1, <1>3, MinIsLeast, GraphAssumption DEF Expanded
  <1>4. CASE Children(n) \cap LeadsTo(Outputs[g]) # {}
    <2>1. PICK i \in DOMAIN NextEdges[n] :
             NextEdges[n][i] # None /\ NextEdges[n][i] \in LeadsTo(Outputs[g])
      BY <1>4 DEF Children
    <2>2. Expanded(NextEdges[n][i], Outputs[g])
      BY <1>1, <2>1, LeadsToIsNewer
    <2> QED BY <1>1, <2>1, <2>2, ParentIsExpanded
  <1> QED BY <1>2, <1>3, <1>4 DEF NeededOf, NeededNodes

(* The nodes of a graph: its root, and what expanded nodes lead to. *)
LEMMA GraphIsClosed ==
  ASSUME NEW g \in GraphTasks
  PROVE  /\ Root[g] \in NodesOf[g] /\ NodesOf[g] \subseteq Nodes
         /\ \A m \in NodesOf[g] : Expanded(m, Outputs[g]) => Children(m) \subseteq NodesOf[g]
  <1>1. Root[g] \in NodesOf[g] /\ NodesOf[g] \subseteq Nodes
    BY EngineAssumption DEF NodesOf, NodesInGraph
  <1>2. ASSUME NEW m \in NodesOf[g], Expanded(m, Outputs[g]), NEW c \in Children(m)
        PROVE  c \in NodesOf[g]
    <2>1. c \in Nodes
      <3>1. PICK i \in DOMAIN NextEdges[m] : c = NextEdges[m][i] /\ c # None
        BY DEF Children
      <3> QED BY <1>1, <3>1, EdgeFacts
    <2> QED BY <1>2, <2>1 DEF NodesOf, NodesInGraph
  <1> QED BY <1>1, <1>2

(* An edge of a called node of the graph is an edge of the graph. *)
LEMMA CalledEdge ==
  ASSUME NEW g \in GraphTasks, NEW m \in Nodes, m \in NodesOf[g], m \in NeededOf[g],
         NEW i \in DOMAIN NextEdges[m], NextEdges[m][i] # None
  PROVE  /\ <<m, i>> \in InEdgesOf[g][NextEdges[m][i]]
         /\ NextEdges[m][i] \in NodesOf[g]
  <1>1. Expanded(m, Outputs[g])
    BY NeededIsExpanded
  <1>2. <<m, i>> \in GraphOf[g]
    BY <1>1, EdgeFacts DEF GraphOf, GraphEdges, NodesOf
  <1>3. <<m, i>> \in InEdgesOf[g][NextEdges[m][i]]
    BY <1>2, EdgeFacts DEF InEdgesOf
  <1> QED BY <1>1, <1>3, GraphIsClosed, EdgeFacts

LEMMA InEdgesFinite ==
  ASSUME NEW g \in GraphTasks, NEW n \in Nodes
  PROVE  /\ IsFiniteSet(InEdgesOf[g][n]) /\ Cardinality(InEdgesOf[g][n]) \in Nat
         /\ DepsOf[g][n] = Cardinality(InEdgesOf[g][n])
  <1>1. InEdgesOf[g][n] \in SUBSET Edges
    BY DEF InEdgesOf, GraphOf, GraphEdges
  <1>2. IsFiniteSet(InEdgesOf[g][n]) /\ Cardinality(InEdgesOf[g][n]) \in Nat
    BY <1>1, EdgesFinite, FS_Subset, FS_CardinalityType
  <1> QED BY <1>2 DEF DepsOf, Dependencies, InEdgesOf, GraphOf

-----------------------------------------------------------------------------
(* The task of node n of g waits in a queue; frame f has it.  A frame at an *)
(* early control point has not called the node's function yet.              *)
Waiting(g, n) == \E q \in Queues : NodeTask(g, n) \in heap[q]
Held(f, g, n) == cur[f] = NodeTask(g, n)
Early == {"got", "run", "reenter"}

(* The engine passes over an edge to n: neither needed nor captured *)
Skipped(g, n) == Outputs[g] # {} /\ n \notin ExecuteOf[g]

(* A task with a function has no sender. *)
Shape ==
    /\ \A q \in Queues : \A t \in heap[q] : t.fn # None => t.from = None
    /\ \A f \in Frames : cur[f] # None /\ cur[f].fn # None => cur[f].from = None

(* A node's task is made when its last dependency is met, waits in one      *)
(* queue or is with one frame, and its function runs once.                  *)
Once ==
    \A g \in GraphTasks, n \in Nodes :
        /\ Waiting(g, n) => n \notin evaluated[g]
        /\ n \in evaluated[g] => dependencies[g][n] = 0
        /\ \A f \in Frames : Held(f, g, n) =>
              /\ ~Waiting(g, n) /\ dependencies[g][n] = 0
              /\ pc[f] \in Early => n \notin evaluated[g]
              /\ pc[f] = "edges" => n \in evaluated[g]
              /\ \A k \in Frames : Held(k, g, n) => k = f

(* The dependency count and the gradients in the buffer add up. *)
Arrivals ==
    \A g \in GraphTasks, n \in Nodes :
        /\ call[g] = "idle" => n \notin not_ready[g] /\ inputs[g][n] = {} /\ n \notin evaluated[g]
        /\ n \in not_ready[g] => ~Skipped(g, n) /\ dependencies[g][n] # 0
        /\ inputs[g][n] \subseteq InEdgesOf[g][n]
        /\ call[g] # "idle" /\ ~Skipped(g, n) =>
              dependencies[g][n] + Cardinality(inputs[g][n]) = Cardinality(InEdgesOf[g][n])

(* A gradient in a buffer comes from an edge whose turn has passed. *)
EdgeOrder ==
    \A g \in GraphTasks, n \in Nodes : \A e \in inputs[g][n] :
        /\ e[1] \in evaluated[g]
        /\ \A f \in Frames : Held(f, g, e[1]) /\ pc[f] = "edges" => e[2] < edge[f]

(* Only nodes of the graph that are to be executed, and the root, are       *)
(* queued, and only nodes that are needed are called.                       *)
InGraph ==
    \A g \in GraphTasks, n \in Nodes :
        /\ Waiting(g, n) => n \in NodesOf[g] /\ (n = Root[g] \/ ~Skipped(g, n))
        /\ \A f \in Frames : Held(f, g, n) =>
              /\ n \in NodesOf[g] /\ (n = Root[g] \/ ~Skipped(g, n))
              /\ pc[f] \in Evaluating => n \in NeededOf[g]
        /\ n \in evaluated[g] => n \in NodesOf[g] /\ n \in NeededOf[g]

FlowInv == Shape /\ Once /\ Arrivals /\ EdgeOrder /\ InGraph

-----------------------------------------------------------------------------
(* A task with a function is the task of its node. *)
LEMMA TaskOfNode ==
  ASSUME NEW t \in NodeTasks, t.fn # None, t.from = None
  PROVE  t = NodeTask(t.gt, t.fn) /\ t.gt \in GraphTasks /\ t.fn \in Nodes
  BY DEF NodeTasks, NodeTask

LEMMA NodeTaskFacts ==
  ASSUME NEW g \in GraphTasks, NEW n \in Nodes
  PROVE  /\ NodeTask(g, n) \in NodeTasks /\ NodeTask(g, n) # None /\ NodeTask(g, n) # ShutdownTask
         /\ NodeTask(g, n).gt = g /\ NodeTask(g, n).fn = n /\ NodeTask(g, n).fn # None
         /\ \A h, k : NodeTask(h, k) = NodeTask(g, n) => h = g /\ k = n
         /\ \A h, k : DummyTask(h, k) # NodeTask(g, n)
  <1>1. NodeTask(g, n) \in NodeTasks /\ n # None
    BY GraphAssumption DEF NodeTask, NodeTasks
  <1> QED BY <1>1, ShutdownIsNoTask, NullAssumption DEF NodeTask, DummyTask

(* A frame has one task. *)
LEMMA OneTask ==
  \A f, g, h, n, m : Held(f, g, n) /\ Held(f, h, m) => h = g /\ m = n
  BY DEF Held, NodeTask

(* The frame of an evaluation has the task of its node. *)
LEMMA HeldNode ==
  ASSUME IInv, FlowInv, NEW f \in Frames, pc[f] \in Evaluating
  PROVE  /\ cur[f].gt \in GraphTasks /\ cur[f].fn \in Nodes
         /\ Held(f, cur[f].gt, cur[f].fn) /\ call[cur[f].gt] # "idle"
  <1>1. cur[f] \in NodeTasks /\ cur[f] # None /\ cur[f].gt \in GraphTasks /\ call[cur[f].gt] # "idle"
    BY HeldTask
  <1>2. cur[f].fn \in Nodes
    BY DEF IInv, WellFormed, FrameWellFormed
  <1>3. cur[f].fn # None
    BY <1>2, GraphAssumption
  <1>4. cur[f].from = None
    BY <1>1, <1>3 DEF FlowInv, Shape
  <1> QED BY <1>1, <1>2, <1>3, <1>4, TaskOfNode DEF Held

(* Most steps queue no node, take no node's task and call no function. *)
FrameKept(k) ==
    cur'[k] # None /\ cur'[k].fn # None =>
        /\ cur'[k] = cur[k]
        /\ pc'[k] \in Early => pc[k] \in Early
        /\ pc'[k] = "edges" => pc[k] = "edges" /\ edge[k] <= edge'[k]
        /\ pc'[k] \in Evaluating => pc[k] \in Evaluating \/ cur[k].fn \in NeededOf[cur[k].gt]

FlowKept ==
    /\ UNCHANGED <<dependencies, not_ready, inputs, evaluated>>
    /\ \A g \in GraphTasks : call'[g] = "idle" <=> call[g] = "idle"
    /\ \A q \in Queues : \A t \in heap'[q] : t \in heap[q] \/ t.fn = None
    /\ \A k \in Frames : FrameKept(k)

LEMMA FlowKeptSteps ==
  ASSUME IInv, IInv', FlowInv, FlowKept
  PROVE  FlowInv'
  <1>1. ASSUME NEW g \in GraphTasks, NEW n \in Nodes
        PROVE  Waiting(g, n)' => Waiting(g, n)
    BY NodeTaskFacts DEF FlowKept, Waiting
  <1>2. ASSUME NEW g \in GraphTasks, NEW n \in Nodes, NEW f \in Frames, Held(f, g, n)'
        PROVE  /\ Held(f, g, n)
               /\ pc'[f] \in Early => pc[f] \in Early
               /\ pc'[f] = "edges" => pc[f] = "edges" /\ edge[f] <= edge'[f]
               /\ pc'[f] \in Evaluating => pc[f] \in Evaluating \/ n \in NeededOf[g]
    <2>1. cur'[f] = NodeTask(g, n)
      BY <1>2 DEF Held
    <2>2. cur'[f] # None /\ cur'[f].fn # None /\ cur'[f].gt = g /\ cur'[f].fn = n
      BY <2>1, NodeTaskFacts
    <2> QED BY <2>1, <2>2 DEF FlowKept, FrameKept, Held
  <1>3. Shape'
    BY DEF FlowInv, Shape, FlowKept, FrameKept
  <1>4. Once'
    BY <1>1, <1>2 DEF FlowInv, Once, FlowKept
  <1>5. Arrivals'
    BY DEF FlowInv, Arrivals, FlowKept, Skipped
  <1>6. EdgeOrder'
    <2> SUFFICES ASSUME NEW g \in GraphTasks, NEW n \in Nodes, NEW e \in inputs[g][n]
                 PROVE  /\ e[1] \in evaluated[g]
                        /\ \A f \in Frames : Held(f, g, e[1])' /\ pc'[f] = "edges" => e[2] < edge'[f]
      BY DEF FlowKept, EdgeOrder
    <2>1. e[1] \in evaluated[g]
      BY DEF FlowInv, EdgeOrder
    <2>2. e \in Edges
      BY DEF IInv, TypeOK
    <2>3. e[1] \in Nodes /\ e[2] \in DOMAIN NextEdges[e[1]]
      BY <2>2 DEF Edges
    <2>4. e[2] \in Int
      BY <2>3, GraphAssumption
    <2>5. ASSUME NEW f \in Frames, Held(f, g, e[1])', pc'[f] = "edges" PROVE e[2] < edge'[f]
      <3>1. Held(f, g, e[1]) /\ pc[f] = "edges" /\ edge[f] <= edge'[f]
        BY <1>2, <2>3, <2>5
      <3>2. e[2] < edge[f]
        BY <3>1 DEF FlowInv, EdgeOrder
      <3>3. edge[f] \in Nat /\ edge'[f] \in Nat
        BY DEF IInv, TypeOK
      <3> QED BY <2>4, <3>1, <3>2, <3>3
    <2> QED BY <2>1, <2>5
  <1>7. InGraph'
    BY <1>1, <1>2 DEF FlowInv, InGraph, FlowKept, Skipped
  <1> QED BY <1>3, <1>4, <1>5, <1>6, <1>7 DEF FlowInv

(* The moves of a frame that neither takes a node's task nor evaluates it. *)
Resting == {"loop", "pop", "left", "handoff", "pooled", "starting", "exit"}

FrameMoves(k) ==
    \/ pc'[k] = pc[k] /\ cur'[k] = cur[k]
    \/ cur'[k] = None /\ ((cur[k] = None /\ k \in Devices) \/ pc[k] \in {"check", "wake"})
    \/ cur'[k] # None /\ cur'[k].fn = None /\ pc[k] = "pop" /\ pc'[k] = "got"
    \/ /\ cur'[k] = cur[k]
       /\ \/ pc[k] \in Resting /\ pc'[k] \in Resting \cup {"done", "dead"}
          \/ pc[k] = "reenter" /\ pc'[k] \in {"run", "throw"}
          \/ pc[k] = "run" /\ pc'[k] = "throw"
          \/ pc[k] = "throw" /\ pc'[k] = "exception" /\ has_error'[cur[k].gt]
          \/ pc[k] = "exception" /\ pc'[k] \in {"seterror", "dec"} /\ future_completed'[cur[k].gt]
          \/ pc[k] = "seterror" /\ pc'[k] = "dec"
          \/ pc[k] = "dec" /\ pc'[k] = "check"
          \/ pc[k] = "check" /\ pc'[k] = "mark" /\ outstanding_tasks[cur[k].gt] = 0
          \/ pc[k] = "mark" /\ pc'[k] = "await"
          \/ pc[k] = "mark" /\ pc'[k] = "post" /\ ~future_completed[cur[k].gt]
          \/ pc[k] \in {"await", "post"} /\ pc'[k] = "wake"

(* The same steps' effect on the flags and the future of a graph task *)
FlagMoves(g) ==
    /\ has_error[g] => has_error'[g]
    /\ has_error'[g] => \/ has_error[g]
                        \/ \E k \in Frames : /\ cur[k] # None /\ cur[k].gt = g /\ cur'[k] = cur[k]
                                             /\ pc[k] = "throw" /\ pc'[k] = "exception"
    /\ future_completed[g] => future_completed'[g]
    /\ future_result'[g] # future_result[g] =>
          \E k \in Frames : /\ cur[k] # None /\ cur[k].gt = g
                            /\ \/ pc[k] = "seterror" /\ future_result'[g] = "error"
                               \/ /\ pc[k] = "post"
                                  /\ future_result'[g] = "value" => not_ready[g] = {} /\ ~MoreCallbacks(g)

(* The node that made the call goes on with the inner pass's outcome *)
ReturnsTo(k, g) ==
    /\ pc[k] = "reenter" /\ Inner(k) = g /\ cur'[k] = cur[k]
    /\ pc'[k] = IF future_result[g] = "value" THEN "run" ELSE "throw"
    /\ call'[g] = IF FutureDone(g) THEN "returned" ELSE "aborted"

CallMoves(g) ==
    \/ call'[g] = call[g]
    \/ /\ call[g] \in {"inline", "handed"} /\ call'[g] \in {"returned", "aborted"}
       /\ UNCHANGED futureVars
       /\ \/ \E k \in Frames : ReturnsTo(k, g)
          \/ \E c \in Callers : ReturnToCaller(c, g)

QuietStep ==
    /\ UNCHANGED <<graphVars, evaluated, captured, edge>>
    /\ \A q \in Queues : /\ \A t \in heap'[q] : t \in heap[q] \/ t.fn = None
                         /\ \A t \in heap[q] : t \in heap'[q] \/ t.fn = None
    /\ \A k \in Frames : FrameMoves(k)
    /\ \A g \in GraphTasks : /\ FlagMoves(g) /\ CallMoves(g)
                             /\ thread'[g] = thread[g] \/ Alive(g)

LEMMA QuietFlow ==
  ASSUME IInv, QuietStep
  PROVE  FlowKept
  <1>1. \A k \in Frames : edge[k] \in Nat
    BY DEF IInv, TypeOK
  <1>2. ASSUME NEW k \in Frames PROVE FrameKept(k)
    BY <1>1 DEF QuietStep, FrameMoves, FrameKept, Early, Evaluating, Resting
  <1>3. \A g \in GraphTasks : call'[g] = "idle" <=> call[g] = "idle"
    BY DEF QuietStep, CallMoves
  <1> QED BY <1>2, <1>3 DEF QuietStep, FlowKept

(* A queued task that is no node's. *)
LEMMA QuietPush ==
  ASSUME IInv, NEW u, u.fn = None,
         heap' = heap \/ \E r : heap' = [heap EXCEPT ![r] = @ \cup {u}]
  PROVE  \A q \in Queues : /\ \A t \in heap'[q] : t \in heap[q] \/ t.fn = None
                           /\ \A t \in heap[q] : t \in heap'[q] \/ t.fn = None
  <1>1. heap \in [Queues -> SUBSET (NodeTasks \cup {ShutdownTask})]
    BY DEF IInv, TypeOK
  <1>2. CASE heap' = heap
    BY <1>2
  <1>3. ASSUME NEW r, heap' = [heap EXCEPT ![r] = @ \cup {u}], NEW q \in Queues
        PROVE  heap'[q] = heap[q] \/ heap'[q] = heap[q] \cup {u}
    BY <1>1, <1>3
  <1> QED BY <1>2, <1>3

(* The steps of a frame that are quiet. *)
LEMMA QuietFrameSteps ==
  ASSUME IInv, NEW f \in Frames,
         \/ (f \in GraphTasks /\ LoopCondition(f)) \/ Throw(f) \/ SetHasError(f)
         \/ SetException(f) \/ SetError(f) \/ DecrementOutstanding(f) \/ CheckCompleted(f)
         \/ MarkAsCompleted(f) \/ AwaitFuture(f) \/ RunFinalCallback(f)
         \/ ExecPostProcessing(f) \/ NotifyOwner(f)
  PROVE  QuietStep
  <1>1. /\ UNCHANGED <<graphVars, evaluated, captured, edge, call, thread>>
        /\ heap' = heap \/ \E q : heap' = [heap EXCEPT ![q] = @ \cup {DummyTask(cur[f].gt, f)}]
    <2>1. CASE \/ (f \in GraphTasks /\ LoopCondition(f)) \/ Throw(f) \/ SetHasError(f)
               \/ SetException(f) \/ SetError(f) \/ DecrementOutstanding(f)
      BY <2>1 DEF LoopCondition, Throw, SetHasError, SetException, SetError, DecrementOutstanding
    <2>2. CASE \/ CheckCompleted(f) \/ MarkAsCompleted(f) \/ AwaitFuture(f) \/ RunFinalCallback(f)
               \/ ExecPostProcessing(f)
      BY <2>2 DEF CheckCompleted, MarkAsCompleted, AwaitFuture, RunFinalCallback,
                  ExecPostProcessing, FinishFuture
    <2>3. CASE NotifyOwner(f)
      BY <2>3 DEF NotifyOwner, Push
    <2> QED BY <2>1, <2>2, <2>3
  <1>2. \A q \in Queues : /\ \A t \in heap'[q] : t \in heap[q] \/ t.fn = None
                          /\ \A t \in heap[q] : t \in heap'[q] \/ t.fn = None
    <2>1. DummyTask(cur[f].gt, f).fn = None
      BY DEF DummyTask
    <2> QED BY <1>1, <2>1, QuietPush
  <1>3. \A k \in Frames : k # f => pc'[k] = pc[k] /\ cur'[k] = cur[k]
    <2>1. /\ pc' = pc \/ \E x : pc' = [pc EXCEPT ![f] = x]
          /\ cur' = cur \/ cur' = [cur EXCEPT ![f] = None]
      <3>1. CASE \/ (f \in GraphTasks /\ LoopCondition(f)) \/ Throw(f) \/ SetHasError(f)
                 \/ SetException(f) \/ SetError(f) \/ DecrementOutstanding(f)
        BY <3>1 DEF LoopCondition, Throw, SetHasError, SetException, ClaimFuture, SetError,
                    DecrementOutstanding
      <3>2. CASE \/ CheckCompleted(f) \/ MarkAsCompleted(f) \/ AwaitFuture(f) \/ RunFinalCallback(f)
                 \/ ExecPostProcessing(f) \/ NotifyOwner(f)
        BY <3>2 DEF CheckCompleted, MarkAsCompleted, ClaimFuture, AwaitFuture, RunFinalCallback,
                    ExecPostProcessing, FinishFuture, NotifyOwner
      <3> QED BY <3>1, <3>2
    <2> QED BY <2>1 DEF IInv, TypeOK
  <1>4. FrameMoves(f)
    <2> USE DEF IInv, TypeOK, FrameMoves
    <2>1. CASE f \in GraphTasks /\ LoopCondition(f)
      BY <2>1 DEF LoopCondition, Resting
    <2>2. CASE Throw(f) \/ SetError(f) \/ DecrementOutstanding(f) \/ AwaitFuture(f)
      BY <2>2 DEF Throw, SetError, DecrementOutstanding, AwaitFuture
    <2>6. CASE SetHasError(f)
      <3>1. cur[f].gt \in GraphTasks
        BY <2>6, HeldTask DEF SetHasError, Evaluating
      <3> QED BY <2>6, <3>1 DEF SetHasError
    <2>3. CASE SetException(f) \/ MarkAsCompleted(f)
      <3>1. cur[f].gt \in GraphTasks
        BY <2>3, HeldTask DEF SetException, MarkAsCompleted, Evaluating, Completing
      <3> QED BY <2>3, <3>1 DEF SetException, MarkAsCompleted, ClaimFuture
    <2>4. CASE CheckCompleted(f) \/ NotifyOwner(f)
      BY <2>4 DEF CheckCompleted, NotifyOwner, Completed
    <2>5. CASE RunFinalCallback(f) \/ ExecPostProcessing(f)
      BY <2>5 DEF RunFinalCallback, ExecPostProcessing, FinishFuture
    <2> QED BY <2>1, <2>2, <2>3, <2>4, <2>5, <2>6
  <1>5. ASSUME NEW g \in GraphTasks PROVE FlagMoves(g)
    <2> USE DEF FlagMoves
    <2>1. CASE \/ (f \in GraphTasks /\ LoopCondition(f)) \/ Throw(f) \/ DecrementOutstanding(f)
               \/ CheckCompleted(f) \/ AwaitFuture(f) \/ RunFinalCallback(f) \/ NotifyOwner(f)
      BY <2>1 DEF LoopCondition, Throw, DecrementOutstanding, CheckCompleted, AwaitFuture,
                  RunFinalCallback, NotifyOwner
    <2>2. CASE SetHasError(f)
      <3>1. cur[f] # None /\ pc'[f] = "exception" /\ pc[f] = "throw" /\ cur' = cur
        BY <2>2, HeldTask DEF SetHasError, Evaluating, IInv, TypeOK
      <3>2. has_error' = [has_error EXCEPT ![cur[f].gt] = TRUE] /\ UNCHANGED futureVars
        BY <2>2 DEF SetHasError
      <3> QED BY <3>1, <3>2 DEF IInv, TypeOK
    <2>3. CASE SetException(f) \/ MarkAsCompleted(f)
      <3>1. /\ future_completed' = [future_completed EXCEPT ![cur[f].gt] = TRUE]
            /\ UNCHANGED <<has_error, future_result>>
        BY <2>3 DEF SetException, MarkAsCompleted, ClaimFuture
      <3> QED BY <3>1 DEF IInv, TypeOK
    <2>4. CASE SetError(f)
      <3>1. cur[f] # None /\ pc[f] = "seterror"
        BY <2>4, HeldTask DEF SetError, Evaluating
      <3>2. /\ future_result' = [future_result EXCEPT ![cur[f].gt] = "error"]
            /\ UNCHANGED <<has_error, future_completed>>
        BY <2>4 DEF SetError
      <3> QED BY <3>1, <3>2 DEF IInv, TypeOK
    <2>5. CASE ExecPostProcessing(f)
      <3>1. cur[f] # None /\ pc[f] = "post"
        BY <2>5, HeldTask DEF ExecPostProcessing, Completing
      <3>2. /\ \/ future_result' = [future_result EXCEPT ![cur[f].gt] = "error"]
               \/ /\ not_ready[cur[f].gt] = {} /\ ~MoreCallbacks(cur[f].gt)
                  /\ future_result' = [future_result EXCEPT ![cur[f].gt] = "value"]
            /\ UNCHANGED <<has_error, future_completed>>
        BY <2>5 DEF ExecPostProcessing, FinishFuture
      <3> QED BY <3>1, <3>2 DEF IInv, TypeOK
    <2> QED BY <2>1, <2>2, <2>3, <2>4, <2>5
  <1> QED BY <1>1, <1>2, <1>3, <1>4, <1>5 DEF QuietStep, FrameMoves, CallMoves

(* A call returns. *)
LEMMA QuietReturns ==
  ASSUME IInv,
         \/ \E c \in Callers, g \in GraphTasks : ReturnToCaller(c, g)
         \/ \E f \in Frames : ReturnToParent(f)
  PROVE  QuietStep
  <1>1. ASSUME NEW c \in Callers, NEW g \in GraphTasks, ReturnToCaller(c, g) PROVE QuietStep
    <2>1. /\ UNCHANGED <<graphVars, evaluated, captured, edge, heap, cur, thread, has_error, futureVars>>
          /\ pc[g] = "left" /\ pc' = [pc EXCEPT ![g] = "done"]
          /\ call[g] = "inline" /\ call' = [call EXCEPT ![g] = "returned"]
      BY <1>1 DEF ReturnToCaller
    <2>2. \A h \in GraphTasks : CallMoves(h) /\ FlagMoves(h)
      BY <1>1, <2>1 DEF IInv, TypeOK, CallMoves, FlagMoves
    <2>3. \A k \in Frames : FrameMoves(k)
      BY <2>1 DEF FrameMoves, Resting, IInv, TypeOK
    <2> QED BY <2>1, <2>2, <2>3 DEF QuietStep
  <1>2. ASSUME NEW f \in Frames, ReturnToParent(f) PROVE QuietStep
    <2> DEFINE h == Inner(f)
           x == IF future_result[h] = "value" THEN "run" ELSE "throw"
    <2>1. /\ UNCHANGED <<graphVars, evaluated, captured, edge, heap, cur, thread, has_error, futureVars>>
          /\ pc[f] = "reenter" /\ call[h] \in {"inline", "handed"}
          /\ call' = [call EXCEPT ![h] = IF FutureDone(h) THEN "returned" ELSE "aborted"]
          /\ \/ pc' = [pc EXCEPT ![f] = x]
             \/ pc[h] = "left" /\ pc' = [pc EXCEPT ![f] = x, ![h] = "done"]
      BY <1>2 DEF ReturnToParent, GoesOn
    <2>0. h = Inner(f) /\ x \in {"run", "throw"} /\ x = IF future_result[h] = "value" THEN "run" ELSE "throw"
      OBVIOUS
    <2> HIDE DEF h, x
    <2>2. ASSUME NEW g \in GraphTasks PROVE CallMoves(g) /\ FlagMoves(g)
      <3>1. CASE g # h
        BY <2>1, <3>1 DEF CallMoves, FlagMoves, IInv, TypeOK
      <3>2. CASE g = h
        <4>1. pc'[f] = x
          BY <2>1 DEF IInv, TypeOK
        <4>2. call'[g] = IF FutureDone(g) THEN "returned" ELSE "aborted"
          BY <2>1, <3>2 DEF IInv, TypeOK
        <4>3. ReturnsTo(f, g)
          BY <2>0, <2>1, <3>2, <4>1, <4>2 DEF ReturnsTo
        <4> QED BY <2>1, <3>2, <4>2, <4>3 DEF CallMoves, FlagMoves
      <3> QED BY <3>1, <3>2
    <2>3. ASSUME NEW k \in Frames PROVE FrameMoves(k)
      <3>1. CASE k = f
        BY <2>0, <2>1, <3>1 DEF FrameMoves, IInv, TypeOK
      <3>2. CASE k # f
        BY <2>1, <3>2 DEF FrameMoves, Resting, IInv, TypeOK
      <3> QED BY <3>1, <3>2
    <2> QED BY <2>1, <2>2, <2>3 DEF QuietStep
  <1> QED BY <1>1, <1>2

(* The pool, and the start and the stop of the device threads. *)
LEMMA QuietOtherSteps ==
  ASSUME IInv, CountInv,
         \/ \E g \in GraphTasks : AddThreadPoolTask(g)
         \/ \E p \in PoolThreads : PoolStep(p)
         \/ StartStep \/ StopStep \/ UNCHANGED vars
  PROVE  QuietStep /\ UNCHANGED call
  <1>0. ASSUME UNCHANGED <<call, has_error, futureVars>>, NEW g \in GraphTasks
        PROVE  CallMoves(g) /\ FlagMoves(g)
    BY <1>0 DEF CallMoves, FlagMoves
  <1>1. ASSUME NEW g \in GraphTasks, AddThreadPoolTask(g) PROVE QuietStep /\ UNCHANGED call
    <2>1. /\ UNCHANGED <<graphVars, evaluated, captured, edge, heap, cur, call, has_error, futureVars>>
          /\ pc[g] = "handoff" /\ pc' = [pc EXCEPT ![g] = "pooled"]
      BY <1>1 DEF AddThreadPoolTask
    <2>2. \A k \in Frames : FrameMoves(k)
      BY <2>1 DEF FrameMoves, Resting, IInv, TypeOK
    <2>3. thread' = thread
      BY <1>1 DEF AddThreadPoolTask
    <2> QED BY <1>0, <2>1, <2>2, <2>3 DEF QuietStep
  <1>2. ASSUME NEW p \in PoolThreads, PoolStep(p) PROVE QuietStep /\ UNCHANGED call
    <2>1. UNCHANGED <<graphVars, evaluated, captured, edge, heap, cur, call, has_error, futureVars>>
      BY <1>2 DEF PoolStep, WorkerWait, WorkerTake, WorkerDone
    <2>2. \A k \in Frames : FrameMoves(k)
      <3>1. CASE WorkerWait(p)
        BY <3>1 DEF WorkerWait, FrameMoves
      <3>2. CASE WorkerTake(p)
        <4>1. PICK g \in GraphTasks : pc[g] = "pooled" /\ g = Head(graphtasks_queue)
          <5>1. graphtasks_queue \in Seq(GraphTasks) /\ graphtasks_queue # <<>>
            BY <3>2 DEF WorkerTake, IInv, TypeOK
          <5>2. Head(graphtasks_queue) = graphtasks_queue[1] /\ 1 \in 1..Len(graphtasks_queue)
                /\ graphtasks_queue[1] \in GraphTasks
            BY <5>1
          <5> QED BY <5>2 DEF CountInv, PooledOnce
        <4>2. \E x \in {"loop", "done"} : pc' = [pc EXCEPT ![g] = x]
          BY <3>2, <4>1 DEF WorkerTake
        <4> QED BY <2>1, <4>1, <4>2 DEF FrameMoves, Resting, IInv, TypeOK
      <3>3. ASSUME NEW g \in GraphTasks, WorkerDone(p, g) PROVE \A k \in Frames : FrameMoves(k)
        <4>1. pc[g] = "left" /\ pc' = [pc EXCEPT ![g] = "done"]
          BY <3>3 DEF WorkerDone
        <4> QED BY <2>1, <4>1 DEF FrameMoves, Resting, IInv, TypeOK
      <3> QED BY <1>2, <3>1, <3>2, <3>3 DEF PoolStep
    <2>3. ASSUME NEW g \in GraphTasks PROVE thread'[g] = thread[g] \/ Alive(g)
      BY <1>2 DEF PoolStep, WorkerWait, WorkerTake, WorkerDone, IInv, TypeOK
    <2> QED BY <1>0, <2>1, <2>2, <2>3 DEF QuietStep
  <1>3. CASE StartStep
    <2>1. UNCHANGED <<graphVars, evaluated, captured, edge, heap, cur, call, has_error, futureVars>>
      BY <1>3 DEF StartStep, StartDeviceThreads, ThreadInit, ThreadExit, DeviceThreadsStarted
    <2>2. \A k \in Frames : FrameMoves(k)
      <3>1. CASE StartDeviceThreads
        <4>1. \A g \in GraphTasks : call[g] = "idle"
          BY <3>1 DEF StartDeviceThreads, CountInv, Unstarted
        <4>2. \A k \in Frames : cur[k] = None
          BY <4>1 DEF IInv, TypeOK, NodeTasks, WellFormed, FrameWellFormed
        <4> QED BY <2>1, <3>1, <4>2 DEF FrameMoves, StartDeviceThreads
      <3>2. CASE DeviceThreadsStarted
        BY <3>2 DEF DeviceThreadsStarted, FrameMoves
      <3>3. ASSUME NEW d \in Devices, ThreadInit(d) \/ ThreadExit(d) PROVE \A k \in Frames : FrameMoves(k)
        <4>1. pc[d] \in {"starting", "exit"} /\ \E x \in {"pop", "dead"} : pc' = [pc EXCEPT ![d] = x]
          BY <3>3 DEF ThreadInit, ThreadExit
        <4> QED BY <2>1, <4>1 DEF FrameMoves, Resting, IInv, TypeOK
      <3> QED BY <1>3, <3>1, <3>2, <3>3 DEF StartStep
    <2>3. thread' = thread
      BY <1>3 DEF StartStep, StartDeviceThreads, ThreadInit, ThreadExit, DeviceThreadsStarted
    <2> QED BY <1>0, <2>1, <2>2, <2>3 DEF QuietStep
  <1>4. CASE StopStep
    <2>1. /\ UNCHANGED <<graphVars, evaluated, captured, edge, cur, call, pc, thread, has_error, futureVars>>
          /\ heap' = heap \/ \E d \in Devices : heap' = [heap EXCEPT ![d] = @ \cup {ShutdownTask}]
      BY <1>4 DEF StopStep, Stop, StopWait, StopCheck, PushShutdownTask
    <2>2. ShutdownTask.fn = None
      BY DEF ShutdownTask
    <2>3. \A q \in Queues : /\ \A t \in heap'[q] : t \in heap[q] \/ t.fn = None
                            /\ \A t \in heap[q] : t \in heap'[q] \/ t.fn = None
      BY <2>1, <2>2, QuietPush
    <2> QED BY <1>0, <2>1, <2>3 DEF QuietStep, FrameMoves
  <1>5. CASE UNCHANGED vars
    BY <1>0, <1>5 DEF vars, QuietStep, FrameMoves
  <1> QED BY <1>1, <1>2, <1>3, <1>4, <1>5

-----------------------------------------------------------------------------
(* A frame takes the task of a node. *)
TakesNode(f, g, n) ==
    /\ pc[f] = "pop" /\ pc'[f] = "got" /\ cur'[f] = NodeTask(g, n)
    /\ \A k \in Frames : k # f => pc'[k] = pc[k] /\ cur'[k] = cur[k]
    /\ UNCHANGED <<graphVars, evaluated, captured, edge, call, thread, has_error, futureVars, callbackVars>>
    /\ Waiting(g, n) /\ ~Waiting(g, n)'
    /\ \A q \in Queues : /\ \A t \in heap'[q] : t \in heap[q]
                         /\ \A t \in heap[q] : t \in heap'[q] \/ t = NodeTask(g, n)

LEMMA PopEffect ==
  ASSUME IInv, CountInv, Shape, NEW f \in Frames, Pop(f)
  PROVE  QuietStep \/ \E g \in GraphTasks, n \in Nodes : TakesNode(f, g, n)
  <1>1. /\ pc[f] = "pop"
        /\ UNCHANGED <<graphVars, evaluated, captured, edge, call, thread, has_error, futureVars, callbackVars>>
    BY DEF Pop
  <1>2. PICK q \in Queues : q = local_ready_queue[thread[f]]
    BY <1>1, FrameFacts DEF Working
  <1>3. PICK t \in heap[q] :
            /\ heap' = [heap EXCEPT ![q] = @ \ {t}]
            /\ IF t = ShutdownTask
                 THEN /\ pc' = [pc EXCEPT ![f] = IF f \in Devices THEN "exit" ELSE "left"]
                      /\ cur' = cur
                 ELSE cur' = [cur EXCEPT ![f] = t] /\ pc' = [pc EXCEPT ![f] = "got"]
    BY <1>2 DEF Pop
  <1>4. t # ShutdownTask => t \in NodeTasks /\ t # None
    BY NullAssumption DEF IInv, TypeOK
  <1>5. /\ \A k \in Frames : k # f => pc'[k] = pc[k] /\ cur'[k] = cur[k]
        /\ IF t = ShutdownTask THEN pc'[f] \in {"exit", "left"} /\ cur'[f] = cur[f]
                               ELSE pc'[f] = "got" /\ cur'[f] = t
    BY <1>3 DEF IInv, TypeOK
  <1>6. \A r \in Queues : \A u : u \in heap'[r] <=> u \in heap[r] /\ ~(r = q /\ u = t)
    BY <1>3 DEF IInv, TypeOK
  <1>7. ShutdownTask.fn = None
    BY DEF ShutdownTask
  <1>8. CASE t.fn = None
    <2>1. \A k \in Frames : FrameMoves(k)
      BY <1>1, <1>4, <1>5, <1>8 DEF FrameMoves, Resting
    <2>2. \A r \in Queues : /\ \A u \in heap'[r] : u \in heap[r] \/ u.fn = None
                            /\ \A u \in heap[r] : u \in heap'[r] \/ u.fn = None
      BY <1>6, <1>8
    <2> QED BY <1>1, <2>1, <2>2 DEF QuietStep, CallMoves, FlagMoves
  <1>9. CASE t.fn # None
    <2>0. t # ShutdownTask
      BY <1>7, <1>9
    <2>1. t = NodeTask(t.gt, t.fn) /\ t.gt \in GraphTasks /\ t.fn \in Nodes
      BY <1>4, <1>9, <2>0, TaskOfNode DEF Shape
    <2>2. PICK g \in GraphTasks, n \in Nodes : t = NodeTask(g, n)
      BY <2>1
    <2>3. Waiting(g, n)
      BY <2>2 DEF Waiting
    <2>4. ~Waiting(g, n)'
      BY <1>6, <2>0, <2>2 DEF Waiting, CountInv, OneQueue
    <2>5. TakesNode(f, g, n)
      BY <1>1, <1>5, <1>6, <2>0, <2>2, <2>3, <2>4 DEF TakesNode
    <2> QED BY <2>5
  <1> QED BY <1>8, <1>9

LEMMA TakesFlow ==
  ASSUME IInv, CountInv, FlowInv, NEW f \in Frames, NEW g \in GraphTasks, NEW n \in Nodes,
         TakesNode(f, g, n)
  PROVE  FlowInv'
  <1>1. ASSUME NEW h \in GraphTasks, NEW m \in Nodes PROVE Waiting(h, m)' => Waiting(h, m)
    BY DEF TakesNode, Waiting
  <1>2. ASSUME NEW h \in GraphTasks, NEW m \in Nodes, NEW k \in Frames, Held(k, h, m)'
        PROVE  \/ k = f /\ h = g /\ m = n
               \/ k # f /\ Held(k, h, m) /\ pc'[k] = pc[k]
    <2>1. CASE k = f
      BY <1>2, <2>1, NodeTaskFacts DEF TakesNode, Held
    <2>2. CASE k # f
      BY <1>2, <2>2 DEF TakesNode, Held
    <2> QED BY <2>1, <2>2
  <1>3. dependencies[g][n] = 0
    BY DEF TakesNode, Waiting, CountInv, QueuedIsReady
  <1>4. pc'[f] = "got" /\ n \notin evaluated[g] /\ Waiting(g, n) /\ ~Waiting(g, n)'
        /\ \A k \in Frames : ~Held(k, g, n)
    BY DEF TakesNode, FlowInv, Once
  <1>5. UNCHANGED <<graphVars, evaluated, edge, call>>
    BY DEF TakesNode
  <1>6. Shape'
    <2>1. NodeTask(g, n).from = None
      BY DEF NodeTask
    <2> QED BY <2>1 DEF FlowInv, Shape, TakesNode
  <1>7. Once'
    BY <1>1, <1>2, <1>3, <1>4, <1>5 DEF FlowInv, Once
  <1>8. Arrivals'
    BY <1>5 DEF FlowInv, Arrivals, Skipped
  <1>9. EdgeOrder'
    <2>1. \A h \in GraphTasks, m \in Nodes : \A e \in inputs[h][m] : e[1] \in Nodes
      BY DEF FlowInv, EdgeOrder, IInv, TypeOK
    <2> QED BY <1>2, <1>4, <1>5, <2>1 DEF FlowInv, EdgeOrder
  <1>10. InGraph'
    BY <1>1, <1>2, <1>4, <1>5 DEF FlowInv, InGraph, Skipped, Evaluating
  <1> QED BY <1>6, <1>7, <1>8, <1>9, <1>10 DEF FlowInv

(* Only a node that is needed is called. *)
LEMMA BeginFlow ==
  ASSUME IInv, NEW f \in Frames, Begin(f)
  PROVE  FlowKept
  <1>1. pc[f] = "got" /\ UNCHANGED <<dependencies, not_ready, inputs, evaluated, call, heap, edge>>
    BY DEF Begin
  <1>2. PICK g \in GraphTasks : g = cur[f].gt /\ cur[f] # None
    BY <1>1, HeldTask
  <1>3. \/ /\ cur' = [cur EXCEPT ![f] = None]
           /\ pc' = [pc EXCEPT ![f] = LoopHead(f)]
        \/ /\ cur' = cur
           /\ \E x \in {"run", "dec"} : pc' = [pc EXCEPT ![f] = x] /\ (x = "run" => cur[f].fn \in NeededOf[g])
    BY <1>2 DEF Begin, IsCalled
  <1>4. ASSUME NEW k \in Frames PROVE FrameKept(k)
    <2>0. edge[k] \in Nat
      BY DEF IInv, TypeOK
    <2>1. CASE k # f
      BY <1>1, <1>3, <2>0, <2>1 DEF FrameKept, IInv, TypeOK
    <2>2. CASE k = f
      BY <1>1, <1>2, <1>3, <2>2 DEF FrameKept, IInv, TypeOK, Early, Evaluating
    <2> QED BY <2>1, <2>2
  <1> QED BY <1>1, <1>4 DEF FlowKept

(* A node's function is called by the frame that has its task. *)
LEMMA CallFunctionEffect ==
  ASSUME IInv, FlowInv, NEW f \in Frames, CallFunction(f)
  PROVE  \E g \in GraphTasks, n \in Nodes :
            /\ Held(f, g, n) /\ pc[f] = "run" /\ call[g] # "idle"
            /\ evaluated' = [evaluated EXCEPT ![g] = @ \cup {n}]
            /\ UNCHANGED <<outerVars, outstanding_tasks, has_error, futureVars, graphVars, captured,
                           callbacks_run, heap, cur>>
            /\ \A k \in Frames : k # f => pc'[k] = pc[k] /\ edge'[k] = edge[k]
            /\ edge'[f] = 1
            /\ pc'[f] = IF Len(NextEdges[n]) = 0 THEN "dec" ELSE "edges"
            /\ Reenters[g][n] # None => call[Reenters[g][n]] = "returned"
  <1>1. pc[f] = "run"
    BY DEF CallFunction
  <1>2. PICK g \in GraphTasks, n \in Nodes :
           g = cur[f].gt /\ n = cur[f].fn /\ Held(f, g, n) /\ call[g] # "idle"
    BY <1>1, HeldNode DEF Evaluating
  <1>3. /\ edge' = [edge EXCEPT ![f] = 1]
        /\ pc' = [pc EXCEPT ![f] = IF Len(NextEdges[n]) = 0 THEN "dec" ELSE "edges"]
        /\ evaluated' = [evaluated EXCEPT ![g] = @ \cup {n}]
        /\ UNCHANGED <<outerVars, outstanding_tasks, has_error, futureVars, graphVars, captured,
                       callbacks_run, heap, cur>>
        /\ Reenters[g][n] # None => call[Reenters[g][n]] = "returned"
    BY <1>2 DEF CallFunction, Inner
  <1>4. /\ \A k \in Frames : k # f => pc'[k] = pc[k] /\ edge'[k] = edge[k]
        /\ edge'[f] = 1
        /\ pc'[f] = IF Len(NextEdges[n]) = 0 THEN "dec" ELSE "edges"
    BY <1>3 DEF IInv, TypeOK
  <1> QED BY <1>1, <1>2, <1>3, <1>4

LEMMA CallFunctionFlow ==
  ASSUME IInv, FlowInv, NEW f \in Frames, CallFunction(f)
  PROVE  FlowInv'
  <1>1. PICK g \in GraphTasks, n \in Nodes :
            /\ Held(f, g, n) /\ pc[f] = "run" /\ call[g] # "idle"
            /\ evaluated' = [evaluated EXCEPT ![g] = @ \cup {n}]
            /\ UNCHANGED <<graphVars, heap, cur, call>>
            /\ \A k \in Frames : k # f => pc'[k] = pc[k] /\ edge'[k] = edge[k]
            /\ pc'[f] \in {"dec", "edges"}
    BY CallFunctionEffect
  <1>2. \A h \in GraphTasks, m \in Nodes : m \in evaluated'[h] <=> m \in evaluated[h] \/ (h = g /\ m = n)
    BY <1>1 DEF IInv, TypeOK
  <1>3. \A h \in GraphTasks, m \in Nodes : Waiting(h, m)' <=> Waiting(h, m)
    BY <1>1 DEF Waiting
  <1>4. \A h \in GraphTasks, m \in Nodes, k \in Frames : Held(k, h, m)' <=> Held(k, h, m)
    BY <1>1 DEF Held
  <1>5. /\ n \notin evaluated[g] /\ ~Waiting(g, n) /\ dependencies[g][n] = 0
        /\ \A k \in Frames : Held(k, g, n) => k = f
        /\ n \in NodesOf[g] /\ n \in NeededOf[g]
    BY <1>1 DEF FlowInv, Once, InGraph, Early, Evaluating
  <1>6. \A h \in GraphTasks, m \in Nodes : Held(f, h, m) => h = g /\ m = n
    BY <1>1, OneTask
  <1>7. Shape'
    BY <1>1 DEF FlowInv, Shape
  <1>8. Once'
    <2> SUFFICES ASSUME NEW h \in GraphTasks, NEW m \in Nodes
                 PROVE  /\ Waiting(h, m) => m \notin evaluated'[h]
                        /\ m \in evaluated'[h] => dependencies[h][m] = 0
                        /\ \A k \in Frames : Held(k, h, m) =>
                              /\ ~Waiting(h, m) /\ dependencies[h][m] = 0
                              /\ pc'[k] \in Early => m \notin evaluated'[h]
                              /\ pc'[k] = "edges" => m \in evaluated'[h]
                              /\ \A j \in Frames : Held(j, h, m) => j = k
      BY <1>1, <1>3, <1>4 DEF Once
    <2> QED BY <1>1, <1>2, <1>5, <1>6 DEF FlowInv, Once, Early
  <1>9. Arrivals'
    <2>1. \A h \in GraphTasks, m \in Nodes : call[h] = "idle" => (m \in evaluated'[h] <=> m \in evaluated[h])
      BY <1>1, <1>2
    <2> QED BY <1>1, <2>1 DEF FlowInv, Arrivals, Skipped
  <1>10. EdgeOrder'
    <2> SUFFICES ASSUME NEW h \in GraphTasks, NEW m \in Nodes, NEW e \in inputs[h][m]
                 PROVE  /\ e[1] \in evaluated'[h]
                        /\ \A k \in Frames : Held(k, h, e[1]) /\ pc'[k] = "edges" => e[2] < edge'[k]
      BY <1>1 DEF EdgeOrder, Held
    <2>1. e[1] \in evaluated[h] /\ e[1] \in Nodes
      BY DEF FlowInv, EdgeOrder, IInv, TypeOK
    <2>2. ASSUME NEW k \in Frames, Held(k, h, e[1]), pc'[k] = "edges" PROVE e[2] < edge'[k]
      <3>1. k # f
        BY <1>5, <1>6, <2>1, <2>2
      <3> QED BY <1>1, <2>2, <3>1 DEF FlowInv, EdgeOrder
    <2> QED BY <1>2, <2>1, <2>2
  <1>11. InGraph'
    <2>1. ASSUME NEW h \in GraphTasks, NEW m \in Nodes, NEW k \in Frames, Held(k, h, m), pc'[k] \in Evaluating
          PROVE  m \in NeededOf[h]
      BY <1>1, <1>5, <1>6, <2>1 DEF FlowInv, InGraph
    <2> QED BY <1>2, <1>3, <1>4, <1>5, <2>1 DEF FlowInv, InGraph, Skipped
  <1> QED BY <1>7, <1>8, <1>9, <1>10, <1>11 DEF FlowInv

-----------------------------------------------------------------------------
(* A gradient flows along edge i of node m to node n. *)
Flows(f, g, m, i, n) ==
    /\ Held(f, g, m) /\ pc[f] = "edges" /\ edge[f] = i /\ n = NextEdges[m][i]
    /\ call[g] # "idle" /\ dependencies[g][n] # 0
    /\ UNCHANGED <<outerVars, evaluated, captured, has_error, futureVars, callbackVars, cur>>
    /\ \A k \in Frames : k # f => pc'[k] = pc[k] /\ edge'[k] = edge[k]
    /\ edge'[f] = i + 1
    /\ pc'[f] = IF i = Len(NextEdges[m]) THEN "dec" ELSE "edges"
    /\ dependencies'[g][n] = dependencies[g][n] - 1
    /\ \A h \in GraphTasks, k \in Nodes :
          ~(h = g /\ k = n) => /\ dependencies'[h][k] = dependencies[h][k]
                               /\ inputs'[h][k] = inputs[h][k]
                               /\ k \in not_ready'[h] <=> k \in not_ready[h]
    /\ IF Skipped(g, n)
         THEN UNCHANGED <<not_ready, inputs, heap>>
         ELSE /\ inputs'[g][n] = inputs[g][n] \cup {<<m, i>>}
              /\ n \in not_ready'[g] <=> dependencies'[g][n] # 0
              /\ \A q \in Queues : /\ \A t \in heap[q] : t \in heap'[q]
                                   /\ \A t \in heap'[q] : t \in heap[q] \/ t = NodeTask(g, n)
              /\ Waiting(g, n)' <=> dependencies'[g][n] = 0

LEMMA PropagateEffect ==
  ASSUME IInv, CountInv, FlowInv, NEW f \in Frames, PropagateEdge(f)
  PROVE  \/ /\ FlowKept
            /\ UNCHANGED <<outerVars, captured, has_error, futureVars, callbackVars, cur, heap,
                           outstanding_tasks>>
            /\ \A k \in Frames : k # f => pc'[k] = pc[k] /\ edge'[k] = edge[k]
            /\ \E g \in GraphTasks, m \in Nodes :
                  /\ Held(f, g, m) /\ pc[f] = "edges" /\ edge[f] \in DOMAIN NextEdges[m]
                  /\ \/ /\ pc'[f] = "throw" /\ edge'[f] = edge[f]
                     \/ /\ NextEdges[m][edge[f]] = None /\ edge'[f] = edge[f] + 1
                        /\ pc'[f] = IF edge[f] = Len(NextEdges[m]) THEN "dec" ELSE "edges"
         \/ \E g \in GraphTasks, m, n \in Nodes : \E i \in DOMAIN NextEdges[m] : Flows(f, g, m, i, n)
  <1>1. /\ pc[f] = "edges"
        /\ UNCHANGED <<outerVars, evaluated, captured, has_error, futureVars, callbackVars, cur>>
    BY DEF PropagateEdge
  <1>2. PICK g \in GraphTasks, m \in Nodes :
           g = cur[f].gt /\ m = cur[f].fn /\ Held(f, g, m) /\ call[g] # "idle"
    BY <1>1, HeldNode DEF Evaluating
  <1>3. PICK i \in 1..Len(NextEdges[m]) : i = edge[f]
    BY <1>1, <1>2 DEF IInv, WellFormed, FrameWellFormed
  <1>4. NextEdges[m] \in Seq(Nodes \cup {None})
    BY GraphAssumption
  <1>5. PICK n \in Nodes \cup {None} : n = NextEdges[m][i] /\ i \in DOMAIN NextEdges[m]
    BY <1>3, <1>4
  <1>6. CASE n # None /\ dependencies[g][n] # 0
    <2>1. /\ PropagateTo(g, <<m, i>>, n)
          /\ pc' = [pc EXCEPT ![f] = IF i = Len(NextEdges[m]) THEN "dec" ELSE "edges"]
          /\ edge' = [edge EXCEPT ![f] = i + 1]
      BY <1>2, <1>3, <1>5, <1>6 DEF PropagateEdge
    <2>2. n \in Nodes
      BY <1>6
    <2>3. /\ \A k \in Frames : k # f => pc'[k] = pc[k] /\ edge'[k] = edge[k]
          /\ edge'[f] = i + 1
          /\ pc'[f] = IF i = Len(NextEdges[m]) THEN "dec" ELSE "edges"
      BY <2>1 DEF IInv, TypeOK
    <2>4. /\ dependencies'[g][n] = dependencies[g][n] - 1
          /\ \A h \in GraphTasks, k \in Nodes :
                ~(h = g /\ k = n) => dependencies'[h][k] = dependencies[h][k]
      <3>1. dependencies' = [dependencies EXCEPT ![g][n] = @ - 1]
        BY <2>1 DEF PropagateTo
      <3> QED BY <2>2, <3>1 DEF IInv, TypeOK
    <2>5. dependencies[g][n] \in Nat
      BY <2>2 DEF IInv, TypeOK
    <2>6. SkipNode(g, n) <=> Skipped(g, n)
      BY <2>2 DEF SkipNode, Skipped, FlowInv, Arrivals
    <2>7. CASE Skipped(g, n)
      <3>1. UNCHANGED <<not_ready, inputs, heap>>
        BY <2>1, <2>6, <2>7 DEF PropagateTo
      <3>2. Flows(f, g, m, i, n)
        BY <1>1, <1>2, <1>3, <1>5, <1>6, <2>3, <2>4, <2>7, <3>1 DEF Flows
      <3> QED BY <1>5, <2>2, <3>2
    <2>8. CASE ~Skipped(g, n)
      <3>1. inputs' = [inputs EXCEPT ![g][n] = @ \cup {<<m, i>>}]
        BY <2>1, <2>6, <2>8 DEF PropagateTo
      <3>2. /\ inputs'[g][n] = inputs[g][n] \cup {<<m, i>>}
            /\ \A h \in GraphTasks, k \in Nodes : ~(h = g /\ k = n) => inputs'[h][k] = inputs[h][k]
        BY <2>2, <3>1 DEF IInv, TypeOK
      <3>3. \A q \in Queues : NodeTask(g, n) \notin heap[q]
        BY <1>6, <2>2 DEF CountInv, QueuedIsReady
      <3>4. CASE IsReady(g, n)
        <4>1. dependencies'[g][n] = 0
          BY <2>4, <2>5, <3>4 DEF IsReady
        <4>2. not_ready' = [not_ready EXCEPT ![g] = @ \ {n}]
          BY <2>1, <2>6, <2>8, <3>4 DEF PropagateTo
        <4>3. PICK q \in Queues : Push(q, NodeTask(g, n))
          BY <1>2, <2>1, <2>2, <2>6, <2>8, <3>4, QueueExists DEF PropagateTo
        <4>4. NodeTask(g, n) \in NodeTasks
          BY <2>2, NodeTaskFacts
        <4>5. \A r \in Queues : \A u : u \in heap'[r] <=> u \in heap[r] \/ (u = NodeTask(g, n) /\ r = q)
          BY <3>3, <4>3, <4>4, PushCounts DEF IInv, CountInv
        <4>6. Waiting(g, n)'
          BY <4>5 DEF Waiting
        <4>7. /\ n \notin not_ready'[g]
              /\ \A h \in GraphTasks, k \in Nodes :
                    ~(h = g /\ k = n) => (k \in not_ready'[h] <=> k \in not_ready[h])
          BY <4>2 DEF IInv, TypeOK
        <4>8. \A r \in Queues : /\ \A t \in heap[r] : t \in heap'[r]
                                /\ \A t \in heap'[r] : t \in heap[r] \/ t = NodeTask(g, n)
          BY <4>5
        <4>9. Waiting(g, n)' <=> dependencies'[g][n] = 0
          BY <4>1, <4>6
        <4>10. n \in not_ready'[g] <=> dependencies'[g][n] # 0
          BY <4>1, <4>7
        <4>11. \A h \in GraphTasks, k \in Nodes :
                  ~(h = g /\ k = n) => /\ dependencies'[h][k] = dependencies[h][k]
                                       /\ inputs'[h][k] = inputs[h][k]
                                       /\ k \in not_ready'[h] <=> k \in not_ready[h]
          BY <2>4, <3>2, <4>7
        <4>12. Flows(f, g, m, i, n)
          BY <1>1, <1>2, <1>3, <1>5, <1>6, <2>3, <2>4, <2>8, <3>2, <4>8, <4>9, <4>10, <4>11 DEF Flows
        <4> QED BY <1>5, <2>2, <4>12
      <3>5. CASE ~IsReady(g, n)
        <4>1. dependencies'[g][n] # 0
          BY <1>6, <2>4, <2>5, <3>5 DEF IsReady
        <4>2. not_ready' = [not_ready EXCEPT ![g] = @ \cup {n}] /\ heap' = heap
          BY <2>1, <2>6, <2>8, <3>5 DEF PropagateTo
        <4>3. ~Waiting(g, n)'
          BY <3>3, <4>2 DEF Waiting
        <4>4. /\ n \in not_ready'[g]
              /\ \A h \in GraphTasks, k \in Nodes :
                    ~(h = g /\ k = n) => (k \in not_ready'[h] <=> k \in not_ready[h])
          BY <4>2 DEF IInv, TypeOK
        <4>5. Flows(f, g, m, i, n)
          BY <1>1, <1>2, <1>3, <1>5, <1>6, <2>3, <2>4, <2>8, <3>2, <4>1, <4>2, <4>3, <4>4 DEF Flows
        <4> QED BY <1>5, <2>2, <4>5
      <3> QED BY <3>4, <3>5
    <2> QED BY <2>7, <2>8
  <1>7. CASE n = None \/ dependencies[g][n] = 0
    <2>1. /\ UNCHANGED <<graphVars, heap, outstanding_tasks>>
          /\ \/ pc' = [pc EXCEPT ![f] = "throw"] /\ edge' = edge
             \/ /\ n = None /\ edge' = [edge EXCEPT ![f] = i + 1]
                /\ pc' = [pc EXCEPT ![f] = IF i = Len(NextEdges[m]) THEN "dec" ELSE "edges"]
      BY <1>2, <1>3, <1>5, <1>7 DEF PropagateEdge
    <2>2. edge \in [Frames -> Nat] /\ pc \in [Frames -> Labels]
      BY DEF IInv, TypeOK
    <2>3. /\ \A k \in Frames : k # f => pc'[k] = pc[k] /\ edge'[k] = edge[k]
          /\ \/ pc'[f] = "throw" /\ edge'[f] = edge[f]
             \/ /\ n = None /\ edge'[f] = i + 1
                /\ pc'[f] = IF i = Len(NextEdges[m]) THEN "dec" ELSE "edges"
      BY <2>1, <2>2
    <2>4. ASSUME NEW k \in Frames PROVE FrameKept(k)
      <3>1. edge[k] \in Nat
        BY <2>2
      <3>2. CASE k # f
        BY <1>1, <2>3, <3>1, <3>2 DEF FrameKept
      <3>3. CASE k = f
        BY <1>1, <1>3, <2>3, <3>1, <3>3 DEF FrameKept, Early, Evaluating
      <3> QED BY <3>2, <3>3
    <2>5. FlowKept
      BY <1>1, <2>1, <2>4 DEF FlowKept
    <2> QED BY <1>1, <1>2, <1>3, <1>5, <2>1, <2>3, <2>5
  <1> QED BY <1>6, <1>7

LEMMA FlowsFlow ==
  ASSUME IInv, IInv', CountInv, FlowInv, NEW f \in Frames, NEW g \in GraphTasks, NEW m \in Nodes,
         NEW n \in Nodes, NEW i \in DOMAIN NextEdges[m], Flows(f, g, m, i, n)
  PROVE  FlowInv'
  <1>1. /\ Held(f, g, m) /\ pc[f] = "edges" /\ edge[f] = i /\ n = NextEdges[m][i]
        /\ call[g] # "idle" /\ dependencies[g][n] # 0
        /\ UNCHANGED <<evaluated, cur, call>>
        /\ \A k \in Frames : k # f => pc'[k] = pc[k] /\ edge'[k] = edge[k]
        /\ edge'[f] = i + 1
        /\ pc'[f] \in {"dec", "edges"}
        /\ dependencies'[g][n] = dependencies[g][n] - 1
    BY DEF Flows
  <1>2. \A h \in GraphTasks, k \in Nodes :
          ~(h = g /\ k = n) => /\ dependencies'[h][k] = dependencies[h][k]
                               /\ inputs'[h][k] = inputs[h][k]
                               /\ k \in not_ready'[h] <=> k \in not_ready[h]
    BY DEF Flows
  <1>3. /\ \A q \in Queues : \A t \in heap'[q] : t \in heap[q] \/ t = NodeTask(g, n)
        /\ Waiting(g, n)' => ~Skipped(g, n) /\ dependencies'[g][n] = 0
    BY DEF Flows, Waiting, CountInv, QueuedIsReady
  <1>4. \A h \in GraphTasks, k \in Nodes, j \in Frames : Held(j, h, k)' <=> Held(j, h, k)
    BY <1>1 DEF Held
  <1>5. ASSUME NEW h \in GraphTasks, NEW k \in Nodes, ~(h = g /\ k = n)
        PROVE  Waiting(h, k)' => Waiting(h, k)
    BY <1>3, <1>5, NodeTaskFacts DEF Waiting
  <1>6. /\ n \notin evaluated[g] /\ \A k \in Frames : ~Held(k, g, n)
        /\ m \in evaluated[g] /\ m \in NodesOf[g] /\ m \in NeededOf[g]
        /\ \A k \in Frames : Held(k, g, m) => k = f
    BY <1>1 DEF FlowInv, Once, InGraph, Evaluating
  <1>7. <<m, i>> \in InEdgesOf[g][n] /\ n \in NodesOf[g]
    <2>1. n # None
      BY GraphAssumption
    <2> QED BY <1>1, <1>6, <2>1, CalledEdge
  <1>8. Shape'
    <2>1. NodeTask(g, n).from = None
      BY DEF NodeTask
    <2> QED BY <1>1, <1>3, <2>1 DEF FlowInv, Shape
  <1>9. Once'
    <2> SUFFICES ASSUME NEW h \in GraphTasks, NEW k \in Nodes
                 PROVE  /\ Waiting(h, k)' => k \notin evaluated[h]
                        /\ k \in evaluated[h] => dependencies'[h][k] = 0
                        /\ \A j \in Frames : Held(j, h, k) =>
                              /\ ~Waiting(h, k)' /\ dependencies'[h][k] = 0
                              /\ pc'[j] \in Early => k \notin evaluated[h]
                              /\ pc'[j] = "edges" => k \in evaluated[h]
                              /\ \A l \in Frames : Held(l, h, k) => l = j
      BY <1>1, <1>4 DEF Once
    <2>1. CASE h = g /\ k = n
      BY <1>6, <2>1
    <2>2. CASE ~(h = g /\ k = n)
      <3>1. \A j \in Frames : /\ pc'[j] \in Early => pc[j] \in Early
                              /\ pc'[j] = "edges" => pc[j] = "edges"
        BY <1>1 DEF Early
      <3> QED BY <1>2, <1>5, <2>2, <3>1 DEF FlowInv, Once
    <2> QED BY <2>1, <2>2
  <1>10. Arrivals'
    <2> SUFFICES ASSUME NEW h \in GraphTasks, NEW k \in Nodes
                 PROVE  /\ call[h] = "idle" => k \notin not_ready'[h] /\ inputs'[h][k] = {} /\ k \notin evaluated[h]
                        /\ k \in not_ready'[h] => ~Skipped(h, k) /\ dependencies'[h][k] # 0
                        /\ inputs'[h][k] \subseteq InEdgesOf[h][k]
                        /\ call[h] # "idle" /\ ~Skipped(h, k) =>
                              dependencies'[h][k] + Cardinality(inputs'[h][k]) = Cardinality(InEdgesOf[h][k])
      BY <1>1 DEF Arrivals, Skipped
    <2>1. CASE ~(h = g /\ k = n)
      BY <1>2, <2>1 DEF FlowInv, Arrivals
    <2>2. CASE (h = g /\ k = n) /\ Skipped(g, n)
      BY <1>1, <2>2 DEF FlowInv, Arrivals, Flows
    <2>3. CASE (h = g /\ k = n) /\ ~Skipped(g, n)
      <3>1. inputs'[g][n] = inputs[g][n] \cup {<<m, i>>} /\ (n \in not_ready'[g] <=> dependencies'[g][n] # 0)
        BY <2>3 DEF Flows
      <3>2. <<m, i>> \notin inputs[g][n]
        <4>1. i \in Int
          BY GraphAssumption
        <4> QED BY <1>1, <4>1 DEF FlowInv, EdgeOrder
      <3>3. inputs[g][n] \subseteq InEdgesOf[g][n]
        BY DEF FlowInv, Arrivals
      <3>4. IsFiniteSet(inputs[g][n]) /\ Cardinality(inputs[g][n]) \in Nat
        BY <3>3, InEdgesFinite, FS_Subset, FS_CardinalityType
      <3>5. Cardinality(inputs'[g][n]) = Cardinality(inputs[g][n]) + 1
        BY <3>1, <3>2, <3>4, FS_AddElement
      <3>6. dependencies[g][n] \in Nat
        BY DEF IInv, TypeOK
      <3>7. dependencies[g][n] + Cardinality(inputs[g][n]) = Cardinality(InEdgesOf[g][n])
        BY <1>1, <2>3 DEF FlowInv, Arrivals
      <3>8. dependencies'[g][n] + Cardinality(inputs'[g][n]) = Cardinality(InEdgesOf[g][n])
        BY <1>1, <3>4, <3>5, <3>6, <3>7
      <3>9. inputs'[g][n] \subseteq InEdgesOf[g][n]
        BY <1>7, <3>1, <3>3
      <3> QED BY <1>1, <2>3, <3>1, <3>8, <3>9
    <2> QED BY <2>1, <2>2, <2>3
  <1>11. EdgeOrder'
    <2> SUFFICES ASSUME NEW h \in GraphTasks, NEW k \in Nodes, NEW e \in inputs'[h][k]
                 PROVE  /\ e[1] \in evaluated[h]
                        /\ \A j \in Frames : Held(j, h, e[1]) /\ pc'[j] = "edges" => e[2] < edge'[j]
      BY <1>1 DEF EdgeOrder, Held
    <2>0. i \in Int
      BY GraphAssumption
    <2>1. CASE e \in inputs[h][k]
      <3>1. e[1] \in evaluated[h] /\ e \in Edges
        BY <2>1 DEF FlowInv, EdgeOrder, IInv, TypeOK
      <3>2. e[1] \in Nodes /\ e[2] \in DOMAIN NextEdges[e[1]]
        BY <3>1 DEF Edges
      <3>3. e[2] \in Int
        BY <3>2, GraphAssumption
      <3>4. ASSUME NEW j \in Frames, Held(j, h, e[1]), pc'[j] = "edges" PROVE e[2] < edge'[j]
        <4>1. pc[j] = "edges" /\ (edge'[j] = edge[j] \/ (edge[j] = i /\ edge'[j] = i + 1))
          BY <1>1, <3>4
        <4>2. e[2] < edge[j]
          BY <2>1, <3>4, <4>1 DEF FlowInv, EdgeOrder
        <4> QED BY <2>0, <3>3, <4>1, <4>2
      <3> QED BY <3>1, <3>4
    <2>2. CASE e \notin inputs[h][k]
      <3>1. h = g /\ k = n /\ e = <<m, i>>
        BY <1>2, <2>2 DEF Flows
      <3>2. e[1] = m /\ e[2] = i
        BY <3>1
      <3> QED BY <1>1, <1>6, <2>0, <3>1, <3>2
    <2> QED BY <2>1, <2>2
  <1>12. InGraph'
    <2> SUFFICES ASSUME NEW h \in GraphTasks, NEW k \in Nodes
                 PROVE  /\ Waiting(h, k)' => k \in NodesOf[h] /\ (k = Root[h] \/ ~Skipped(h, k))
                        /\ \A j \in Frames : Held(j, h, k) =>
                              /\ k \in NodesOf[h] /\ (k = Root[h] \/ ~Skipped(h, k))
                              /\ pc'[j] \in Evaluating => k \in NeededOf[h]
                        /\ k \in evaluated[h] => k \in NodesOf[h] /\ k \in NeededOf[h]
      BY <1>1, <1>4 DEF InGraph, Skipped
    <2>1. \A j \in Frames : pc'[j] \in Evaluating => pc[j] \in Evaluating
      BY <1>1 DEF Evaluating
    <2> QED BY <1>3, <1>5, <1>6, <1>7, <2>1 DEF FlowInv, InGraph
  <1> QED BY <1>8, <1>9, <1>10, <1>11, <1>12 DEF FlowInv

-----------------------------------------------------------------------------
(* A call starts, made by a user thread or by the node a frame evaluates. *)
Starts(g) ==
    /\ call[g] = "idle" /\ call'[g] \in {"inline", "handed"}
    /\ \A h \in GraphTasks : h # g => call'[h] = call[h] /\ dependencies'[h] = dependencies[h]
    /\ dependencies'[g] = DepsOf[g]
    /\ UNCHANGED <<not_ready, inputs, evaluated, captured, edge, cur, has_error, futureVars,
                   callbackVars>>
    /\ \A h \in GraphTasks : h # g => thread'[h] = thread[h]
    /\ \A q \in Queues : /\ \A t \in heap[q] : t \in heap'[q]
                         /\ \A t \in heap'[q] : t \in heap[q] \/ t = NodeTask(g, Root[g])
    /\ Waiting(g, Root[g])'
    /\ pc'[g] \in {"loop", "handoff"}
    /\ \A k \in Frames : k # g => \/ pc'[k] = pc[k]
                                  \/ pc[k] = "run" /\ pc'[k] = "reenter" /\ g = Inner(k)

LEMMA ExecuteEffect ==
  ASSUME IInv, CountInv, NEW t \in Threads, NEW g \in GraphTasks, Execute(t, g),
         local_ready_queue[t] \in Queues \/ t \in Callers,
         \A k \in Frames : k # g => \/ pc'[k] = pc[k]
                                    \/ pc[k] = "run" /\ pc'[k] = "reenter" /\ g = Inner(k),
         pc'[g] \in {"loop", "handoff"}
  PROVE  Starts(g)
  <1> DEFINE q == IF local_ready_queue[t] = None THEN t ELSE local_ready_queue[t]
             u == NodeTask(g, Root[g])
             r == ready_queue(q, NodeDevice[Root[g]])
  <1>1. q \in Queues
    BY EngineAssumption DEF IInv, TypeOK
  <1>2. r \in Queues
    BY <1>1, EngineAssumption DEF ready_queue
  <1>3. /\ call[g] = "idle" /\ Push(r, u)
        /\ dependencies' = [dependencies EXCEPT ![g] = DepsOf[g]]
        /\ UNCHANGED <<not_ready, inputs, evaluated, captured, edge, cur, has_error, futureVars,
                       callbackVars>>
        /\ \E x \in {"handed", "inline"} : call' = [call EXCEPT ![g] = x]
        /\ thread' = thread \/ thread' = [thread EXCEPT ![g] = t]
    BY DEF Execute
  <1> HIDE DEF q, r
  <1>4. heap' = [heap EXCEPT ![r] = @ \cup {u}]
    BY <1>3 DEF Push
  <1>5. /\ \A s \in Queues : /\ \A v \in heap[s] : v \in heap'[s]
                             /\ \A v \in heap'[s] : v \in heap[s] \/ v = u
        /\ u \in heap'[r]
    <2>1. heap \in [Queues -> SUBSET (NodeTasks \cup {ShutdownTask})]
      BY DEF IInv, TypeOK
    <2> QED BY <1>2, <1>4, <2>1
  <1>6. Waiting(g, Root[g])'
    BY <1>2, <1>5 DEF Waiting
  <1>7. /\ \A h \in GraphTasks : h # g => call'[h] = call[h] /\ dependencies'[h] = dependencies[h]
        /\ dependencies'[g] = DepsOf[g] /\ call'[g] \in {"inline", "handed"}
        /\ \A h \in GraphTasks : h # g => thread'[h] = thread[h]
    BY <1>3 DEF IInv, TypeOK
  <1> QED BY <1>3, <1>5, <1>6, <1>7 DEF Starts

LEMMA CallEffect ==
  ASSUME IInv, CountInv,
         \/ \E c \in Callers, g \in GraphTasks : Backward(c, g)
         \/ \E f \in Frames : Reenter(f)
  PROVE  \E g \in GraphTasks : Starts(g)
  <1>1. ASSUME NEW c \in Callers, NEW g \in GraphTasks, Backward(c, g) PROVE Starts(g)
    <2>1. Execute(c, g) /\ pc' = [pc EXCEPT ![g] = FrameStart(c)]
      BY <1>1 DEF Backward
    <2>2. /\ \A k \in Frames : k # g => pc'[k] = pc[k]
          /\ pc'[g] \in {"loop", "handoff"}
      BY <2>1 DEF IInv, TypeOK, FrameStart
    <2> QED BY <2>1, <2>2, ExecuteEffect
  <1>2. ASSUME NEW f \in Frames, Reenter(f) PROVE \E g \in GraphTasks : Starts(g)
    <2>1. pc[f] = "run" /\ Inner(f) # None
      BY <1>2 DEF Reenter
    <2>2. thread[f] \in Threads /\ local_ready_queue[thread[f]] \in Queues /\ cur[f].fn \in Nodes
      BY <2>1, FrameFacts DEF Working, Evaluating
    <2>3. PICK g \in GraphTasks, t \in Threads : g = Inner(f) /\ t = thread[f]
      BY <2>1, <2>2, HeldTask, EngineAssumption DEF Inner, Evaluating
    <2>4. Execute(t, g) /\ pc' = [pc EXCEPT ![f] = "reenter", ![g] = FrameStart(t)]
      BY <1>2, <2>3 DEF Reenter
    <2>5. /\ \A k \in Frames : k # g => \/ pc'[k] = pc[k]
                                        \/ pc[k] = "run" /\ pc'[k] = "reenter" /\ g = Inner(k)
          /\ pc'[g] \in {"loop", "handoff"}
      BY <2>1, <2>3, <2>4 DEF IInv, TypeOK, FrameStart
    <2> QED BY <2>2, <2>3, <2>4, <2>5, ExecuteEffect
  <1> QED BY <1>1, <1>2

(* Before the call starts its graph task has no tasks. *)
LEMMA NothingBefore ==
  ASSUME IInv, CountInv, NEW g \in GraphTasks, call[g] = "idle"
  PROVE  /\ pc[g] = "idle"
         /\ \A n \in Nodes : ~Waiting(g, n)
         /\ \A f \in Frames : ~(cur[f] # None /\ cur[f].gt = g)
         /\ \A n \in Nodes, f \in Frames : ~Held(f, g, n)
  <1>1. pc[g] = "idle"
    BY DEF CountInv, Unstarted
  <1>2. \A n \in Nodes : ~Waiting(g, n)
    BY NodeTaskFacts DEF IInv, WellFormed, Waiting
  <1>3. \A f \in Frames : ~(cur[f] # None /\ cur[f].gt = g)
    BY DEF IInv, WellFormed, FrameWellFormed
  <1>4. \A n \in Nodes, f \in Frames : ~Held(f, g, n)
    BY <1>3, NodeTaskFacts DEF Held
  <1> QED BY <1>1, <1>2, <1>3, <1>4

LEMMA StartsFlow ==
  ASSUME IInv, CountInv, FlowInv, NEW g \in GraphTasks, Starts(g)
  PROVE  FlowInv'
  <1>1. /\ call[g] = "idle" /\ call'[g] # "idle"
        /\ \A h \in GraphTasks : h # g => call'[h] = call[h] /\ dependencies'[h] = dependencies[h]
        /\ dependencies'[g] = DepsOf[g]
        /\ UNCHANGED <<not_ready, inputs, evaluated, edge, cur>>
        /\ \A q \in Queues : \A t \in heap'[q] : t \in heap[q] \/ t = NodeTask(g, Root[g])
        /\ \A k \in Frames : k # g => pc'[k] = pc[k] \/ (pc[k] = "run" /\ pc'[k] = "reenter")
        /\ pc'[g] \in {"loop", "handoff"}
    BY DEF Starts
  <1>2. Root[g] \in Nodes /\ Root[g] \in NodesOf[g] /\ DepsOf[g][Root[g]] = 0
    BY EngineAssumption, GraphIsClosed, RootHasNoInputs
  <1>3. /\ \A n \in Nodes : ~Waiting(g, n)
        /\ \A n \in Nodes, f \in Frames : ~Held(f, g, n)
        /\ pc[g] = "idle"
    BY <1>1, NothingBefore
  <1>4. \A n \in Nodes : n \notin not_ready[g] /\ inputs[g][n] = {} /\ n \notin evaluated[g]
    BY <1>1 DEF FlowInv, Arrivals
  <1>5. ASSUME NEW h \in GraphTasks, NEW n \in Nodes, Waiting(h, n)'
        PROVE  Waiting(h, n) \/ (h = g /\ n = Root[g])
    <2>1. PICK q \in Queues : NodeTask(h, n) \in heap'[q]
      BY <1>5 DEF Waiting
    <2>2. CASE NodeTask(h, n) \in heap[q]
      BY <2>2 DEF Waiting
    <2>3. CASE NodeTask(h, n) = NodeTask(g, Root[g])
      BY <1>2, <2>3, NodeTaskFacts
    <2> QED BY <1>1, <2>1, <2>2, <2>3
  <1>6. \A h \in GraphTasks, n \in Nodes, k \in Frames : Held(k, h, n)' <=> Held(k, h, n)
    BY <1>1 DEF Held
  <1>7. \A k \in Frames : /\ pc'[k] \in Early => pc[k] \in Early
                          /\ pc'[k] \in Evaluating => pc[k] \in Evaluating
                          /\ pc'[k] = "edges" => pc[k] = "edges"
    BY <1>1, <1>3 DEF Early, Evaluating
  <1>8. Shape'
    <2>1. NodeTask(g, Root[g]).from = None
      BY DEF NodeTask
    <2> QED BY <1>1, <2>1 DEF FlowInv, Shape
  <1>9. Once'
    <2> SUFFICES ASSUME NEW h \in GraphTasks, NEW n \in Nodes
                 PROVE  /\ Waiting(h, n)' => n \notin evaluated[h]
                        /\ n \in evaluated[h] => dependencies'[h][n] = 0
                        /\ \A j \in Frames : Held(j, h, n) =>
                              /\ ~Waiting(h, n)' /\ dependencies'[h][n] = 0
                              /\ pc'[j] \in Early => n \notin evaluated[h]
                              /\ pc'[j] = "edges" => n \in evaluated[h]
                              /\ \A l \in Frames : Held(l, h, n) => l = j
      BY <1>1, <1>6 DEF Once
    <2>1. CASE h = g
      BY <1>3, <1>4, <2>1
    <2>2. CASE h # g
      BY <1>1, <1>5, <1>7, <2>2 DEF FlowInv, Once
    <2> QED BY <2>1, <2>2
  <1>10. Arrivals'
    <2> SUFFICES ASSUME NEW h \in GraphTasks, NEW n \in Nodes
                 PROVE  /\ call'[h] = "idle" => n \notin not_ready[h] /\ inputs[h][n] = {} /\ n \notin evaluated[h]
                        /\ n \in not_ready[h] => ~Skipped(h, n) /\ dependencies'[h][n] # 0
                        /\ inputs[h][n] \subseteq InEdgesOf[h][n]
                        /\ call'[h] # "idle" /\ ~Skipped(h, n) =>
                              dependencies'[h][n] + Cardinality(inputs[h][n]) = Cardinality(InEdgesOf[h][n])
      BY <1>1 DEF Arrivals, Skipped
    <2>1. CASE h # g
      BY <1>1, <2>1 DEF FlowInv, Arrivals
    <2>2. CASE h = g
      <3>1. dependencies'[g][n] = Cardinality(InEdgesOf[g][n]) /\ Cardinality(InEdgesOf[g][n]) \in Nat
        BY <1>1, InEdgesFinite
      <3>2. Cardinality(inputs[g][n]) = 0
        BY <1>4, FS_EmptySet
      <3> QED BY <1>1, <1>4, <2>2, <3>1, <3>2
    <2> QED BY <2>1, <2>2
  <1>11. EdgeOrder'
    BY <1>1, <1>7 DEF FlowInv, EdgeOrder, Held
  <1>12. InGraph'
    <2> SUFFICES ASSUME NEW h \in GraphTasks, NEW n \in Nodes
                 PROVE  /\ Waiting(h, n)' => n \in NodesOf[h] /\ (n = Root[h] \/ ~Skipped(h, n))
                        /\ \A j \in Frames : Held(j, h, n) =>
                              /\ n \in NodesOf[h] /\ (n = Root[h] \/ ~Skipped(h, n))
                              /\ pc'[j] \in Evaluating => n \in NeededOf[h]
                        /\ n \in evaluated[h] => n \in NodesOf[h] /\ n \in NeededOf[h]
      BY <1>1, <1>6 DEF InGraph, Skipped
    <2> QED BY <1>2, <1>5, <1>7 DEF FlowInv, InGraph
  <1> QED BY <1>8, <1>9, <1>10, <1>11, <1>12 DEF FlowInv

-----------------------------------------------------------------------------
LEMMA InitFlow == Init => FlowInv
  <1> SUFFICES ASSUME Init PROVE FlowInv
    OBVIOUS
  <1>1. /\ \A q \in Queues : heap[q] = {}
        /\ \A f \in Frames : cur[f] = None
        /\ \A g \in GraphTasks : /\ call[g] = "idle" /\ evaluated[g] = {} /\ not_ready[g] = {}
                                 /\ \A n \in Nodes : inputs[g][n] = {}
    BY DEF Init
  <1>2. \A g \in GraphTasks, n \in Nodes : ~Waiting(g, n) /\ \A f \in Frames : ~Held(f, g, n)
    BY <1>1, NodeTaskFacts DEF Waiting, Held
  <1>3. Shape
    BY <1>1 DEF Shape
  <1>4. Once
    BY <1>1, <1>2 DEF Once
  <1>5. Arrivals
    BY <1>1 DEF Arrivals
  <1>6. EdgeOrder
    BY <1>1 DEF EdgeOrder
  <1>7. InGraph
    BY <1>1, <1>2 DEF InGraph
  <1> QED BY <1>3, <1>4, <1>5, <1>6, <1>7 DEF FlowInv

(* The steps by what they do to the tasks of nodes. *)
LEMMA StepKinds ==
  ASSUME IInv, CountInv, FlowInv, [Next]_vars
  PROVE  \/ QuietStep
         \/ \E f \in Frames : \E g \in GraphTasks, n \in Nodes : TakesNode(f, g, n)
         \/ \E f \in Frames : Begin(f) \/ CallFunction(f) \/ PropagateEdge(f)
         \/ \E g \in GraphTasks : Starts(g)
  <1>1. ASSUME NEW f \in Frames, FrameStep(f)
        PROVE  \/ QuietStep
               \/ \E g \in GraphTasks, n \in Nodes : TakesNode(f, g, n)
               \/ Begin(f) \/ CallFunction(f) \/ PropagateEdge(f)
               \/ \E g \in GraphTasks : Starts(g)
    <2>1. CASE Pop(f)
      BY <2>1, PopEffect DEF FlowInv
    <2>2. CASE ~Pop(f)
      BY <1>1, <2>2, QuietFrameSteps, QuietReturns, CallEffect
         DEF FrameStep, EvaluateStep, CompleteStep
    <2> QED BY <2>1, <2>2
  <1>2. ASSUME NEW g \in GraphTasks, CallStep(g) PROVE QuietStep
    BY <1>2, QuietFrameSteps, QuietReturns, QuietOtherSteps DEF CallStep
  <1> QED BY <1>1, <1>2, QuietOtherSteps, CallEffect DEF Next, Terminating

LEMMA NextFlow == IInv /\ CountInv /\ FlowInv /\ [Next]_vars => FlowInv'
  <1> SUFFICES ASSUME IInv, CountInv, FlowInv, [Next]_vars PROVE FlowInv'
    OBVIOUS
  <1>1. IInv'
    BY NextIInv
  <1>2. ASSUME NEW f \in Frames, PropagateEdge(f) PROVE FlowInv'
    BY <1>1, <1>2, PropagateEffect, FlowKeptSteps, FlowsFlow
  <1> QED BY <1>1, <1>2, StepKinds, QuietFlow, FlowKeptSteps, TakesFlow, BeginFlow,
             CallFunctionFlow, StartsFlow

(* A node that is queued, or taken and not yet called, has its gradients. *)
LEMMA FlowMeansArrived == IInv /\ CountInv /\ FlowInv => EveryInputArrived
  <1> SUFFICES ASSUME IInv, CountInv, FlowInv, NEW g \in GraphTasks, NEW n \in Nodes,
                      \/ NodeTask(g, n) \in Queued(g)
                      \/ \E f \in Frames : cur[f] = NodeTask(g, n) /\ pc[f] \in {"got", "run", "reenter"}
               PROVE  inputs[g][n] = InEdgesOf[g][n] /\ n \notin not_ready[g] /\ n \notin evaluated[g]
    BY DEF EveryInputArrived
  <1>1. \/ Waiting(g, n)
        \/ \E f \in Frames : Held(f, g, n) /\ pc[f] \in Early
    BY DEF Queued, Waiting, Held, Early
  <1>2. /\ dependencies[g][n] = 0 /\ n \notin evaluated[g]
        /\ n = Root[g] \/ ~Skipped(g, n)
    BY <1>1 DEF FlowInv, Once, InGraph, CountInv, QueuedIsReady, Waiting
  <1>3. call[g] # "idle"
    BY <1>1, NothingBefore
  <1>4. inputs[g][n] \in SUBSET InEdgesOf[g][n] /\ n \notin not_ready[g]
    BY <1>2 DEF FlowInv, Arrivals
  <1>5. IsFiniteSet(InEdgesOf[g][n]) /\ Cardinality(InEdgesOf[g][n]) \in Nat
    BY InEdgesFinite
  <1>6. inputs[g][n] = InEdgesOf[g][n]
    <2>1. CASE n = Root[g]
      BY <1>4, <2>1, RootHasNoInputs
    <2>2. CASE ~Skipped(g, n)
      <3>1. 0 + Cardinality(inputs[g][n]) = Cardinality(InEdgesOf[g][n])
        BY <1>2, <1>3, <2>2 DEF FlowInv, Arrivals
      <3>2. Cardinality(inputs[g][n]) \in Nat
        BY <1>4, <1>5, FS_Subset, FS_CardinalityType
      <3>3. Cardinality(inputs[g][n]) = Cardinality(InEdgesOf[g][n])
        BY <3>1, <3>2
      <3> QED BY <1>4, <1>5, <3>3, FS_Subset
    <2> QED BY <1>2, <2>1, <2>2
  <1> QED BY <1>2, <1>4, <1>6

(* No node is evaluated before the gradients of all its incoming edges are  *)
(* in its buffer, nor twice, whatever the graph and however many threads    *)
(* deliver gradients to it.                                                 *)
THEOREM InputsArriveFirst == Spec => []EveryInputArrived
  BY FlowMeansArrived, InitIInv, NextIInv, InitCounts, NextCounts, InitFlow, NextFlow, PTL DEF Spec

-----------------------------------------------------------------------------
(* No node of g is queued, and no frame is about to evaluate one *)
NoNodeWork(g) ==
    /\ \A n \in Nodes : ~Waiting(g, n)
    /\ \A f \in Frames : cur[f] # None /\ cur[f].gt = g /\ cur[f].fn # None
                            => pc[f] \notin Evaluating \cup {"got"}

(* Who found outstanding_tasks_ at 0 is right that there is nothing left. *)
Finished ==
    \A g \in GraphTasks :
        /\ future_result[g] # "none" => call[g] # "idle"
        /\ future_result[g] = "value" => NoNodeWork(g)
        /\ \A f \in Frames : cur[f] # None /\ cur[f].gt = g /\ pc[f] \in PastCheck => NoNodeWork(g)

(* Who raises has_error_ goes on to claim the future; the post-processing   *)
(* has claimed it only when nobody failed.                                  *)
ErrorSeen ==
    \A g \in GraphTasks :
        /\ has_error[g] => \/ future_completed[g]
                           \/ \E f \in Frames : cur[f] # None /\ cur[f].gt = g /\ pc[f] = "exception"
        /\ future_result[g] = "value" => ~has_error[g]
        /\ \A f \in Frames : cur[f] # None /\ cur[f].gt = g /\ pc[f] = "post" => ~has_error[g]

FinishInv == Finished /\ ErrorSeen

(* The steps that are not quiet leave flags and futures alone. *)
LEMMA FlagsKept ==
  ASSUME IInv, CountInv, FlowInv, [Next]_vars
  PROVE  \/ QuietStep
         \/ UNCHANGED <<has_error, futureVars>>
  <1>1. ASSUME NEW f \in Frames, Begin(f) \/ CallFunction(f) \/ PropagateEdge(f)
        PROVE  UNCHANGED <<has_error, futureVars>>
    BY <1>1 DEF Begin, CallFunction, PropagateEdge
  <1> QED BY <1>1, StepKinds DEF TakesNode, Starts

(* What the steps other than calls do to one frame: its task changes only   *)
(* when it takes one, and it gets past the check of completed() only there. *)
LEMMA FrameTasks ==
  ASSUME IInv, CountInv, FlowInv, [Next]_vars, NEW k \in Frames, cur'[k] # None,
         pc'[k] \in PastCheck \cup {"check", "exception"}
  PROVE  /\ cur'[k] = cur[k]
         /\ pc'[k] \in PastCheck =>
               \/ pc[k] \in PastCheck
               \/ pc[k] = "check" /\ outstanding_tasks[cur[k].gt] = 0
         /\ pc'[k] = "post" => pc[k] = "post" \/ (pc[k] = "mark" /\ ~future_completed[cur[k].gt])
         /\ pc'[k] = "exception" => pc[k] \in {"throw", "exception"}
  <1>1. CASE QuietStep
    BY <1>1 DEF QuietStep, FrameMoves, PastCheck, Resting
  <1>2. ASSUME NEW f \in Frames, NEW g \in GraphTasks, NEW n \in Nodes, TakesNode(f, g, n)
        PROVE  pc'[k] = pc[k] /\ cur'[k] = cur[k]
    BY <1>2 DEF TakesNode, PastCheck
  <1>3. ASSUME NEW f \in Frames, Begin(f) PROVE pc'[k] = pc[k] /\ cur'[k] = cur[k]
    <2>1. /\ cur' = cur \/ cur' = [cur EXCEPT ![f] = None]
          /\ \E x \in {"loop", "pop", "run", "dec"} : pc' = [pc EXCEPT ![f] = x]
      BY <1>3 DEF Begin
    <2> QED BY <2>1 DEF IInv, TypeOK, PastCheck
  <1>4. ASSUME NEW f \in Frames, CallFunction(f) PROVE pc'[k] = pc[k] /\ cur'[k] = cur[k]
    BY <1>4, CallFunctionEffect DEF PastCheck
  <1>5. ASSUME NEW f \in Frames, PropagateEdge(f) PROVE pc'[k] = pc[k] /\ cur'[k] = cur[k]
    <2>1. cur' = cur /\ \E x \in {"throw", "dec", "edges"} : pc' = [pc EXCEPT ![f] = x]
      BY <1>5 DEF PropagateEdge
    <2> QED BY <2>1 DEF IInv, TypeOK, PastCheck
  <1>6. ASSUME NEW g \in GraphTasks, Starts(g) PROVE pc'[k] = pc[k] /\ cur'[k] = cur[k]
    BY <1>6 DEF Starts, PastCheck
  <1>7. CASE pc'[k] = pc[k] /\ cur'[k] = cur[k]
    BY <1>7
  <1> QED BY <1>1, <1>2, <1>3, <1>4, <1>5, <1>6, <1>7, StepKinds

(* Once the nodes of a pass are done, no step makes work for one. *)
LEMMA NoWorkKept ==
  ASSUME IInv, CountInv, FlowInv, [Next]_vars, NEW g \in GraphTasks, call[g] # "idle", NoNodeWork(g)
  PROVE  NoNodeWork(g)'
  <1>1. CASE QuietStep
    <2>1. \A n \in Nodes : ~Waiting(g, n)'
      BY <1>1, NodeTaskFacts DEF QuietStep, Waiting, NoNodeWork
    <2>2. \A f \in Frames : cur'[f] # None /\ cur'[f].gt = g /\ cur'[f].fn # None
                               => pc'[f] \notin Evaluating \cup {"got"}
      BY <1>1 DEF QuietStep, FrameMoves, NoNodeWork, Evaluating, Resting
    <2> QED BY <2>1, <2>2 DEF NoNodeWork
  <1>2. ASSUME NEW f \in Frames, NEW h \in GraphTasks, NEW n \in Nodes, TakesNode(f, h, n)
        PROVE  NoNodeWork(g)'
    <2>1. h # g
      BY <1>2 DEF TakesNode, NoNodeWork
    <2>2. \A m \in Nodes : ~Waiting(g, m)'
      BY <1>2 DEF TakesNode, NoNodeWork, Waiting
    <2>3. cur'[f].gt # g
      BY <1>2, <2>1, NodeTaskFacts DEF TakesNode
    <2> QED BY <1>2, <2>2, <2>3 DEF TakesNode, NoNodeWork
  <1>3. ASSUME NEW f \in Frames, Begin(f) PROVE NoNodeWork(g)'
    <2>1. /\ pc[f] = "got" /\ heap' = heap
          /\ cur' = cur \/ cur' = [cur EXCEPT ![f] = None]
          /\ \E x \in {"loop", "pop", "run", "dec"} :
                pc' = [pc EXCEPT ![f] = x] /\ (x = "run" => cur[f].fn # None)
      BY <1>3 DEF Begin, IsCalled
    <2>2. \A n \in Nodes : ~Waiting(g, n)'
      BY <2>1 DEF NoNodeWork, Waiting
    <2>3. ASSUME NEW k \in Frames, cur'[k] # None, cur'[k].gt = g, cur'[k].fn # None
          PROVE  pc'[k] \notin Evaluating \cup {"got"}
      <3>1. cur'[k] = cur[k]
        BY <2>1, <2>3 DEF IInv, TypeOK
      <3>2. k # f /\ pc'[k] = pc[k]
        BY <2>1, <2>3, <3>1 DEF NoNodeWork, IInv, TypeOK
      <3> QED BY <2>3, <3>1, <3>2 DEF NoNodeWork
    <2> QED BY <2>2, <2>3 DEF NoNodeWork
  <1>4. ASSUME NEW f \in Frames, pc[f] \in Evaluating, UNCHANGED cur,
               \A k \in Frames : k # f => pc'[k] = pc[k]
        PROVE  /\ cur[f].gt # g
               /\ \A k \in Frames : cur'[k] # None /\ cur'[k].gt = g /\ cur'[k].fn # None
                                       => pc'[k] \notin Evaluating \cup {"got"}
    <2>1. cur[f] # None /\ cur[f].fn # None
      BY <1>4, HeldTask, GraphAssumption DEF IInv, WellFormed, FrameWellFormed
    <2>2. cur[f].gt # g
      BY <1>4, <2>1 DEF NoNodeWork
    <2> QED BY <1>4, <2>2 DEF NoNodeWork
  <1>5. ASSUME NEW f \in Frames, CallFunction(f) PROVE NoNodeWork(g)'
    <2>1. /\ pc[f] = "run" /\ UNCHANGED <<heap, cur>>
          /\ \A k \in Frames : k # f => pc'[k] = pc[k]
      BY <1>5, CallFunctionEffect
    <2>2. \A n \in Nodes : ~Waiting(g, n)'
      BY <2>1 DEF NoNodeWork, Waiting
    <2>3. \A k \in Frames : cur'[k] # None /\ cur'[k].gt = g /\ cur'[k].fn # None
                               => pc'[k] \notin Evaluating \cup {"got"}
      BY <1>4, <2>1 DEF Evaluating
    <2> QED BY <2>2, <2>3 DEF NoNodeWork
  <1>6. ASSUME NEW f \in Frames, PropagateEdge(f) PROVE NoNodeWork(g)'
    <2>1. /\ pc[f] = "edges" /\ UNCHANGED cur
          /\ \A k \in Frames : k # f => pc'[k] = pc[k]
      <3>1. /\ pc[f] = "edges" /\ UNCHANGED cur
            /\ \E x \in {"throw", "dec", "edges"} : pc' = [pc EXCEPT ![f] = x]
        BY <1>6 DEF PropagateEdge
      <3> QED BY <3>1 DEF IInv, TypeOK
    <2>2. /\ cur[f].gt # g
          /\ \A k \in Frames : cur'[k] # None /\ cur'[k].gt = g /\ cur'[k].fn # None
                                  => pc'[k] \notin Evaluating \cup {"got"}
      BY <1>4, <2>1 DEF Evaluating
    <2>3. \A n \in Nodes : ~Waiting(g, n)'
      <3>1. CASE heap' = heap
        BY <3>1 DEF NoNodeWork, Waiting
      <3>2. ASSUME NEW h \in GraphTasks, NEW m \in Nodes, NEW l \in Nodes,
                   NEW i \in DOMAIN NextEdges[m], Flows(f, h, m, i, l)
            PROVE  \A n \in Nodes : ~Waiting(g, n)'
        <4>1. h # g
          BY <2>2, <3>2, NodeTaskFacts DEF Flows, Held
        <4>2. \A q \in Queues : \A t \in heap'[q] : t \in heap[q] \/ t = NodeTask(h, l)
          BY <3>2 DEF Flows
        <4>3. \A n \in Nodes : NodeTask(g, n) # NodeTask(h, l)
          BY <4>1, NodeTaskFacts
        <4> QED BY <4>2, <4>3 DEF NoNodeWork, Waiting
      <3> QED BY <1>6, <3>1, <3>2, PropagateEffect
    <2> QED BY <2>2, <2>3 DEF NoNodeWork
  <1>7. ASSUME NEW h \in GraphTasks, Starts(h) PROVE NoNodeWork(g)'
    <2>1. h # g
      BY <1>7 DEF Starts
    <2>2. Root[h] \in Nodes
      BY EngineAssumption
    <2>3. \A n \in Nodes : NodeTask(g, n) # NodeTask(h, Root[h])
      BY <2>1, <2>2, NodeTaskFacts
    <2>4. \A n \in Nodes : ~Waiting(g, n)'
      BY <1>7, <2>3 DEF Starts, NoNodeWork, Waiting
    <2>5. pc[h] = "idle"
      BY <1>7, NothingBefore DEF Starts
    <2>6. \A k \in Frames : cur'[k] # None /\ cur'[k].gt = g /\ cur'[k].fn # None
                               => pc'[k] \notin Evaluating \cup {"got"}
      BY <1>7, <2>5 DEF Starts, NoNodeWork, Evaluating
    <2> QED BY <2>4, <2>6 DEF NoNodeWork
  <1> QED BY <1>1, <1>2, <1>3, <1>5, <1>6, <1>7, StepKinds

(* GraphTask::completed() is asked by a frame that holds the graph task. *)
LEMMA ZeroMeansNoWork ==
  ASSUME IInv, CountInv, FlowInv, NEW f \in Frames, NEW g \in GraphTasks, cur[f] # None, cur[f].gt = g,
         pc[f] = "check", outstanding_tasks[g] = 0
  PROVE  NoNodeWork(g)
  <1>1. Alive(g)
    BY DEF Alive, Holds
  <1>2. outstanding_tasks[g] = Cardinality(Queued(g)) + Cardinality(Uncounted(g))
    BY <1>1 DEF CountInv, OutstandingIsExact
  <1>3. /\ IsFiniteSet(Queued(g)) /\ Cardinality(Queued(g)) \in Nat
        /\ IsFiniteSet(Uncounted(g)) /\ Cardinality(Uncounted(g)) \in Nat
    BY CountType DEF Queued, Uncounted
  <1>4. Cardinality(Queued(g)) = 0 /\ Cardinality(Uncounted(g)) = 0
    BY <1>2, <1>3
  <1>5. Queued(g) = {} /\ Uncounted(g) = {}
    BY <1>3, <1>4, FS_EmptySet
  <1>6. \A n \in Nodes : ~Waiting(g, n)
    BY <1>5, NodeTaskFacts DEF Queued, Waiting
  <1>7. \A k \in Frames : cur[k] # None /\ cur[k].gt = g /\ cur[k].fn # None
                             => pc[k] \notin Evaluating \cup {"got"}
    BY <1>5 DEF Uncounted
  <1> QED BY <1>6, <1>7 DEF NoNodeWork

LEMMA CallsKept ==
  ASSUME IInv, CountInv, FlowInv, [Next]_vars
  PROVE  \A g \in GraphTasks : call[g] # "idle" => call'[g] # "idle"
  <1>1. ASSUME NEW f \in Frames, Begin(f) \/ CallFunction(f) \/ PropagateEdge(f) PROVE UNCHANGED call
    BY <1>1 DEF Begin, CallFunction, PropagateEdge
  <1> QED BY <1>1, StepKinds DEF QuietStep, CallMoves, TakesNode, Starts

LEMMA NextFinish ==
  ASSUME IInv, CountInv, FlowInv, FinishInv, [Next]_vars
  PROVE  FinishInv'
  <1>0. IInv'
    BY NextIInv
  <1>1. ASSUME NEW g \in GraphTasks, NEW k \in Frames, cur[k] # None, cur[k].gt = g PROVE call[g] # "idle"
    BY <1>1, NothingBefore
  <1>2. ASSUME NEW g \in GraphTasks, NEW k \in Frames, cur'[k] # None, cur'[k].gt = g, pc'[k] \in PastCheck
        PROVE  NoNodeWork(g)
    <2>1. /\ cur'[k] = cur[k]
          /\ \/ pc[k] \in PastCheck
             \/ pc[k] = "check" /\ outstanding_tasks[g] = 0
      BY <1>2, FrameTasks
    <2> QED BY <1>2, <2>1, ZeroMeansNoWork DEF FinishInv, Finished
  <1>3. ASSUME NEW g \in GraphTasks, future_result'[g] # "none"
        PROVE  call[g] # "idle"
    <2>1. CASE future_result[g] # "none"
      BY <2>1 DEF FinishInv, Finished
    <2>2. CASE future_result[g] = "none"
      BY <1>1, <1>3, <2>2, FlagsKept DEF QuietStep, FlagMoves
    <2> QED BY <2>1, <2>2
  <1>4. ASSUME NEW g \in GraphTasks, future_result'[g] = "value"
        PROVE  NoNodeWork(g)
    <2>1. CASE future_result[g] = "value"
      BY <2>1 DEF FinishInv, Finished
    <2>2. CASE future_result[g] # "value"
      <3>1. \E k \in Frames : cur[k] # None /\ cur[k].gt = g /\ pc[k] = "post"
        BY <1>4, <2>2, FlagsKept DEF QuietStep, FlagMoves
      <3> QED BY <3>1 DEF FinishInv, Finished, PastCheck
    <2> QED BY <2>1, <2>2
  <1>5. Finished'
    <2> SUFFICES ASSUME NEW g \in GraphTasks
                 PROVE  /\ future_result'[g] # "none" => call'[g] # "idle"
                        /\ future_result'[g] = "value" => NoNodeWork(g)'
                        /\ \A f \in Frames : cur'[f] # None /\ cur'[f].gt = g /\ pc'[f] \in PastCheck
                                                => NoNodeWork(g)'
      BY DEF Finished
    <2>1. future_result'[g] # "none" => call'[g] # "idle"
      BY <1>3, CallsKept
    <2>2. future_result'[g] = "value" => NoNodeWork(g)'
      BY <1>3, <1>4, NoWorkKept
    <2>3. ASSUME NEW f \in Frames, cur'[f] # None, cur'[f].gt = g, pc'[f] \in PastCheck
          PROVE  NoNodeWork(g)'
      <3>1. cur'[f] = cur[f]
        BY <2>3, FrameTasks
      <3>2. call[g] # "idle"
        BY <1>1, <2>3, <3>1
      <3> QED BY <1>2, <2>3, <3>2, NoWorkKept
    <2> QED BY <2>1, <2>2, <2>3
  <1>6. ASSUME NEW g \in GraphTasks, NoNodeWork(g), has_error'[g] PROVE has_error[g]
    <2>1. CASE UNCHANGED has_error
      BY <1>6, <2>1
    <2>2. CASE QuietStep /\ ~has_error[g]
      <3>1. PICK k \in Frames : cur[k] # None /\ cur[k].gt = g /\ pc[k] = "throw"
        BY <1>6, <2>2 DEF QuietStep, FlagMoves
      <3>2. cur[k].fn \in Nodes
        BY <3>1 DEF IInv, WellFormed, FrameWellFormed, Evaluating
      <3> QED BY <1>6, <3>1, <3>2, GraphAssumption DEF NoNodeWork, Evaluating
    <2> QED BY <2>1, <2>2, FlagsKept
  <1>7. ErrorSeen'
    <2> SUFFICES ASSUME NEW g \in GraphTasks, has_error'[g]
                 PROVE  /\ \/ future_completed'[g]
                           \/ \E f \in Frames : cur'[f] # None /\ cur'[f].gt = g /\ pc'[f] = "exception"
                        /\ future_result'[g] # "value"
                        /\ \A f \in Frames : cur'[f] # None /\ cur'[f].gt = g => pc'[f] # "post"
      BY DEF ErrorSeen
    <2>1. CASE ~has_error[g]
      <3>1. \E k \in Frames : cur'[k] # None /\ cur'[k].gt = g /\ pc'[k] = "exception"
        BY <2>1, FlagsKept DEF QuietStep, FlagMoves
      <3>2. ~NoNodeWork(g)
        BY <1>6, <2>1
      <3>3. future_result'[g] # "value"
        BY <1>4, <3>2
      <3> QED BY <1>2, <3>1, <3>2, <3>3 DEF PastCheck
    <2>2. CASE has_error[g]
      <3>1. future_result'[g] # "value"
        <4>1. CASE UNCHANGED futureVars
          BY <2>2, <4>1 DEF FinishInv, ErrorSeen
        <4>2. CASE QuietStep
          BY <2>2, <4>2 DEF FinishInv, ErrorSeen, QuietStep, FlagMoves
        <4> QED BY <4>1, <4>2, FlagsKept
      <3>2. ASSUME NEW f \in Frames, cur'[f] # None, cur'[f].gt = g, pc'[f] = "post" PROVE FALSE
        <4>1. /\ cur'[f] = cur[f]
              /\ pc[f] = "post" \/ (pc[f] = "mark" /\ ~future_completed[g])
          BY <3>2, FrameTasks DEF PastCheck
        <4>2. pc[f] = "mark" /\ ~future_completed[g]
          BY <2>2, <3>2, <4>1 DEF FinishInv, ErrorSeen
        <4>3. NoNodeWork(g)
          BY <3>2, <4>1, <4>2 DEF FinishInv, Finished, PastCheck
        <4>4. PICK k \in Frames : cur[k] # None /\ cur[k].gt = g /\ pc[k] = "exception"
          BY <2>2, <4>2 DEF FinishInv, ErrorSeen
        <4>5. cur[k].fn \in Nodes
          BY <4>4 DEF IInv, WellFormed, FrameWellFormed, Evaluating
        <4> QED BY <4>3, <4>4, <4>5, GraphAssumption DEF NoNodeWork, Evaluating
      <3>3. future_completed[g] => future_completed'[g]
        BY FlagsKept DEF QuietStep, FlagMoves
      <3>4. ASSUME NEW k \in Frames, cur[k] # None, cur[k].gt = g, pc[k] = "exception"
            PROVE  future_completed'[g] \/ (cur'[k] = cur[k] /\ pc'[k] = "exception")
        <4>1. CASE QuietStep
          BY <3>4, <4>1 DEF QuietStep, FrameMoves, Resting
        <4>2. CASE ~QuietStep
          <5>1. ASSUME NEW f \in Frames, NEW h \in GraphTasks, NEW n \in Nodes, TakesNode(f, h, n)
                PROVE  cur'[k] = cur[k] /\ pc'[k] = "exception"
            BY <3>4, <5>1 DEF TakesNode
          <5>2. ASSUME NEW f \in Frames, Begin(f) PROVE cur'[k] = cur[k] /\ pc'[k] = "exception"
            <6>1. /\ pc[f] = "got"
                  /\ cur' = cur \/ cur' = [cur EXCEPT ![f] = None]
                  /\ \E x : pc' = [pc EXCEPT ![f] = x]
              BY <5>2 DEF Begin
            <6> QED BY <3>4, <6>1 DEF IInv, TypeOK
          <5>3. ASSUME NEW f \in Frames, CallFunction(f) PROVE cur'[k] = cur[k] /\ pc'[k] = "exception"
            BY <3>4, <5>3, CallFunctionEffect
          <5>4. ASSUME NEW f \in Frames, PropagateEdge(f) PROVE cur'[k] = cur[k] /\ pc'[k] = "exception"
            <6>1. pc[f] = "edges" /\ cur' = cur /\ \E x : pc' = [pc EXCEPT ![f] = x]
              BY <5>4 DEF PropagateEdge
            <6> QED BY <3>4, <6>1 DEF IInv, TypeOK
          <5>5. ASSUME NEW h \in GraphTasks, Starts(h) PROVE cur'[k] = cur[k] /\ pc'[k] = "exception"
            <6>1. k # h
              BY <3>4, <5>5, NothingBefore DEF Starts
            <6> QED BY <3>4, <5>5, <6>1 DEF Starts
          <5> QED BY <4>2, <5>1, <5>2, <5>3, <5>4, <5>5, StepKinds
        <4> QED BY <4>1, <4>2
      <3> QED BY <2>2, <3>1, <3>2, <3>3, <3>4 DEF FinishInv, ErrorSeen
    <2> QED BY <2>1, <2>2
  <1> QED BY <1>5, <1>7 DEF FinishInv

LEMMA InitFinish == Init => FinishInv
  BY DEF Init, FinishInv, Finished, ErrorSeen

-----------------------------------------------------------------------------
(* The task of n was made and is no longer on its way to n's function,      *)
(* which has not returned: it never will.                                   *)
Past(g, n) ==
    /\ call[g] # "idle" /\ dependencies[g][n] = 0
    /\ ~Waiting(g, n) /\ n \notin evaluated[g]
    /\ \A f \in Frames : Held(f, g, n) => pc[f] \notin Early

(* A node whose inner pass did not end with a value never completes. *)
NestedInv ==
    \A g \in GraphTasks, n \in Nodes : Reenters[g][n] # None =>
        /\ (/\ call[Reenters[g][n]] \in {"returned", "aborted"}
            /\ future_result[Reenters[g][n]] # "value") => Past(g, n)
        /\ n \in evaluated[g] => future_result[Reenters[g][n]] = "value"

(* The pointwise effect of the steps that move no node's task. *)
LEMMA KeptTasks ==
  ASSUME FlowKept, NEW g \in GraphTasks, NEW n \in Nodes
  PROVE  /\ Waiting(g, n)' => Waiting(g, n)
         /\ \A f \in Frames : Held(f, g, n)' =>
               /\ Held(f, g, n)
               /\ pc'[f] \in Early => pc[f] \in Early
  <1>1. Waiting(g, n)' => Waiting(g, n)
    BY NodeTaskFacts DEF FlowKept, Waiting
  <1>2. ASSUME NEW f \in Frames, Held(f, g, n)'
        PROVE  Held(f, g, n) /\ (pc'[f] \in Early => pc[f] \in Early)
    <2>1. cur'[f] = NodeTask(g, n)
      BY <1>2 DEF Held
    <2>2. cur'[f] # None /\ cur'[f].fn # None
      BY <2>1, NodeTaskFacts
    <2> QED BY <2>1, <2>2 DEF FlowKept, FrameKept, Held
  <1> QED BY <1>1, <1>2

LEMMA PastKept ==
  ASSUME IInv, CountInv, FlowInv, [Next]_vars, NEW g \in GraphTasks, NEW n \in Nodes, Past(g, n)
  PROVE  Past(g, n)'
  <1>1. call'[g] # "idle"
    BY CallsKept DEF Past
  <1>2. CASE FlowKept
    BY <1>1, <1>2, KeptTasks DEF FlowKept, Past
  <1>3. ASSUME NEW f \in Frames, NEW h \in GraphTasks, NEW m \in Nodes, TakesNode(f, h, m)
        PROVE  Past(g, n)'
    <2>1. ~(h = g /\ m = n)
      BY <1>3 DEF TakesNode, Past
    <2>2. cur'[f] # NodeTask(g, n)
      BY <1>3, <2>1, NodeTaskFacts DEF TakesNode
    <2>3. \A k \in Frames : Held(k, g, n)' => Held(k, g, n) /\ pc'[k] = pc[k]
      BY <1>3, <2>2 DEF TakesNode, Held
    <2>4. ~Waiting(g, n)'
      BY <1>3 DEF TakesNode, Past, Waiting
    <2> QED BY <1>1, <1>3, <2>3, <2>4 DEF TakesNode, Past
  <1>4. ASSUME NEW f \in Frames, CallFunction(f) PROVE Past(g, n)'
    <2>1. PICK h \in GraphTasks, m \in Nodes :
             /\ Held(f, h, m) /\ pc[f] = "run"
             /\ evaluated' = [evaluated EXCEPT ![h] = @ \cup {m}]
             /\ UNCHANGED <<graphVars, heap, cur>>
             /\ \A k \in Frames : k # f => pc'[k] = pc[k]
      BY <1>4, CallFunctionEffect
    <2>2. ~(h = g /\ m = n)
      BY <2>1 DEF Past, Early
    <2>3. n \notin evaluated'[g]
      BY <2>1, <2>2 DEF Past, IInv, TypeOK
    <2>4. \A k \in Frames : Held(k, g, n)' => Held(k, g, n) /\ k # f
      BY <2>1, <2>2, OneTask DEF Held
    <2> QED BY <1>1, <2>1, <2>3, <2>4 DEF Past, Waiting
  <1>5. ASSUME NEW f \in Frames, NEW h \in GraphTasks, NEW m \in Nodes, NEW l \in Nodes,
               NEW i \in DOMAIN NextEdges[m], Flows(f, h, m, i, l)
        PROVE  Past(g, n)'
    <2>1. ~(h = g /\ l = n)
      BY <1>5 DEF Flows, Past
    <2>2. dependencies'[g][n] = 0 /\ n \notin evaluated'[g]
      BY <1>5, <2>1 DEF Flows, Past
    <2>3. ~Waiting(g, n)'
      <3>1. NodeTask(h, l) # NodeTask(g, n)
        BY <2>1, NodeTaskFacts
      <3> QED BY <1>5, <3>1 DEF Flows, Past, Waiting
    <2>4. ASSUME NEW k \in Frames, Held(k, g, n)' PROVE pc'[k] \notin Early
      <3>1. Held(k, g, n)
        BY <1>5, <2>4 DEF Flows, Held
      <3> QED BY <1>5, <3>1 DEF Flows, Past, Early
    <2> QED BY <1>1, <2>2, <2>3, <2>4 DEF Past
  <1>6. ASSUME NEW h \in GraphTasks, Starts(h) PROVE Past(g, n)'
    <2>1. h # g
      BY <1>6 DEF Starts, Past
    <2>2. dependencies'[g][n] = 0 /\ n \notin evaluated'[g]
      BY <1>6, <2>1 DEF Starts, Past
    <2>3. ~Waiting(g, n)'
      <3>1. NodeTask(h, Root[h]) # NodeTask(g, n)
        BY <2>1, NodeTaskFacts
      <3> QED BY <1>6, <3>1 DEF Starts, Past, Waiting
    <2>4. ASSUME NEW k \in Frames, Held(k, g, n)' PROVE pc'[k] \notin Early
      <3>1. Held(k, g, n)
        BY <1>6, <2>4 DEF Starts, Held
      <3> QED BY <1>6, <3>1 DEF Starts, Past, Early
    <2> QED BY <1>1, <2>2, <2>3, <2>4 DEF Past
  <1>7. ASSUME NEW f \in Frames, PropagateEdge(f) PROVE Past(g, n)'
    BY <1>2, <1>5, <1>7, PropagateEffect
  <1> QED BY <1>2, <1>3, <1>4, <1>6, <1>7, StepKinds, QuietFlow, BeginFlow

(* The inner call of node n returns to the frame that evaluates n. *)
LEMMA ReturnIsPast ==
  ASSUME IInv, CountInv, FlowInv, QuietStep, NEW g \in GraphTasks, NEW n \in Nodes,
         NEW h \in GraphTasks, h = Reenters[g][n],
         call'[h] # call[h], future_result'[h] # "value"
  PROVE  Past(g, n)'
  <1>1. h # None /\ \A c \in Callers : h \notin TopLevel[c]
    BY CallAssumption, EngineAssumption
  <1>2. PICK k \in Frames : ReturnsTo(k, h) /\ UNCHANGED futureVars
    BY <1>1 DEF QuietStep, CallMoves, ReturnToCaller
  <1>3. pc[k] = "reenter" /\ Inner(k) = h /\ pc'[k] = "throw" /\ cur'[k] = cur[k]
    BY <1>2 DEF ReturnsTo
  <1>4. /\ cur[k].gt \in GraphTasks /\ cur[k].fn \in Nodes
        /\ Held(k, cur[k].gt, cur[k].fn) /\ call[cur[k].gt] # "idle"
    BY <1>3, HeldNode DEF Evaluating
  <1>5. cur[k].gt = g /\ cur[k].fn = n
    BY <1>1, <1>3, <1>4, CallAssumption DEF Inner
  <1>6. FlowKept
    BY QuietFlow
  <1>7. dependencies[g][n] = 0 /\ ~Waiting(g, n) /\ n \notin evaluated[g] /\ Held(k, g, n)
    BY <1>3, <1>4, <1>5 DEF FlowInv, Once, Early
  <1>8. ASSUME NEW f \in Frames, Held(f, g, n)' PROVE pc'[f] \notin Early
    <2>1. Held(f, g, n)
      BY <1>6, <1>8, KeptTasks
    <2>2. f = k
      BY <1>7, <2>1 DEF FlowInv, Once
    <2> QED BY <1>3, <2>2 DEF Early
  <1>9. ~Waiting(g, n)'
    BY <1>6, <1>7, KeptTasks
  <1> QED BY <1>4, <1>5, <1>6, <1>7, <1>8, <1>9 DEF Past, FlowKept

(* A node is evaluated by the frame that has its task. *)
LEMMA NewlyEvaluated ==
  ASSUME IInv, CountInv, FlowInv, [Next]_vars, NEW g \in GraphTasks, NEW n \in Nodes,
         n \in evaluated'[g], n \notin evaluated[g]
  PROVE  \E f \in Frames : /\ CallFunction(f) /\ Held(f, g, n) /\ pc[f] = "run"
                           /\ Inner(f) = Reenters[g][n]
                           /\ Reenters[g][n] # None => call[Reenters[g][n]] = "returned"
  <1>1. ASSUME NEW f \in Frames, Begin(f) \/ PropagateEdge(f) PROVE UNCHANGED evaluated
    BY <1>1 DEF Begin, PropagateEdge
  <1>2. PICK f \in Frames : CallFunction(f)
    BY <1>1, StepKinds DEF TakesNode, Starts, QuietStep
  <1>3. /\ pc[f] = "run"
        /\ Inner(f) # None => call[Inner(f)] = "returned"
        /\ evaluated' = [evaluated EXCEPT ![cur[f].gt] = @ \cup {cur[f].fn}]
    BY <1>2 DEF CallFunction
  <1>4. cur[f].gt \in GraphTasks /\ cur[f].fn \in Nodes /\ Held(f, cur[f].gt, cur[f].fn)
    BY <1>3, HeldNode DEF Evaluating
  <1>5. cur[f].gt = g /\ cur[f].fn = n
    BY <1>3, <1>4 DEF IInv, TypeOK
  <1> QED BY <1>2, <1>3, <1>4, <1>5 DEF Inner

LEMMA NextNested ==
  ASSUME IInv, CountInv, FlowInv, FutureHasOneWriter, NestedInv, [Next]_vars
  PROVE  NestedInv'
  <1> SUFFICES ASSUME NEW g \in GraphTasks, NEW n \in Nodes, Reenters[g][n] # None
               PROVE  /\ (/\ call'[Reenters[g][n]] \in {"returned", "aborted"}
                          /\ future_result'[Reenters[g][n]] # "value") => Past(g, n)'
                      /\ n \in evaluated'[g] => future_result'[Reenters[g][n]] = "value"
    BY DEF NestedInv
  <1>1. PICK h \in GraphTasks : h = Reenters[g][n]
    BY EngineAssumption
  <1>2. future_result[h] = "value" => future_result'[h] = "value"
    BY NextOneWriter
  <1>3. ASSUME call'[h] \in {"returned", "aborted"}, future_result'[h] # "value" PROVE Past(g, n)'
    <2>1. CASE call'[h] = call[h]
      <3>1. Past(g, n)
        BY <1>1, <1>2, <1>3, <2>1 DEF NestedInv
      <3> QED BY <3>1, PastKept
    <2>2. CASE call'[h] # call[h]
      <3>1. ASSUME NEW f \in Frames, Begin(f) \/ CallFunction(f) \/ PropagateEdge(f)
            PROVE  UNCHANGED call
        BY <3>1 DEF Begin, CallFunction, PropagateEdge
      <3>2. QuietStep
        BY <1>3, <2>2, <3>1, StepKinds DEF TakesNode, Starts
      <3> QED BY <1>1, <1>3, <2>2, <3>2, ReturnIsPast
    <2> QED BY <2>1, <2>2
  <1>4. ASSUME n \in evaluated'[g] PROVE future_result'[h] = "value"
    <2>1. CASE n \in evaluated[g]
      BY <1>1, <1>2, <2>1 DEF NestedInv
    <2>2. CASE n \notin evaluated[g]
      <3>1. PICK f \in Frames :
               /\ CallFunction(f) /\ Held(f, g, n) /\ pc[f] = "run"
               /\ Inner(f) = Reenters[g][n] /\ call[Reenters[g][n]] = "returned"
        BY <1>4, <2>2, NewlyEvaluated
      <3>4. ~Past(g, n)
        BY <3>1 DEF Past, Early
      <3> QED BY <1>1, <1>2, <3>1, <3>4 DEF NestedInv
    <2> QED BY <2>1, <2>2
  <1> QED BY <1>1, <1>3, <1>4

LEMMA InitNested == Init => NestedInv
  BY EngineAssumption DEF Init, NestedInv

OutcomeInv == IInv /\ CountInv /\ FlowInv /\ FutureHasOneWriter /\ FinishInv

LEMMA InitOutcome == Init => OutcomeInv
  BY InitIInv, InitCounts, InitFlow, InitOneWriter, InitFinish DEF OutcomeInv

LEMMA NextOutcome == OutcomeInv /\ [Next]_vars => OutcomeInv'
  BY NextIInv, NextCounts, NextFlow, NextOneWriter, NextFinish DEF OutcomeInv

(* An error is never lost: not one raised on another thread while the pass  *)
(* ends, and not one of a nested pass, whose node then fails as well.       *)
THEOREM ErrorsAreNotLost == Spec => []ErrorWins
  <1>1. Init => NestedInv
    BY InitNested
  <1>2. OutcomeInv /\ NestedInv /\ [Next]_vars => NestedInv'
    BY NextNested DEF OutcomeInv
  <1>3. OutcomeInv /\ NestedInv => ErrorWins
    BY DEF OutcomeInv, NestedInv, FinishInv, ErrorSeen, ErrorWins, IInv, TypeOK
  <1> QED BY <1>1, <1>2, <1>3, InitOutcome, NextOutcome, PTL DEF Spec

-----------------------------------------------------------------------------
(* What may happen to the task of a node. *)
LEMMA HeldMoves ==
  ASSUME IInv, CountInv, FlowInv, [Next]_vars, NEW f \in Frames, NEW g \in GraphTasks,
         NEW n \in Nodes, Held(f, g, n), pc[f] \in {"got", "run", "reenter", "throw", "edges"}
  PROVE  \/ Held(f, g, n)' /\ pc'[f] = pc[f] /\ edge'[f] = edge[f]
         \/ pc[f] = "got" /\ Begin(f)
         \/ pc[f] = "run" /\ CallFunction(f)
         \/ pc[f] \in {"run", "reenter"} /\ Held(f, g, n)' /\ pc'[f] \in {"run", "reenter", "throw"}
         \/ pc[f] = "throw" /\ has_error'[g]
         \/ pc[f] = "edges" /\ PropagateEdge(f)
  <1>0. cur[f] # None /\ cur[f].gt = g
    BY NodeTaskFacts DEF Held
  <1>1. CASE QuietStep
    <2>1. edge' = edge /\ FrameMoves(f)
      BY <1>1 DEF QuietStep
    <2> QED BY <1>0, <2>1 DEF FrameMoves, Held, Resting
  <1>2. ASSUME NEW k \in Frames, NEW h \in GraphTasks, NEW m \in Nodes, TakesNode(k, h, m)
        PROVE  Held(f, g, n)' /\ pc'[f] = pc[f] /\ edge'[f] = edge[f]
    BY <1>2 DEF TakesNode, Held
  <1>3. ASSUME NEW k \in Frames, k # f, Begin(k)
        PROVE  Held(f, g, n)' /\ pc'[f] = pc[f] /\ edge'[f] = edge[f]
    <2>1. /\ edge' = edge /\ \E x : pc' = [pc EXCEPT ![k] = x]
          /\ cur' = cur \/ cur' = [cur EXCEPT ![k] = None]
      BY <1>3 DEF Begin
    <2> QED BY <1>3, <2>1 DEF IInv, TypeOK, Held
  <1>4. ASSUME NEW k \in Frames, k # f, CallFunction(k)
        PROVE  Held(f, g, n)' /\ pc'[f] = pc[f] /\ edge'[f] = edge[f]
    <2>1. cur' = cur /\ (\E x : pc' = [pc EXCEPT ![k] = x]) /\ edge' = [edge EXCEPT ![k] = 1]
      BY <1>4 DEF CallFunction
    <2> QED BY <1>4, <2>1 DEF IInv, TypeOK, Held
  <1>5. ASSUME NEW k \in Frames, k # f, PropagateEdge(k)
        PROVE  Held(f, g, n)' /\ pc'[f] = pc[f] /\ edge'[f] = edge[f]
    <2>1. /\ cur' = cur /\ \E x : pc' = [pc EXCEPT ![k] = x]
          /\ edge' = edge \/ \E x : edge' = [edge EXCEPT ![k] = x]
      BY <1>5 DEF PropagateEdge
    <2> QED BY <1>5, <2>1 DEF IInv, TypeOK, Held
  <1>6. ASSUME NEW k \in Frames, Begin(k) \/ CallFunction(k) \/ PropagateEdge(k), k = f
        PROVE  \/ pc[f] = "got" /\ Begin(f)
               \/ pc[f] = "run" /\ CallFunction(f)
               \/ pc[f] = "edges" /\ PropagateEdge(f)
    <2>1. Begin(f) => pc[f] = "got"
      BY DEF Begin
    <2>2. CallFunction(f) => pc[f] = "run"
      BY DEF CallFunction
    <2>3. PropagateEdge(f) => pc[f] = "edges"
      BY DEF PropagateEdge
    <2> QED BY <1>6, <2>1, <2>2, <2>3
  <1>7. ASSUME NEW h \in GraphTasks, Starts(h)
        PROVE  \/ Held(f, g, n)' /\ pc'[f] = pc[f] /\ edge'[f] = edge[f]
               \/ pc[f] = "run" /\ Held(f, g, n)' /\ pc'[f] = "reenter"
    <2>1. f # h
      BY <1>7, NothingBefore DEF Starts
    <2> QED BY <1>7, <2>1 DEF Starts, Held
  <1> QED BY <1>1, <1>2, <1>3, <1>4, <1>5, <1>6, <1>7, StepKinds

(* A queued node stays queued until a frame takes its task. *)
LEMMA WaitingMoves ==
  ASSUME IInv, CountInv, FlowInv, [Next]_vars, NEW g \in GraphTasks, NEW n \in Nodes, Waiting(g, n)
  PROVE  Waiting(g, n)' \/ \E f \in Frames : Held(f, g, n)' /\ pc'[f] = "got"
  <1>1. PICK q \in Queues : NodeTask(g, n) \in heap[q]
    BY DEF Waiting
  <1>2. CASE QuietStep
    BY <1>1, <1>2, NodeTaskFacts DEF QuietStep, Waiting
  <1>3. ASSUME NEW k \in Frames, NEW h \in GraphTasks, NEW m \in Nodes, TakesNode(k, h, m)
        PROVE  Waiting(g, n)' \/ \E f \in Frames : Held(f, g, n)' /\ pc'[f] = "got"
    BY <1>1, <1>3, NodeTaskFacts DEF TakesNode, Waiting, Held
  <1>4. ASSUME NEW k \in Frames, Begin(k) \/ CallFunction(k) PROVE Waiting(g, n)'
    <2>1. heap' = heap
      BY <1>4 DEF Begin, CallFunction
    <2> QED BY <2>1 DEF Waiting
  <1>5. ASSUME NEW k \in Frames, PropagateEdge(k) PROVE Waiting(g, n)'
    <2>1. heap' = heap \/ \A t \in heap[q] : t \in heap'[q]
      BY <1>5, PropagateEffect DEF Flows
    <2> QED BY <1>1, <2>1 DEF Waiting
  <1>6. ASSUME NEW h \in GraphTasks, Starts(h) PROVE Waiting(g, n)'
    BY <1>1, <1>6 DEF Starts, Waiting
  <1> QED BY <1>2, <1>3, <1>4, <1>5, <1>6, StepKinds

(* What a pass has done is never undone. *)
LEMMA ProgressKept ==
  ASSUME IInv, CountInv, FlowInv, [Next]_vars, NEW g \in GraphTasks, call[g] # "idle"
  PROVE  /\ evaluated[g] \subseteq evaluated'[g] /\ captured[g] \subseteq captured'[g]
         /\ has_error[g] => has_error'[g]
         /\ \A n \in Nodes :
               \/ /\ dependencies'[g][n] = dependencies[g][n] /\ inputs'[g][n] = inputs[g][n]
                  /\ n \in not_ready'[g] <=> n \in not_ready[g]
               \/ \E f \in Frames, m \in Nodes : \E i \in DOMAIN NextEdges[m] : Flows(f, g, m, i, n)
  <1>1. CASE QuietStep
    BY <1>1 DEF QuietStep, FlagMoves
  <1>2. ASSUME NEW k \in Frames, NEW h \in GraphTasks, NEW m \in Nodes, TakesNode(k, h, m)
        PROVE  UNCHANGED <<graphVars, evaluated, captured, has_error>>
    BY <1>2 DEF TakesNode
  <1>3. ASSUME NEW k \in Frames, Begin(k)
        PROVE  /\ UNCHANGED <<graphVars, evaluated, has_error>>
               /\ captured[g] \subseteq captured'[g]
    <2>1. /\ UNCHANGED <<graphVars, evaluated, has_error>>
          /\ \/ captured' = captured
             \/ captured' = [captured EXCEPT ![cur[k].gt] = @ \cup {cur[k].fn}]
      <3>1. UNCHANGED <<graphVars, evaluated, has_error>>
        BY <1>3 DEF Begin
      <3>2. captured' = captured \/ captured' = [captured EXCEPT ![cur[k].gt] = @]
            \/ captured' = [captured EXCEPT ![cur[k].gt] = @ \cup {cur[k].fn}]
        BY <1>3 DEF Begin
      <3>3. captured = [captured EXCEPT ![cur[k].gt] = @]
        BY DEF IInv, TypeOK
      <3> QED BY <3>1, <3>2, <3>3
    <2>2. captured \in [GraphTasks -> SUBSET Nodes]
      BY DEF IInv, TypeOK
    <2>3. CASE captured' = [captured EXCEPT ![cur[k].gt] = @ \cup {cur[k].fn}]
      BY <2>1, <2>2, <2>3
    <2> QED BY <2>1, <2>3
  <1>4. ASSUME NEW k \in Frames, CallFunction(k)
        PROVE  /\ UNCHANGED <<graphVars, captured, has_error>>
               /\ evaluated[g] \subseteq evaluated'[g]
    <2>1. /\ UNCHANGED <<graphVars, captured, has_error>>
          /\ evaluated' = [evaluated EXCEPT ![cur[k].gt] = @ \cup {cur[k].fn}]
      BY <1>4 DEF CallFunction
    <2> QED BY <2>1 DEF IInv, TypeOK
  <1>5. ASSUME NEW k \in Frames, PropagateEdge(k)
        PROVE  /\ UNCHANGED <<evaluated, captured, has_error>>
               /\ \A n \in Nodes :
                     \/ /\ dependencies'[g][n] = dependencies[g][n] /\ inputs'[g][n] = inputs[g][n]
                        /\ n \in not_ready'[g] <=> n \in not_ready[g]
                     \/ \E f \in Frames, m \in Nodes : \E i \in DOMAIN NextEdges[m] : Flows(f, g, m, i, n)
    <2>1. UNCHANGED <<evaluated, captured, has_error>>
      BY <1>5 DEF PropagateEdge
    <2>2. CASE FlowKept
      BY <2>1, <2>2 DEF FlowKept
    <2>3. ASSUME NEW h \in GraphTasks, NEW m \in Nodes, NEW l \in Nodes,
                 NEW i \in DOMAIN NextEdges[m], Flows(k, h, m, i, l), NEW n \in Nodes
          PROVE  \/ /\ dependencies'[g][n] = dependencies[g][n] /\ inputs'[g][n] = inputs[g][n]
                    /\ n \in not_ready'[g] <=> n \in not_ready[g]
                 \/ \E f \in Frames, a \in Nodes : \E j \in DOMAIN NextEdges[a] : Flows(f, g, a, j, n)
      <3>1. CASE h = g /\ l = n
        BY <2>3, <3>1
      <3>2. CASE ~(h = g /\ l = n)
        BY <2>3, <3>2 DEF Flows
      <3> QED BY <3>1, <3>2
    <2> QED BY <1>5, <2>1, <2>2, <2>3, PropagateEffect
  <1>6. ASSUME NEW h \in GraphTasks, Starts(h)
        PROVE  UNCHANGED <<not_ready, inputs, evaluated, captured, has_error>>
               /\ dependencies'[g] = dependencies[g]
    BY <1>6 DEF Starts
  <1> QED BY <1>1, <1>2, <1>3, <1>4, <1>5, <1>6, StepKinds

-----------------------------------------------------------------------------
(* Frame f has not come to output j of its node, or will fail *)
Sends(f, j) == pc[f] = "throw" \/ (pc[f] = "edges" /\ edge[f] <= j)

(* As long as nothing failed, the gradients of a node that ran are in the   *)
(* buffers they go to, or the frame that ran it is about to put them there. *)
Delivered ==
    \A g \in GraphTasks : ~has_error[g] =>
        \A m \in Nodes : \A j \in DOMAIN NextEdges[m] :
            (m \in evaluated[g] /\ NextEdges[m][j] # None /\ ~Skipped(g, NextEdges[m][j])) =>
               \/ <<m, j>> \in inputs[g][NextEdges[m][j]]
               \/ \E f \in Frames : Held(f, g, m) /\ Sends(f, j)

LEMMA SendsKept ==
  ASSUME IInv, CountInv, FlowInv, NEW g \in GraphTasks, NEW m \in Nodes, NEW j \in DOMAIN NextEdges[m],
         NextEdges[m][j] # None, ~Skipped(g, NextEdges[m][j]),
         NEW f \in Frames, Held(f, g, m), pc[f] = "edges", edge[f] <= j, PropagateEdge(f)
  PROVE  \/ <<m, j>> \in inputs'[g][NextEdges[m][j]]
         \/ Held(f, g, m)' /\ Sends(f, j)'
  <1>1. j \in Nat /\ edge[f] \in Nat /\ j <= Len(NextEdges[m]) /\ Len(NextEdges[m]) \in Nat
    <2>1. NextEdges[m] \in Seq(Nodes \cup {None})
      BY GraphAssumption
    <2>2. edge[f] \in Nat
      BY DEF IInv, TypeOK
    <2> QED BY <2>1, <2>2
  <1>2. ASSUME NEW h \in GraphTasks, NEW a \in Nodes, Held(f, h, a), UNCHANGED cur,
               \/ /\ pc'[f] = "throw" /\ edge'[f] = edge[f]
               \/ /\ NextEdges[a][edge[f]] = None /\ edge'[f] = edge[f] + 1
                  /\ pc'[f] = IF edge[f] = Len(NextEdges[a]) THEN "dec" ELSE "edges"
        PROVE  Held(f, g, m)' /\ Sends(f, j)'
    <2>1. h = g /\ a = m
      BY <1>2, OneTask
    <2>2. Held(f, g, m)'
      BY <1>2 DEF Held
    <2>3. CASE pc'[f] = "throw"
      BY <2>2, <2>3 DEF Sends
    <2>4. CASE pc'[f] # "throw"
      <3>1. edge[f] # j
        BY <1>2, <2>1, <2>4
      <3>2. edge[f] + 1 <= j /\ edge[f] # Len(NextEdges[m])
        BY <1>1, <3>1
      <3> QED BY <1>2, <2>1, <2>2, <2>4, <3>2 DEF Sends
    <2> QED BY <2>3, <2>4
  <1>3. ASSUME NEW h \in GraphTasks, NEW a \in Nodes, NEW n \in Nodes, NEW i \in DOMAIN NextEdges[a],
               Flows(f, h, a, i, n)
        PROVE  \/ <<m, j>> \in inputs'[g][NextEdges[m][j]]
               \/ Held(f, g, m)' /\ Sends(f, j)'
    <2>1. h = g /\ a = m /\ i = edge[f] /\ n = NextEdges[a][i]
      BY <1>3, OneTask DEF Flows
    <2>2. Held(f, g, m)'
      BY <1>3 DEF Flows, Held
    <2>3. CASE i = j
      BY <1>3, <2>1, <2>3 DEF Flows
    <2>4. CASE i # j
      <3>1. edge[f] + 1 <= j /\ edge[f] # Len(NextEdges[m])
        BY <1>1, <2>1, <2>4
      <3> QED BY <1>3, <2>1, <2>2, <3>1 DEF Flows, Sends
    <2> QED BY <2>3, <2>4
  <1> QED BY <1>2, <1>3, PropagateEffect

LEMMA NextDelivered ==
  ASSUME IInv, CountInv, FlowInv, Delivered, [Next]_vars
  PROVE  Delivered'
  <1> SUFFICES ASSUME NEW g \in GraphTasks, ~has_error'[g],
                      NEW m \in Nodes, NEW j \in DOMAIN NextEdges[m], m \in evaluated'[g],
                      NextEdges[m][j] # None, ~Skipped(g, NextEdges[m][j])
               PROVE  \/ <<m, j>> \in inputs'[g][NextEdges[m][j]]
                      \/ \E f \in Frames : Held(f, g, m)' /\ Sends(f, j)'
    BY DEF Delivered, Skipped
  <1>1. CASE m \notin evaluated[g]
    <2>1. PICK f \in Frames : CallFunction(f) /\ Held(f, g, m)
      BY <1>1, NewlyEvaluated
    <2>2. cur[f].fn = m /\ cur[f].gt = g
      BY <2>1, NodeTaskFacts DEF Held
    <2>3. Len(NextEdges[m]) # 0 /\ 1 <= j
      <3>1. NextEdges[m] \in Seq(Nodes \cup {None})
        BY GraphAssumption
      <3> QED BY <3>1
    <2>4. cur' = cur /\ pc'[f] = "edges" /\ edge'[f] = 1
      BY <2>1, <2>2, <2>3 DEF CallFunction, IInv, TypeOK
    <2> QED BY <2>1, <2>3, <2>4 DEF Held, Sends
  <1>2. CASE m \in evaluated[g]
    <2>1. call[g] # "idle"
      BY <1>2 DEF FlowInv, Arrivals
    <2>2. ~has_error[g]
      BY <2>1, ProgressKept
    <2>3. NextEdges[m][j] \in Nodes
      BY EdgeFacts
    <2>4. CASE <<m, j>> \in inputs[g][NextEdges[m][j]]
      BY <2>1, <2>3, <2>4, ProgressKept DEF Flows
    <2>5. ASSUME NEW f \in Frames, Held(f, g, m), Sends(f, j)
          PROVE  \/ <<m, j>> \in inputs'[g][NextEdges[m][j]]
                 \/ Held(f, g, m)' /\ Sends(f, j)'
      <3>1. \/ Held(f, g, m)' /\ pc'[f] = pc[f] /\ edge'[f] = edge[f]
            \/ pc[f] = "edges" /\ PropagateEdge(f)
        BY <2>5, HeldMoves DEF Sends
      <3> QED BY <2>5, <3>1, SendsKept DEF Sends
    <2> QED BY <1>2, <2>2, <2>4, <2>5 DEF Delivered
  <1> QED BY <1>1, <1>2

-----------------------------------------------------------------------------
(* A graph task nobody refers to is not referred to again. *)
LEMMA DeadStaysDead ==
  ASSUME IInv, CountInv, FlowInv, [Next]_vars, NEW g \in GraphTasks, call[g] # "idle", Alive(g)'
  PROVE  Alive(g)
  <1> USE DEF Holds
  <1>1. CASE QuietStep
    <2>1. call'[g] \in {"inline", "handed"} => call[g] \in {"inline", "handed"}
      BY <1>1 DEF QuietStep, CallMoves
    <2>2. pc'[g] # "done" => pc[g] # "done"
      BY <1>1, EngineAssumption DEF QuietStep, FrameMoves, Resting
    <2>3. ASSUME NEW k \in Frames, Holds(k, g)' PROVE Holds(k, g)
      BY <1>1, <2>3 DEF QuietStep, FrameMoves, Resting
    <2>4. thread'[g] = thread[g] \/ Alive(g)
      BY <1>1 DEF QuietStep
    <2> QED BY <2>1, <2>2, <2>3, <2>4, AliveKept DEF Alive
  <1>2. ASSUME NEW f \in Frames, NEW h \in GraphTasks, NEW n \in Nodes, TakesNode(f, h, n)
        PROVE  Alive(g)
    <2>1. \A k \in Frames : Holds(k, g)' => Holds(k, g)
      BY <1>2 DEF TakesNode
    <2>2. pc'[g] # "done" => pc[g] # "done"
      BY <1>2 DEF TakesNode
    <2>3. UNCHANGED <<call, thread>>
      BY <1>2 DEF TakesNode
    <2> QED BY <2>1, <2>2, <2>3, AliveKept
  <1>3. ASSUME NEW f \in Frames, Begin(f) PROVE Alive(g)
    <2>1. /\ UNCHANGED <<call, thread>> /\ pc[f] = "got"
          /\ \E x : pc' = [pc EXCEPT ![f] = x]
          /\ \/ cur' = [cur EXCEPT ![f] = None]
             \/ cur' = cur /\ Alive(cur[f].gt)
      BY <1>3 DEF Begin
    <2>2. ASSUME NEW k \in Frames, Holds(k, g)' PROVE Holds(k, g) \/ Alive(g)
      <3>1. CASE k = f
        BY <2>1, <2>2, <3>1 DEF IInv, TypeOK
      <3>2. CASE k # f
        BY <2>1, <2>2, <3>2 DEF IInv, TypeOK
      <3> QED BY <3>1, <3>2
    <2>3. pc'[g] # "done" => pc[g] # "done"
      BY <2>1 DEF IInv, TypeOK
    <2> QED BY <2>1, <2>2, <2>3, AliveKept
  <1>4. ASSUME NEW f \in Frames, CallFunction(f) \/ PropagateEdge(f) PROVE Alive(g)
    <2>1. /\ UNCHANGED <<call, thread, cur>> /\ pc[f] \in {"run", "edges"}
          /\ \E x : pc' = [pc EXCEPT ![f] = x]
      <3>1. CASE CallFunction(f)
        BY <3>1 DEF CallFunction
      <3>2. CASE PropagateEdge(f)
        BY <3>2 DEF PropagateEdge
      <3> QED BY <1>4, <3>1, <3>2
    <2>2. \A k \in Frames : Holds(k, g)' => Holds(k, g)
      BY <2>1 DEF IInv, TypeOK
    <2>3. pc'[g] # "done" => pc[g] # "done"
      BY <2>1 DEF IInv, TypeOK
    <2> QED BY <2>1, <2>2, <2>3, AliveKept
  <1>5. ASSUME NEW h \in GraphTasks, Starts(h) PROVE Alive(g)
    <2>1. h # g /\ pc[h] = "idle" /\ call'[g] = call[g] /\ thread'[g] = thread[g]
      BY <1>5, NothingBefore DEF Starts
    <2>2. \A k \in Frames : Holds(k, g)' => Holds(k, g)
      BY <1>5, <2>1 DEF Starts
    <2>3. pc'[g] # "done" => pc[g] # "done"
      BY <1>5, <2>1 DEF Starts
    <2> QED BY <2>1, <2>2, <2>3, AliveKept
  <1> QED BY <1>1, <1>2, <1>3, <1>4, <1>5, StepKinds

-----------------------------------------------------------------------------
(* All gradients of n are there. *)
Arrived(g, n) ==
    \/ n = Root[g]
    \/ ~Skipped(g, n) /\ inputs[g][n] # {} /\ dependencies[g][n] = 0

(* The task of n is in a queue or was just taken from it *)
Ready(g, n) == Waiting(g, n) \/ \E f \in Frames : Held(f, g, n) /\ pc[f] = "got"

(* evaluate_function did its part for n, or is about to: the gradient is    *)
(* captured, and the function ran, runs, or failed                          *)
Consumes(g, n) ==
    /\ n \in CaptureOf[g] => n \in captured[g]
    /\ n \in NeededOf[g] => \/ n \in evaluated[g]
                             \/ \E f \in Frames : /\ Held(f, g, n)
                                                   /\ pc[f] \in {"run", "reenter", "throw"}

(* As long as nothing failed and the graph task is referred to, a node that *)
(* has all its gradients is on its way or done.                             *)
Consumed ==
    \A g \in GraphTasks : (call[g] # "idle" /\ Alive(g) /\ ~has_error[g]) =>
        \A n \in Nodes : Arrived(g, n) => Ready(g, n) \/ Consumes(g, n)

(* The gradient of a node is captured, and its function called, when a      *)
(* frame begins with its task.                                              *)
LEMMA BeginConsumes ==
  ASSUME IInv, NEW f \in Frames, NEW g \in GraphTasks, NEW n \in Nodes, Held(f, g, n),
         Begin(f), Alive(g), ~has_error[g]
  PROVE  Consumes(g, n)'
  <1>1. cur[f].gt = g /\ cur[f].fn = n /\ n # None
    BY NodeTaskFacts, GraphAssumption DEF Held
  <1>2. /\ captured' = [captured EXCEPT ![g] = IF n \in CaptureOf[g] THEN @ \cup {n} ELSE @]
        /\ pc' = [pc EXCEPT ![f] = IF n \in NeededOf[g] THEN "run" ELSE "dec"]
        /\ cur' = cur
    BY <1>1 DEF Begin, IsCaptured, IsCalled
  <1>3. n \in CaptureOf[g] => n \in captured'[g]
    BY <1>2 DEF IInv, TypeOK
  <1>4. n \in NeededOf[g] => Held(f, g, n)' /\ pc'[f] = "run"
    BY <1>2 DEF IInv, TypeOK, Held
  <1> QED BY <1>3, <1>4 DEF Consumes

LEMMA ConsumesKept ==
  ASSUME IInv, CountInv, FlowInv, [Next]_vars, NEW g \in GraphTasks, NEW n \in Nodes,
         call[g] # "idle", ~has_error'[g], Consumes(g, n)
  PROVE  Consumes(g, n)'
  <1>1. evaluated[g] \subseteq evaluated'[g] /\ captured[g] \subseteq captured'[g]
    BY ProgressKept
  <1>2. ASSUME NEW f \in Frames, Held(f, g, n), pc[f] \in {"run", "reenter", "throw"}
        PROVE  \/ n \in evaluated'[g]
               \/ Held(f, g, n)' /\ pc'[f] \in {"run", "reenter", "throw"}
    <2>1. CASE CallFunction(f)
      <3>1. cur[f].gt = g /\ cur[f].fn = n
        BY <1>2, NodeTaskFacts DEF Held
      <3>2. evaluated' = [evaluated EXCEPT ![g] = @ \cup {n}]
        BY <2>1, <3>1 DEF CallFunction
      <3> QED BY <3>2 DEF IInv, TypeOK
    <2>2. CASE ~CallFunction(f)
      BY <1>2, <2>2, HeldMoves
    <2> QED BY <2>1, <2>2
  <1> QED BY <1>1, <1>2 DEF Consumes

LEMMA NextConsumed ==
  ASSUME IInv, CountInv, FlowInv, Consumed, [Next]_vars
  PROVE  Consumed'
  <1> SUFFICES ASSUME NEW g \in GraphTasks, call'[g] # "idle", Alive(g)', ~has_error'[g],
                      NEW n \in Nodes, Arrived(g, n)'
               PROVE  Ready(g, n)' \/ Consumes(g, n)'
    BY DEF Consumed
  <1>1. CASE call[g] = "idle"
    <2>1. Starts(g)
      <3>1. ASSUME NEW f \in Frames, Begin(f) \/ CallFunction(f) \/ PropagateEdge(f) PROVE UNCHANGED call
        BY <3>1 DEF Begin, CallFunction, PropagateEdge
      <3> QED BY <1>1, <3>1, StepKinds DEF QuietStep, CallMoves, TakesNode, Starts
    <2>2. inputs'[g][n] = {}
      BY <1>1, <2>1 DEF Starts, FlowInv, Arrivals
    <2>3. n = Root[g]
      BY <2>2 DEF Arrived
    <2> QED BY <2>1, <2>3 DEF Starts, Ready
  <1>2. CASE call[g] # "idle"
    <2>1. Alive(g) /\ ~has_error[g]
      BY <1>2, DeadStaysDead, ProgressKept
    <2>2. CASE Arrived(g, n)
      <3>1. CASE Waiting(g, n)
        BY <3>1, WaitingMoves DEF Ready
      <3>2. ASSUME NEW f \in Frames, Held(f, g, n), pc[f] = "got"
            PROVE  Ready(g, n)' \/ Consumes(g, n)'
        <4>1. CASE Begin(f)
          BY <2>1, <3>2, <4>1, BeginConsumes
        <4>2. CASE ~Begin(f)
          BY <3>2, <4>2, HeldMoves DEF Ready
        <4> QED BY <4>1, <4>2
      <3>3. CASE Consumes(g, n)
        BY <1>2, <3>3, ConsumesKept
      <3> QED BY <1>2, <2>1, <2>2, <3>1, <3>2, <3>3 DEF Consumed, Ready
    <2>3. CASE ~Arrived(g, n)
      <3>1. \/ dependencies'[g][n] # dependencies[g][n]
            \/ inputs'[g][n] # inputs[g][n]
        BY <2>3 DEF Arrived, Skipped
      <3>2. PICK f \in Frames, m \in Nodes : \E i \in DOMAIN NextEdges[m] : Flows(f, g, m, i, n)
        BY <1>2, <3>1, ProgressKept
      <3>3. ~Skipped(g, n) /\ dependencies'[g][n] = 0
        BY <2>3 DEF Arrived, Skipped
      <3> QED BY <3>2, <3>3 DEF Flows, Ready
    <2> QED BY <2>2, <2>3
  <1> QED BY <1>1, <1>2

-----------------------------------------------------------------------------
(* The final callbacks are counted by index; they are installed by node     *)
(* functions and by each other.                                             *)
LEMMA CallbackMoves ==
  ASSUME IInv, CountInv, FlowInv, [Next]_vars, NEW g \in GraphTasks
  PROVE  \/ callbacks_run'[g] = callbacks_run[g] /\ final_callbacks'[g] = final_callbacks[g]
         \/ \E f \in Frames, n \in Nodes :
               /\ Held(f, g, n) /\ pc[f] = "run"
               /\ callbacks_run'[g] = callbacks_run[g] /\ final_callbacks'[g] >= final_callbacks[g]
         \/ \E f \in Frames :
               /\ cur[f] # None /\ cur[f].gt = g /\ pc[f] = "post" /\ MoreCallbacks(g)
               /\ callbacks_run'[g] = callbacks_run[g] + 1 /\ final_callbacks'[g] >= final_callbacks[g]
  <1>0. final_callbacks \in [GraphTasks -> Nat] /\ callbacks_run \in [GraphTasks -> Nat]
    BY DEF IInv, TypeOK
  <1>1. ASSUME NEW f \in Frames, FrameStep(f)
        PROVE  \/ UNCHANGED callbackVars \/ CallFunction(f) \/ RunFinalCallback(f)
    <2>1. CASE Pop(f) \/ Begin(f) \/ Reenter(f) \/ ReturnToParent(f) \/ Throw(f) \/ PropagateEdge(f)
      BY <2>1 DEF Pop, Begin, Reenter, Execute, ReturnToParent, Throw, PropagateEdge
    <2>2. CASE \/ SetHasError(f) \/ SetException(f) \/ SetError(f) \/ DecrementOutstanding(f)
               \/ CheckCompleted(f) \/ MarkAsCompleted(f) \/ AwaitFuture(f)
               \/ ExecPostProcessing(f) \/ NotifyOwner(f)
      BY <2>2 DEF SetHasError, SetException, SetError, DecrementOutstanding, CheckCompleted,
                  MarkAsCompleted, AwaitFuture, ExecPostProcessing, FinishFuture, NotifyOwner
    <2> QED BY <1>1, <2>1, <2>2 DEF FrameStep, EvaluateStep, CompleteStep
  <1>2. CASE ~\E f \in Frames : FrameStep(f)
    <2>1. ASSUME NEW c \in Callers, NEW h \in GraphTasks, Backward(c, h) PROVE UNCHANGED callbackVars
      BY <2>1 DEF Backward, Execute
    <2>2. ASSUME NEW h \in GraphTasks, CallStep(h) PROVE UNCHANGED callbackVars
      BY <2>2 DEF CallStep, LoopCondition, AddThreadPoolTask, ReturnToCaller
    <2>3. ASSUME NEW p \in PoolThreads, PoolStep(p) PROVE UNCHANGED callbackVars
      BY <2>3 DEF PoolStep, WorkerWait, WorkerTake, WorkerDone
    <2>4. CASE StartStep \/ StopStep
      BY <2>4 DEF StartStep, StopStep, StartDeviceThreads, DeviceThreadsStarted, ThreadInit,
                  ThreadExit, Stop, StopWait, StopCheck, PushShutdownTask
    <2>5. CASE UNCHANGED vars
      BY <2>5 DEF vars
    <2> QED BY <1>2, <2>1, <2>2, <2>3, <2>4, <2>5 DEF Next, Terminating
  <1>3. ASSUME NEW f \in Frames, CallFunction(f)
        PROVE  \/ callbacks_run'[g] = callbacks_run[g] /\ final_callbacks'[g] = final_callbacks[g]
               \/ \E n \in Nodes :
                     /\ Held(f, g, n) /\ pc[f] = "run"
                     /\ callbacks_run'[g] = callbacks_run[g] /\ final_callbacks'[g] >= final_callbacks[g]
    <2>1. /\ pc[f] = "run" /\ callbacks_run' = callbacks_run
          /\ \/ final_callbacks' = [final_callbacks EXCEPT ![cur[f].gt] = @ + 1]
             \/ final_callbacks' = [final_callbacks EXCEPT ![cur[f].gt] = @]
      BY <1>3 DEF CallFunction
    <2>2. cur[f].gt \in GraphTasks /\ cur[f].fn \in Nodes /\ Held(f, cur[f].gt, cur[f].fn)
      BY <2>1, HeldNode DEF Evaluating
    <2>3. CASE cur[f].gt = g
      BY <1>0, <2>1, <2>2, <2>3
    <2>4. CASE cur[f].gt # g
      BY <1>0, <2>1, <2>4
    <2> QED BY <2>3, <2>4
  <1>4. ASSUME NEW f \in Frames, RunFinalCallback(f)
        PROVE  \/ callbacks_run'[g] = callbacks_run[g] /\ final_callbacks'[g] = final_callbacks[g]
               \/ /\ cur[f] # None /\ cur[f].gt = g /\ pc[f] = "post" /\ MoreCallbacks(g)
                  /\ callbacks_run'[g] = callbacks_run[g] + 1 /\ final_callbacks'[g] >= final_callbacks[g]
    <2>1. /\ pc[f] = "post" /\ MoreCallbacks(cur[f].gt)
          /\ callbacks_run' = [callbacks_run EXCEPT ![cur[f].gt] = @ + 1]
          /\ \E x \in {0, 1} : final_callbacks' = [final_callbacks EXCEPT ![cur[f].gt] = @ + x]
      BY <1>4 DEF RunFinalCallback
    <2>2. cur[f] # None
      BY <2>1, HeldTask DEF Completing
    <2>3. CASE cur[f].gt = g
      BY <1>0, <2>1, <2>2, <2>3
    <2>4. CASE cur[f].gt # g
      BY <1>0, <2>1, <2>4
    <2> QED BY <2>3, <2>4
  <1> QED BY <1>1, <1>2, <1>3, <1>4

-----------------------------------------------------------------------------
(* No node of a graph is newer than its root. *)
LEMMA RootIsNewest ==
  ASSUME NEW g \in GraphTasks, NEW n \in NodesOf[g]
  PROVE  /\ TopologicalNr[n] \in Nat /\ TopologicalNr[Root[g]] \in Nat
         /\ TopologicalNr[n] <= TopologicalNr[Root[g]]
  <1> DEFINE S == {m \in Nodes : TopologicalNr[m] <= TopologicalNr[Root[g]]}
  <1>1. Root[g] \in S /\ S \in SUBSET Nodes /\ TopologicalNr[Root[g]] \in Nat
    BY EngineAssumption, GraphAssumption
  <1>2. \A m \in S : Children(m) \subseteq S
    <2> SUFFICES ASSUME NEW m \in S, NEW i \in DOMAIN NextEdges[m], NextEdges[m][i] # None
                 PROVE  NextEdges[m][i] \in S
      BY DEF Children
    <2>1. m \in Nodes /\ TopologicalNr[m] <= TopologicalNr[Root[g]]
      OBVIOUS
    <2>2. /\ NextEdges[m][i] \in Nodes
          /\ TopologicalNr[NextEdges[m][i]] < TopologicalNr[m]
          /\ TopologicalNr[NextEdges[m][i]] \in Nat /\ TopologicalNr[m] \in Nat
      BY <2>1, EdgeFacts
    <2>3. TopologicalNr[NextEdges[m][i]] <= TopologicalNr[Root[g]]
      BY <1>1, <2>1, <2>2
    <2> QED BY <2>2, <2>3
  <1>3. n \in S
    BY <1>1, <1>2 DEF NodesOf, NodesInGraph
  <1> QED BY <1>1, <1>3, GraphAssumption

(* Every other node of the graph has an incoming edge. *)
LEMMA EveryNodeHasInput ==
  ASSUME NEW g \in GraphTasks, NEW n \in NodesOf[g], n # Root[g]
  PROVE  InEdgesOf[g][n] # {}
  <1> DEFINE S == {m \in NodesOf[g] : m = Root[g] \/ InEdgesOf[g][m] # {}}
  <1>1. Root[g] \in S /\ S \in SUBSET Nodes /\ NodesOf[g] \subseteq Nodes
    BY GraphIsClosed
  <1>2. \A m \in S : Expanded(m, Outputs[g]) => Children(m) \subseteq S
    <2> SUFFICES ASSUME NEW m \in S, Expanded(m, Outputs[g]),
                        NEW i \in DOMAIN NextEdges[m], NextEdges[m][i] # None
                 PROVE  NextEdges[m][i] \in S
      BY DEF Children
    <2>1. m \in Nodes /\ m \in NodesOf[g]
      BY <1>1
    <2>2. NextEdges[m][i] \in Nodes /\ NextEdges[m][i] \in Children(m) /\ <<m, i>> \in Edges
      BY <2>1, EdgeFacts
    <2>3. NextEdges[m][i] \in NodesOf[g]
      BY <2>1, <2>2, GraphIsClosed
    <2>4. <<m, i>> \in GraphOf[g]
      BY <2>1, <2>2 DEF GraphOf, GraphEdges, NodesOf
    <2>5. <<m, i>> \in InEdgesOf[g][NextEdges[m][i]]
      BY <2>2, <2>4 DEF InEdgesOf
    <2> QED BY <2>3, <2>5
  <1>3. n \in S
    BY <1>1, <1>2 DEF NodesOf, NodesInGraph
  <1> QED BY <1>3

LEMMA LeadsToIsClosed ==
  ASSUME NEW outputs \in SUBSET Nodes
  PROVE  /\ outputs \subseteq LeadsTo(outputs)
         /\ \A m \in Nodes : Children(m) \cap LeadsTo(outputs) # {} => m \in LeadsTo(outputs)
  <1>1. outputs \subseteq LeadsTo(outputs)
    BY DEF LeadsTo
  <1>2. ASSUME NEW m \in Nodes, NEW c \in Children(m), c \in LeadsTo(outputs)
        PROVE  m \in LeadsTo(outputs)
    <2> SUFFICES ASSUME NEW S \in SUBSET Nodes, outputs \subseteq S,
                        \A a \in Nodes : Children(a) \cap S # {} => a \in S
                 PROVE  m \in S
      BY DEF LeadsTo
    <2>1. c \in S
      BY <1>2 DEF LeadsTo
    <2> QED BY <2>1
  <1> QED BY <1>1, <1>2

(* What sends a gradient to a node that is executed is itself called. *)
LEMMA SourceIsCalled ==
  ASSUME NEW g \in GraphTasks, NEW n \in NodesOf[g], ~Skipped(g, n), NEW e \in InEdgesOf[g][n]
  PROVE  /\ e[1] \in NodesOf[g] /\ e[1] \in Nodes /\ e[1] \in NeededOf[g] /\ ~Skipped(g, e[1])
         /\ e[2] \in DOMAIN NextEdges[e[1]] /\ NextEdges[e[1]][e[2]] = n /\ e = <<e[1], e[2]>>
         /\ TopologicalNr[n] < TopologicalNr[e[1]]
  <1>1. n \in Nodes /\ n # None
    BY GraphIsClosed, GraphAssumption
  <1>2. e \in GraphOf[g] /\ NextEdges[e[1]][e[2]] = n
    BY <1>1 DEF InEdgesOf
  <1>3. e \in Edges /\ e[1] \in NodesOf[g]
    BY <1>2 DEF GraphOf, GraphEdges, NodesOf
  <1>4. e[1] \in Nodes /\ e[2] \in DOMAIN NextEdges[e[1]] /\ e = <<e[1], e[2]>>
    BY <1>3 DEF Edges
  <1>5. TopologicalNr[n] < TopologicalNr[e[1]] /\ n \in Children(e[1])
    BY <1>1, <1>2, <1>4, EdgeFacts
  <1>6. e[1] \in NeededOf[g]
    <2>1. CASE Outputs[g] = {}
      BY <1>3, <2>1 DEF NeededOf, NeededNodes, NodesOf
    <2>2. CASE Outputs[g] # {}
      <3>1. Outputs[g] \in SUBSET Nodes
        BY EngineAssumption
      <3>2. n \in Outputs[g] \/ Children(n) \cap LeadsTo(Outputs[g]) # {}
        BY <2>2 DEF Skipped, ExecuteOf, ShouldExecute, NeededNodes
      <3>3. n \in LeadsTo(Outputs[g])
        BY <1>1, <3>1, <3>2, LeadsToIsClosed
      <3> QED BY <1>3, <1>5, <2>2, <3>3 DEF NeededOf, NeededNodes, NodesOf
    <2> QED BY <2>1, <2>2
  <1>7. ~Skipped(g, e[1])
    BY <1>6 DEF Skipped, NeededOf, ExecuteOf, ShouldExecute
  <1> QED BY <1>2, <1>3, <1>4, <1>5, <1>6, <1>7

(* A pass that runs out of work without an error has done it all: the       *)
(* newest node without all its gradients would have only called nodes above *)
(* it, which all delivered.                                                 *)
LEMMA OutOfWorkIsDone ==
  ASSUME IInv, CountInv, FlowInv, Delivered, Consumed, NEW g \in GraphTasks,
         call[g] # "idle", Alive(g), ~has_error[g], NoNodeWork(g)
  PROVE  /\ CalledOf[g] \subseteq evaluated[g]
         /\ CaptureOf[g] \cap NodesOf[g] \subseteq captured[g]
  <1>1. ASSUME NEW n \in Nodes, Arrived(g, n)
        PROVE  /\ n \in CaptureOf[g] => n \in captured[g]
               /\ n \in NeededOf[g] => n \in evaluated[g]
    <2>1. ASSUME NEW f \in Frames, Held(f, g, n) PROVE pc[f] \notin Evaluating \cup {"got"}
      BY <2>1, NodeTaskFacts DEF NoNodeWork, Held
    <2> QED BY <1>1, <2>1 DEF Consumed, NoNodeWork, Ready, Consumes, Evaluating
  <1> DEFINE Bad == {n \in NodesOf[g] : ~Skipped(g, n) /\ ~Arrived(g, n)}
             T == {TopologicalNr[Root[g]] - TopologicalNr[n] : n \in Bad}
  <1>2. Bad = {}
    <2> SUFFICES ASSUME Bad # {} PROVE FALSE
      OBVIOUS
    <2>1. T \in SUBSET Nat /\ T # {}
      BY RootIsNewest
    <2>2. PICK x \in T : \A y \in T : x <= y
      BY <2>1, LeastNumber
    <2>3. PICK n \in Bad : x = TopologicalNr[Root[g]] - TopologicalNr[n]
      BY <2>2
    <2>4. n \in NodesOf[g] /\ n \in Nodes /\ ~Skipped(g, n) /\ ~Arrived(g, n)
      BY <2>3, GraphIsClosed
    <2>5. ASSUME NEW e \in InEdgesOf[g][n] PROVE e \in inputs[g][n]
      <3>1. /\ e[1] \in NodesOf[g] /\ e[1] \in Nodes /\ e[1] \in NeededOf[g] /\ ~Skipped(g, e[1])
            /\ e[2] \in DOMAIN NextEdges[e[1]] /\ NextEdges[e[1]][e[2]] = n /\ e = <<e[1], e[2]>>
            /\ TopologicalNr[n] < TopologicalNr[e[1]]
        BY <2>4, SourceIsCalled
      <3>2. e[1] \notin Bad
        <4>1. CASE e[1] \in Bad
          <5>1. TopologicalNr[Root[g]] - TopologicalNr[e[1]] \in T
            BY <4>1
          <5>2. x <= TopologicalNr[Root[g]] - TopologicalNr[e[1]]
            BY <2>2, <5>1
          <5>3. /\ TopologicalNr[Root[g]] \in Nat /\ TopologicalNr[n] \in Nat
                /\ TopologicalNr[e[1]] \in Nat
            BY <2>4, <3>1, RootIsNewest
          <5> QED BY <2>3, <3>1, <5>2, <5>3
        <4> QED BY <4>1
      <3>3. e[1] \in evaluated[g]
        BY <1>1, <3>1, <3>2
      <3>4. n # None
        BY <2>4, GraphAssumption
      <3>5. ASSUME NEW f \in Frames, Held(f, g, e[1]) PROVE ~Sends(f, e[2])
        BY <3>1, <3>5, NodeTaskFacts DEF NoNodeWork, Held, Sends, Evaluating
      <3>6. <<e[1], e[2]>> \in inputs[g][NextEdges[e[1]][e[2]]]
        BY <2>4, <3>1, <3>3, <3>4, <3>5 DEF Delivered
      <3> QED BY <3>1, <3>6
    <2>6. inputs[g][n] = InEdgesOf[g][n]
      BY <2>4, <2>5 DEF FlowInv, Arrivals
    <2>7. inputs[g][n] # {}
      BY <2>4, <2>6, EveryNodeHasInput DEF Arrived
    <2>8. dependencies[g][n] = 0
      <3>1. dependencies[g][n] + Cardinality(InEdgesOf[g][n]) = Cardinality(InEdgesOf[g][n])
        BY <2>4, <2>6 DEF FlowInv, Arrivals
      <3>2. Cardinality(InEdgesOf[g][n]) \in Nat
        BY <2>4, InEdgesFinite
      <3>3. dependencies[g][n] \in Nat
        BY <2>4 DEF IInv, TypeOK
      <3> QED BY <3>1, <3>2, <3>3
    <2> QED BY <2>4, <2>7, <2>8 DEF Arrived
  <1>3. ASSUME NEW n \in NodesOf[g], ~Skipped(g, n) PROVE Arrived(g, n) /\ n \in Nodes
    BY <1>2, <1>3, GraphIsClosed
  <1>4. \A n \in CalledOf[g] : n \in NodesOf[g] /\ n \in NeededOf[g] /\ ~Skipped(g, n)
    BY DEF CalledOf, Skipped, NeededOf, ExecuteOf, ShouldExecute
  <1>5. \A n \in CaptureOf[g] : ~Skipped(g, n)
    BY DEF CaptureOf, Skipped, ExecuteOf, ShouldExecute
  <1> QED BY <1>1, <1>3, <1>4, <1>5

-----------------------------------------------------------------------------
(* What the proof of ValueMeansAllDone carries along *)
DoneInv ==
    /\ Delivered /\ Consumed
    /\ \A g \in GraphTasks : callbacks_run[g] <= final_callbacks[g]
    /\ ValueMeansAllDone

(* The step that sets a value finds everything done. *)
LEMMA ValueIsEarned ==
  ASSUME OutcomeInv, DoneInv, [Next]_vars, NEW g \in GraphTasks,
         future_result[g] # "value", future_result'[g] = "value"
  PROVE  /\ CalledOf[g] \subseteq evaluated[g] /\ CaptureOf[g] \cap NodesOf[g] \subseteq captured[g]
         /\ UNCHANGED <<graphVars, evaluated, captured>> /\ not_ready[g] = {}
         /\ callbacks_run'[g] = final_callbacks'[g]
  <1> USE DEF OutcomeInv
  <1>1. QuietStep
    BY FlagsKept
  <1>2. PICK k \in Frames : /\ cur[k] # None /\ cur[k].gt = g /\ pc[k] = "post"
                            /\ not_ready[g] = {} /\ ~MoreCallbacks(g)
    BY <1>1 DEF QuietStep, FlagMoves
  <1>3. NoNodeWork(g) /\ ~has_error[g]
    BY <1>2 DEF FinishInv, Finished, ErrorSeen, PastCheck
  <1>4. call[g] # "idle" /\ Alive(g)
    BY <1>2, NothingBefore DEF Alive, Holds
  <1>5. CalledOf[g] \subseteq evaluated[g] /\ CaptureOf[g] \cap NodesOf[g] \subseteq captured[g]
    BY <1>3, <1>4, OutOfWorkIsDone DEF DoneInv
  <1>6. callbacks_run[g] = final_callbacks[g]
    BY <1>2 DEF DoneInv, MoreCallbacks, IInv, TypeOK
  <1>7. ASSUME NEW f \in Frames, NEW n \in Nodes, Held(f, g, n) PROVE pc[f] # "run"
    BY <1>3, <1>7, NodeTaskFacts DEF NoNodeWork, Held, Evaluating
  <1>8. callbacks_run'[g] = final_callbacks'[g]
    BY <1>2, <1>6, <1>7, CallbackMoves
  <1> QED BY <1>1, <1>2, <1>5, <1>8 DEF QuietStep

LEMMA NextDone ==
  ASSUME OutcomeInv, DoneInv, [Next]_vars
  PROVE  DoneInv'
  <1> USE DEF OutcomeInv
  <1>1. Delivered' /\ Consumed'
    BY NextDelivered, NextConsumed DEF DoneInv
  <1>2. ASSUME NEW g \in GraphTasks PROVE callbacks_run'[g] <= final_callbacks'[g]
    <2>1. /\ callbacks_run[g] \in Nat /\ final_callbacks[g] \in Nat
          /\ callbacks_run'[g] \in Nat /\ final_callbacks'[g] \in Nat
      BY NextIInv DEF IInv, TypeOK
    <2>2. callbacks_run[g] <= final_callbacks[g]
      BY DEF DoneInv
    <2> QED BY <2>1, <2>2, CallbackMoves DEF MoreCallbacks
  <1>3. ASSUME NEW g \in GraphTasks, future_result'[g] = "value"
        PROVE  /\ CalledOf[g] \subseteq evaluated'[g]
               /\ CaptureOf[g] \cap NodesOf[g] \subseteq captured'[g]
               /\ not_ready'[g] = {}
               /\ callbacks_run'[g] = final_callbacks'[g]
    <2>1. CASE future_result[g] # "value"
      BY <1>3, <2>1, ValueIsEarned
    <2>2. CASE future_result[g] = "value"
      <3>1. call[g] # "idle" /\ NoNodeWork(g)
        BY <2>2 DEF FinishInv, Finished
      <3>2. ASSUME NEW f \in Frames, NEW n \in Nodes, Held(f, g, n) PROVE pc[f] \notin {"run", "edges"}
        BY <3>1, <3>2, NodeTaskFacts DEF NoNodeWork, Held, Evaluating
      <3>3. evaluated[g] \subseteq evaluated'[g] /\ captured[g] \subseteq captured'[g]
        BY <3>1, ProgressKept
      <3>4. not_ready'[g] = {}
        <4>1. not_ready[g] = {}
          BY <2>2 DEF DoneInv, ValueMeansAllDone
        <4>2. \A n \in Nodes : n \notin not_ready'[g]
          BY <3>1, <3>2, <4>1, ProgressKept DEF Flows
        <4>3. not_ready'[g] \subseteq Nodes
          BY NextIInv DEF IInv, TypeOK
        <4> QED BY <4>2, <4>3
      <3>5. callbacks_run'[g] = final_callbacks'[g]
        <4>1. callbacks_run[g] = final_callbacks[g]
          BY <2>2 DEF DoneInv, ValueMeansAllDone
        <4>2. ~MoreCallbacks(g)
          BY <4>1 DEF MoreCallbacks, IInv, TypeOK
        <4> QED BY <3>2, <4>1, <4>2, CallbackMoves
      <3> QED BY <2>2, <3>3, <3>4, <3>5 DEF DoneInv, ValueMeansAllDone
    <2> QED BY <2>1, <2>2
  <1>4. ValueMeansAllDone'
    BY <1>3 DEF ValueMeansAllDone
  <1> QED BY <1>1, <1>2, <1>4 DEF DoneInv

LEMMA InitDone == Init => DoneInv
  <1> SUFFICES ASSUME Init PROVE DoneInv
    OBVIOUS
  <1>1. Delivered
    BY DEF Init, Delivered
  <1>2. Consumed
    BY DEF Init, Consumed
  <1>3. ValueMeansAllDone
    BY DEF Init, ValueMeansAllDone
  <1> QED BY <1>1, <1>2, <1>3 DEF Init, DoneInv

(* A value is only returned for a pass that did everything: no thread can   *)
(* find outstanding_tasks_ at 0 while a needed node, a requested gradient   *)
(* or a final callback is left, for any graph and any number of threads.    *)
THEOREM ValueIsComplete == Spec => []ValueMeansAllDone
  <1>1. OutcomeInv /\ DoneInv /\ [Next]_vars => DoneInv'
    BY NextDone
  <1>2. DoneInv => ValueMeansAllDone
    BY DEF DoneInv
  <1> QED BY <1>1, <1>2, InitOutcome, NextOutcome, InitDone, PTL DEF Spec

-----------------------------------------------------------------------------
(* A caller thread serves its own queue, which no shutdown task enters: its *)
(* call ends only when the future is set.                                   *)
CallerInv ==
    /\ \A c \in Callers : local_ready_queue[c] \in {None, c} /\ ShutdownTask \notin heap[c]
    /\ \A g \in GraphTasks :
          /\ call[g] = "returned" => future_result[g] # "none"
          /\ pc[g] = "left" /\ thread[g] \in Callers => future_result[g] # "none"

(* Which steps queue a shutdown task, give a thread a queue, or leave the   *)
(* loop of thread_main                                                      *)
QueuesKept ==
    \A c \in Callers : /\ local_ready_queue'[c] \in {local_ready_queue[c], c}
                       /\ ShutdownTask \in heap'[c] => ShutdownTask \in heap[c]

LoopsKept ==
    \A g \in GraphTasks : pc'[g] = "left" =>
        \/ pc[g] = "left" /\ thread'[g] = thread[g]
        \/ LoopCondition(g)
        \/ Pop(g) /\ ShutdownTask \in heap[local_ready_queue[thread[g]]]

CallerKept == QueuesKept /\ LoopsKept

(* A task of a graph task, pushed anywhere, is no shutdown task. *)
LEMMA PushKeepsCaller ==
  ASSUME IInv, NEW q, NEW t, t \in NodeTasks, NEW c \in Callers,
         heap' = [heap EXCEPT ![q] = @ \cup {t}], ShutdownTask \in heap'[c]
  PROVE  ShutdownTask \in heap[c]
  <1>1. heap \in [Queues -> SUBSET (NodeTasks \cup {ShutdownTask})]
    BY DEF IInv, TypeOK
  <1> QED BY <1>1, ShutdownIsNoTask

LEMMA CallerFrameSteps ==
  ASSUME IInv, CountInv, FlowInv, NEW f \in Frames, FrameStep(f), ~Reenter(f)
  PROVE  CallerKept
  <1>0. /\ pc \in [Frames -> Labels] /\ local_ready_queue \in [Threads -> Queues \cup {None}]
        /\ heap \in [Queues -> SUBSET (NodeTasks \cup {ShutdownTask})]
    BY DEF IInv, TypeOK
  <1>1. UNCHANGED <<local_ready_queue, thread>>
    <2>1. CASE Pop(f) \/ Begin(f) \/ ReturnToParent(f) \/ CallFunction(f) \/ Throw(f) \/ PropagateEdge(f)
      BY <2>1 DEF Pop, Begin, ReturnToParent, CallFunction, Throw, PropagateEdge
    <2>2. CASE SetHasError(f) \/ SetException(f) \/ SetError(f) \/ CompleteStep(f)
      BY <2>2 DEF SetHasError, SetException, SetError, CompleteStep, DecrementOutstanding,
                  CheckCompleted, MarkAsCompleted, AwaitFuture, RunFinalCallback,
                  ExecPostProcessing, FinishFuture, NotifyOwner
    <2> QED BY <2>1, <2>2 DEF FrameStep, EvaluateStep
  <1>2. ASSUME NEW c \in Callers, ShutdownTask \in heap'[c] PROVE ShutdownTask \in heap[c]
    <2>1. CASE heap' = heap
      BY <1>2, <2>1
    <2>2. CASE Pop(f)
      BY <1>0, <1>2, <2>2 DEF Pop
    <2>3. CASE PropagateEdge(f)
      <3>1. ASSUME NEW g \in GraphTasks, NEW m \in Nodes, NEW n \in Nodes,
                   NEW i \in DOMAIN NextEdges[m], Flows(f, g, m, i, n)
            PROVE  ShutdownTask \in heap[c]
        BY <1>2, <3>1, NodeTaskFacts DEF Flows
      <3> QED BY <2>1, <2>3, <3>1, PropagateEffect
    <2>4. CASE NotifyOwner(f)
      <3>1. cur[f].gt \in GraphTasks
        BY <2>4, HeldTask DEF NotifyOwner, Completing
      <3>2. DummyTask(cur[f].gt, f) \in NodeTasks
        BY <3>1 DEF DummyTask, NodeTasks
      <3>3. heap' = heap \/ \E q : heap' = [heap EXCEPT ![q] = @ \cup {DummyTask(cur[f].gt, f)}]
        BY <2>4 DEF NotifyOwner, Push
      <3> QED BY <1>2, <3>2, <3>3, PushKeepsCaller
    <2>5. CASE ~(Pop(f) \/ PropagateEdge(f) \/ NotifyOwner(f))
      <3>1. heap' = heap
        <4>1. CASE Begin(f) \/ ReturnToParent(f) \/ CallFunction(f) \/ Throw(f)
          BY <4>1 DEF Begin, ReturnToParent, CallFunction, Throw
        <4>2. CASE SetHasError(f) \/ SetException(f) \/ SetError(f) \/ CompleteStep(f)
          BY <2>5, <4>2 DEF SetHasError, SetException, SetError, CompleteStep,
                      DecrementOutstanding, CheckCompleted, MarkAsCompleted, AwaitFuture,
                      RunFinalCallback, ExecPostProcessing, FinishFuture
        <4> QED BY <2>5, <4>1, <4>2 DEF FrameStep, EvaluateStep
      <3> QED BY <2>1, <3>1
    <2> QED BY <2>2, <2>3, <2>4, <2>5
  <1>3. ASSUME NEW g \in GraphTasks, pc'[g] = "left"
        PROVE  \/ pc[g] = "left"
               \/ Pop(g) /\ ShutdownTask \in heap[local_ready_queue[thread[g]]]
    <2>1. CASE Pop(f)
      <3>1. CASE g = f
        BY <1>0, <1>3, <2>1, <3>1 DEF Pop
      <3>2. CASE g # f
        BY <1>0, <1>3, <2>1, <3>2 DEF Pop
      <3> QED BY <3>1, <3>2
    <2>2. CASE Begin(f) \/ CallFunction(f) \/ Throw(f) \/ PropagateEdge(f)
      <3>1. \E x \in {"loop", "pop", "run", "dec", "edges", "throw"} : pc' = [pc EXCEPT ![f] = x]
        BY <2>2 DEF Begin, CallFunction, Throw, PropagateEdge
      <3> QED BY <1>0, <1>3, <3>1
    <2>3. CASE ReturnToParent(f)
      <3>1. \E x \in {"run", "throw"} : \E h : \/ pc' = [pc EXCEPT ![f] = x]
                                               \/ pc' = [pc EXCEPT ![f] = x, ![h] = "done"]
        BY <2>3 DEF ReturnToParent
      <3> QED BY <1>0, <1>3, <3>1
    <2>4. CASE SetHasError(f) \/ SetException(f) \/ SetError(f) \/ CompleteStep(f)
      <3>1. \/ pc' = pc
            \/ \E x \in {"exception", "seterror", "dec", "check", "mark", "loop", "pop", "post",
                          "await", "wake"} : pc' = [pc EXCEPT ![f] = x]
        BY <2>4 DEF SetHasError, SetException, ClaimFuture, SetError, CompleteStep,
                    DecrementOutstanding, CheckCompleted, MarkAsCompleted, AwaitFuture,
                    RunFinalCallback, ExecPostProcessing, FinishFuture, NotifyOwner
      <3> QED BY <1>0, <1>3, <3>1
    <2> QED BY <2>1, <2>2, <2>3, <2>4 DEF FrameStep, EvaluateStep
  <1> QED BY <1>1, <1>2, <1>3 DEF CallerKept, QueuesKept, LoopsKept

LEMMA CallerCallSteps ==
  ASSUME IInv, CountInv, \/ \E c \in Callers, g \in GraphTasks : Backward(c, g)
                         \/ \E f \in Frames : Reenter(f)
  PROVE  CallerKept
  <1>0. /\ pc \in [Frames -> Labels] /\ local_ready_queue \in [Threads -> Queues \cup {None}]
        /\ thread \in [Frames -> Threads \cup {None}]
    BY DEF IInv, TypeOK
  <1>1. PICK g \in GraphTasks, t \in Threads : Execute(t, g)
    <2>1. ASSUME NEW f \in Frames, Reenter(f) PROVE Inner(f) \in GraphTasks /\ thread[f] \in Threads
      <3>1. pc[f] = "run" /\ Inner(f) # None
        BY <2>1 DEF Reenter
      <3> QED BY <3>1, FrameFacts, HeldTask, EngineAssumption DEF Working, Evaluating, Inner
    <2> QED BY <2>1 DEF Backward, Reenter
  <1>2. ASSUME NEW c \in Callers PROVE local_ready_queue'[c] \in {local_ready_queue[c], c}
    BY <1>0, <1>1 DEF Execute
  <1>3. ASSUME NEW c \in Callers, ShutdownTask \in heap'[c] PROVE ShutdownTask \in heap[c]
    <2>1. \E q : heap' = [heap EXCEPT ![q] = @ \cup {NodeTask(g, Root[g])}]
      BY <1>1 DEF Execute, Push
    <2>2. NodeTask(g, Root[g]) \in NodeTasks
      BY NodeTaskFacts, EngineAssumption
    <2> QED BY <1>3, <2>1, <2>2, PushKeepsCaller
  <1>4. PICK h \in GraphTasks : Starts(h)
    BY CallEffect
  <1>5. \A k \in GraphTasks : pc'[k] = "left" => pc[k] = "left" /\ thread'[k] = thread[k]
    BY <1>4 DEF Starts
  <1> QED BY <1>2, <1>3, <1>5 DEF CallerKept, QueuesKept, LoopsKept

LEMMA CallerOtherSteps ==
  ASSUME IInv, \/ \E g \in GraphTasks : CallStep(g)
               \/ \E p \in PoolThreads : PoolStep(p)
               \/ StartStep \/ StopStep \/ UNCHANGED vars
  PROVE  CallerKept
  <1>0. /\ pc \in [Frames -> Labels] /\ local_ready_queue \in [Threads -> Queues \cup {None}]
        /\ heap \in [Queues -> SUBSET (NodeTasks \cup {ShutdownTask})]
        /\ thread \in [Frames -> Threads \cup {None}]
    BY DEF IInv, TypeOK
  <1>1. ASSUME NEW g \in GraphTasks, CallStep(g) PROVE CallerKept
    <2>1. UNCHANGED <<heap, local_ready_queue, thread>>
      BY <1>1 DEF CallStep, LoopCondition, AddThreadPoolTask, ReturnToCaller
    <2>2. \A h \in GraphTasks : pc'[h] = "left" => pc[h] = "left" \/ LoopCondition(h)
      BY <1>0, <1>1 DEF CallStep, LoopCondition, AddThreadPoolTask, ReturnToCaller
    <2> QED BY <2>1, <2>2 DEF CallerKept, QueuesKept, LoopsKept
  <1>2. ASSUME NEW p \in PoolThreads, PoolStep(p) PROVE CallerKept
    <2>1. CASE WorkerWait(p)
      BY <2>1 DEF WorkerWait, CallerKept, QueuesKept, LoopsKept
    <2>2. CASE WorkerTake(p)
      <3>1. Head(graphtasks_queue) \in GraphTasks
        BY <2>2 DEF WorkerTake, IInv, TypeOK
      <3>2. heap' = heap /\ \A c \in Callers : local_ready_queue'[c] = local_ready_queue[c]
        BY <1>0, <2>2, EngineAssumption DEF WorkerTake
      <3>3. \A g \in GraphTasks : pc'[g] = "left" => pc[g] = "left" /\ thread'[g] = thread[g]
        BY <1>0, <2>2, <3>1 DEF WorkerTake
      <3> QED BY <3>2, <3>3 DEF CallerKept, QueuesKept, LoopsKept
    <2>3. ASSUME NEW g \in GraphTasks, WorkerDone(p, g) PROVE CallerKept
      BY <1>0, <2>3 DEF WorkerDone, CallerKept, QueuesKept, LoopsKept
    <2> QED BY <1>2, <2>1, <2>2, <2>3 DEF PoolStep
  <1>3. CASE StartStep \/ StopStep
    <2>1. /\ UNCHANGED thread
          /\ local_ready_queue' = local_ready_queue
             \/ \E d \in Devices : local_ready_queue' = [local_ready_queue EXCEPT ![d] = d]
          /\ heap' = heap
             \/ \E d \in Devices : heap' = [heap EXCEPT ![d] = @ \cup {ShutdownTask}]
      BY <1>3 DEF StartStep, StopStep, StartDeviceThreads, DeviceThreadsStarted, ThreadInit,
                  ThreadExit, Stop, StopWait, StopCheck, PushShutdownTask
    <2>2. /\ \A c \in Callers : local_ready_queue'[c] = local_ready_queue[c] /\ heap'[c] = heap[c]
      BY <1>0, <2>1, EngineAssumption
    <2>3. \A g \in GraphTasks : pc'[g] = pc[g]
      BY <1>0, <1>3, EngineAssumption
         DEF StartStep, StopStep, StartDeviceThreads, DeviceThreadsStarted, ThreadInit,
             ThreadExit, Stop, StopWait, StopCheck, PushShutdownTask
    <2> QED BY <2>1, <2>2, <2>3 DEF CallerKept, QueuesKept, LoopsKept
  <1>4. CASE UNCHANGED vars
    BY <1>4 DEF vars, CallerKept, QueuesKept, LoopsKept
  <1> QED BY <1>1, <1>2, <1>3, <1>4

LEMMA NextCaller ==
  ASSUME OutcomeInv, CallerInv, [Next]_vars
  PROVE  CallerInv'
  <1> USE DEF OutcomeInv
  <1>1. CallerKept
    <2>1. ASSUME NEW f \in Frames, FrameStep(f) PROVE CallerKept
      BY <2>1, CallerFrameSteps, CallerCallSteps
    <2> QED BY <2>1, CallerCallSteps, CallerOtherSteps DEF Next, Terminating
  <1>2. \A g \in GraphTasks : future_result[g] # "none" => future_result'[g] # "none"
    BY NextOneWriter
  <1>3. ASSUME NEW c \in Callers
        PROVE  local_ready_queue'[c] \in {None, c} /\ ShutdownTask \notin heap'[c]
    <2>1. /\ local_ready_queue'[c] \in {local_ready_queue[c], c}
          /\ ShutdownTask \in heap'[c] => ShutdownTask \in heap[c]
      BY <1>1 DEF CallerKept, QueuesKept, LoopsKept
    <2>2. local_ready_queue[c] \in {None, c} /\ ShutdownTask \notin heap[c]
      BY DEF CallerInv
    <2> QED BY <2>1, <2>2
  <1>4. ASSUME NEW g \in GraphTasks, pc'[g] = "left", thread'[g] \in Callers
        PROVE  future_result'[g] # "none"
    <2>1. CASE pc[g] = "left" /\ thread'[g] = thread[g]
      BY <1>2, <1>4, <2>1 DEF CallerInv
    <2>2. CASE LoopCondition(g)
      BY <1>2, <1>4, <2>2 DEF LoopCondition, FutureDone, IInv, TypeOK
    <2>3. CASE Pop(g) /\ ShutdownTask \in heap[local_ready_queue[thread[g]]]
      <3>1. pc[g] = "pop" /\ thread' = thread
        BY <2>3 DEF Pop
      <3>2. local_ready_queue[thread[g]] \in Queues
        BY <3>1, FrameFacts DEF Working
      <3>3. local_ready_queue[thread[g]] = thread[g]
        BY <1>4, <3>1, <3>2, EngineAssumption DEF CallerInv
      <3> QED BY <1>4, <2>3, <3>1, <3>3 DEF CallerInv
    <2> QED BY <1>1, <1>4, <2>1, <2>2, <2>3 DEF CallerKept, QueuesKept, LoopsKept
  <1>5. ASSUME NEW g \in GraphTasks, call'[g] = "returned" PROVE future_result'[g] # "none"
    <2>1. CASE call[g] = "returned"
      BY <1>2, <2>1 DEF CallerInv
    <2>2. CASE call[g] # "returned"
      <3>1. ASSUME NEW f \in Frames, Begin(f) \/ CallFunction(f) \/ PropagateEdge(f) PROVE UNCHANGED call
        BY <3>1 DEF Begin, CallFunction, PropagateEdge
      <3>2. QuietStep
        BY <1>5, <2>2, <3>1, StepKinds DEF TakesNode, Starts
      <3>3. \/ \E k \in Frames : ReturnsTo(k, g)
            \/ \E c \in Callers : ReturnToCaller(c, g)
        BY <1>5, <2>2, <3>2 DEF QuietStep, CallMoves
      <3>4. future_result[g] # "none"
        BY <1>5, <3>3 DEF ReturnsTo, FutureDone, ReturnToCaller, CallerInv
      <3> QED BY <1>2, <3>4
    <2> QED BY <2>1, <2>2
  <1> QED BY <1>3, <1>4, <1>5 DEF CallerInv

LEMMA InitCaller == Init => CallerInv
  <1> SUFFICES ASSUME Init PROVE CallerInv
    OBVIOUS
  <1>1. \A c \in Callers : local_ready_queue[c] \in {None, c} /\ ShutdownTask \notin heap[c]
    BY DEF Init
  <1>2. \A g \in GraphTasks : call[g] = "idle" /\ pc[g] = "idle"
    BY EngineAssumption DEF Init
  <1> QED BY <1>1, <1>2 DEF CallerInv

-----------------------------------------------------------------------------
(* Refinement.  Only these steps show in the variables of BackwardPass. *)
LEMMA VisibleSteps ==
  ASSUME [Next]_vars
  PROVE  \/ UNCHANGED <<call, evaluated, future_result>>
         \/ \E c \in Callers, g \in GraphTasks : Backward(c, g) \/ ReturnToCaller(c, g)
         \/ \E f \in Frames : \/ Reenter(f) \/ CallFunction(f) \/ ReturnToParent(f)
                             \/ SetError(f) \/ ExecPostProcessing(f)
  <1>1. ASSUME NEW f \in Frames, FrameStep(f),
               ~(Reenter(f) \/ CallFunction(f) \/ ReturnToParent(f) \/ SetError(f) \/ ExecPostProcessing(f))
        PROVE  UNCHANGED <<call, evaluated, future_result>>
    <2>1. CASE Pop(f) \/ Begin(f) \/ Throw(f) \/ PropagateEdge(f) \/ SetHasError(f) \/ SetException(f)
      BY <2>1 DEF Pop, Begin, Throw, PropagateEdge, SetHasError, SetException
    <2>2. CASE CompleteStep(f)
      BY <1>1, <2>2 DEF CompleteStep, DecrementOutstanding, CheckCompleted, MarkAsCompleted,
                        AwaitFuture, RunFinalCallback, NotifyOwner
    <2> QED BY <1>1, <2>1, <2>2 DEF FrameStep, EvaluateStep
  <1>2. ASSUME NEW g \in GraphTasks, CallStep(g), ~\E c \in Callers : ReturnToCaller(c, g)
        PROVE  UNCHANGED <<call, evaluated, future_result>>
    BY <1>2 DEF CallStep, LoopCondition, AddThreadPoolTask
  <1>3. ASSUME NEW p \in PoolThreads, PoolStep(p) PROVE UNCHANGED <<call, evaluated, future_result>>
    BY <1>3 DEF PoolStep, WorkerWait, WorkerTake, WorkerDone
  <1>4. CASE StartStep \/ StopStep
    BY <1>4 DEF StartStep, StopStep, StartDeviceThreads, DeviceThreadsStarted, ThreadInit,
                ThreadExit, Stop, StopWait, StopCheck, PushShutdownTask
  <1>5. CASE UNCHANGED vars
    BY <1>5 DEF vars
  <1> QED BY <1>1, <1>2, <1>3, <1>4, <1>5 DEF Next, Terminating

PromiseInv == OutcomeInv /\ DoneInv /\ CallerInv

(* A call starts. *)
LEMMA CallRefines ==
  ASSUME PromiseInv, NEW g \in GraphTasks, Starts(g)
  PROVE  Promise!Call(g)
  <1>1. PhaseOf(g) = "idle" /\ PhaseOf(g)' = "running"
    BY DEF Starts, PhaseOf
  <1>2. \A h \in GraphTasks : h # g => PhaseOf(h)' = PhaseOf(h)
    BY DEF Starts, PhaseOf
  <1>3. UNCHANGED <<evaluated, future_result>>
    BY DEF Starts
  <1> QED BY <1>1, <1>2, <1>3 DEF Promise!Call

(* A node's function runs, after those of the nodes above it. *)
LEMMA RunRefines ==
  ASSUME PromiseInv, NEW f \in Frames, CallFunction(f)
  PROVE  \E g \in GraphTasks, n \in Nodes : Promise!Run(g, n)
  <1> USE DEF PromiseInv, OutcomeInv
  <1>1. PICK g \in GraphTasks, n \in Nodes : g = cur[f].gt /\ n = cur[f].fn /\ Held(f, g, n)
    BY HeldNode DEF CallFunction, Evaluating
  <1>2. /\ pc[f] = "run" /\ UNCHANGED <<call, future_result>>
        /\ evaluated' = [evaluated EXCEPT ![g] = @ \cup {n}]
    BY <1>1 DEF CallFunction
  <1>3. call[g] # "idle"
    BY <1>1, NothingBefore
  <1>4. future_result[g] # "value"
    <2>1. cur[f] # None /\ cur[f].gt = g /\ cur[f].fn # None
      BY <1>1, NodeTaskFacts DEF Held
    <2>2. ~NoNodeWork(g)
      BY <1>2, <2>1 DEF NoNodeWork, Evaluating
    <2> QED BY <2>2 DEF FinishInv, Finished
  <1>5. n \in CalledOf[g] \ evaluated[g]
    BY <1>1, <1>2 DEF CalledOf, FlowInv, InGraph, Once, Early, Evaluating
  <1>6. inputs[g][n] = InEdgesOf[g][n]
    BY <1>1, <1>2, FlowMeansArrived DEF EveryInputArrived, Held
  <1>7. \A e \in InEdgesOf[g][n] : e[1] \in evaluated[g]
    BY <1>6 DEF FlowInv, EdgeOrder
  <1>8. InputsOf[g][n] \subseteq evaluated[g]
    BY <1>7 DEF InputsOf
  <1>9. PhaseOf(g) # "idle" /\ \A h \in GraphTasks : PhaseOf(h)' = PhaseOf(h)
    BY <1>2, <1>3 DEF PhaseOf, IInv, TypeOK
  <1>10. Promise!Run(g, n)
    BY <1>2, <1>4, <1>5, <1>8, <1>9 DEF Promise!Run
  <1> QED BY <1>10

(* The outcome is settled once, while the call still waits for it, to a     *)
(* value only when every function ran.                                      *)
LEMMA SettleRefines ==
  ASSUME PromiseInv, [Next]_vars, NEW f \in Frames, SetError(f) \/ ExecPostProcessing(f)
  PROVE  \E g \in GraphTasks : Promise!Settle(g)
  <1> USE DEF PromiseInv, OutcomeInv
  <1>1. PICK g \in GraphTasks : g = cur[f].gt /\ cur[f] # None
    BY HeldTask DEF SetError, ExecPostProcessing, Evaluating, Completing
  <1>2. /\ pc[f] \in {"seterror", "post"} /\ UNCHANGED <<call, evaluated>>
        /\ \E x \in {"value", "error"} : future_result' = [future_result EXCEPT ![g] = x]
    BY <1>1 DEF SetError, ExecPostProcessing, FinishFuture
  <1>3. future_result[g] = "none"
    BY <1>1, <1>2 DEF FutureHasOneWriter, Owns
  <1>4. call[g] \notin {"idle", "returned"}
    BY <1>1, <1>3, NothingBefore DEF CallerInv
  <1>5. PhaseOf(g) = "running" /\ \A h \in GraphTasks : PhaseOf(h)' = PhaseOf(h)
    BY <1>2, <1>4 DEF PhaseOf, IInv, TypeOK
  <1>6. CASE future_result' = [future_result EXCEPT ![g] = "error"]
    BY <1>2, <1>3, <1>5, <1>6 DEF Promise!Settle
  <1>7. CASE future_result' = [future_result EXCEPT ![g] = "value"]
    <2>1. future_result'[g] = "value"
      BY <1>7 DEF IInv, TypeOK
    <2>2. CalledOf[g] \subseteq evaluated[g]
      BY <1>3, <2>1, ValueIsEarned
    <2> QED BY <1>2, <1>3, <1>5, <1>7, <2>2 DEF Promise!Settle
  <1> QED BY <1>2, <1>6, <1>7

(* A call returns when its outcome is settled; one that the end of the      *)
(* process aborts never does.                                               *)
LEMMA ReturnRefines ==
  ASSUME PromiseInv, NEW g \in GraphTasks, UNCHANGED <<evaluated, future_result>>,
         call[g] \in {"inline", "handed"},
         \/ call' = [call EXCEPT ![g] = "aborted"]
         \/ call' = [call EXCEPT ![g] = "returned"] /\ future_result[g] # "none"
  PROVE  Promise!Return(g) \/ UNCHANGED Promise!bvars
  <1> USE DEF PromiseInv, OutcomeInv, IInv, TypeOK
  <1>1. \A h \in GraphTasks : h # g => PhaseOf(h)' = PhaseOf(h)
    BY DEF PhaseOf
  <1>2. PhaseOf(g) = "running"
    BY DEF PhaseOf
  <1>3. CASE call' = [call EXCEPT ![g] = "aborted"]
    <2>1. PhaseOf(g)' = PhaseOf(g)
      BY <1>2, <1>3 DEF PhaseOf
    <2> QED BY <1>1, <2>1 DEF Promise!bvars
  <1>4. CASE call' = [call EXCEPT ![g] = "returned"] /\ future_result[g] # "none"
    <2>1. PhaseOf(g)' = "returned"
      BY <1>4 DEF PhaseOf
    <2> QED BY <1>1, <1>2, <1>4, <2>1 DEF Promise!Return
  <1> QED BY <1>3, <1>4

LEMMA NextRefines ==
  ASSUME PromiseInv, [Next]_vars
  PROVE  [Promise!BNext]_Promise!bvars
  <1> USE DEF PromiseInv, OutcomeInv
  <1>1. CASE UNCHANGED <<call, evaluated, future_result>>
    BY <1>1 DEF Promise!bvars, PhaseOf
  <1>2. CASE \/ \E c \in Callers, g \in GraphTasks : Backward(c, g)
             \/ \E f \in Frames : Reenter(f)
    BY <1>2, CallEffect, CallRefines DEF Promise!BNext
  <1>3. ASSUME NEW f \in Frames, CallFunction(f) PROVE Promise!BNext
    BY <1>3, RunRefines DEF Promise!BNext
  <1>4. ASSUME NEW f \in Frames, SetError(f) \/ ExecPostProcessing(f) PROVE Promise!BNext
    BY <1>4, SettleRefines DEF Promise!BNext
  <1>5. ASSUME NEW c \in Callers, NEW g \in GraphTasks, ReturnToCaller(c, g)
        PROVE  [Promise!BNext]_Promise!bvars
    <2>1. /\ call[g] = "inline" /\ thread[g] = c /\ pc[g] = "left"
          /\ call' = [call EXCEPT ![g] = "returned"] /\ UNCHANGED <<evaluated, future_result>>
      BY <1>5 DEF ReturnToCaller
    <2>2. future_result[g] # "none"
      BY <2>1 DEF CallerInv
    <2>3. Promise!Return(g) \/ UNCHANGED Promise!bvars
      BY <2>1, <2>2, ReturnRefines
    <2> QED BY <2>3 DEF Promise!BNext
  <1>6. ASSUME NEW f \in Frames, ReturnToParent(f) PROVE [Promise!BNext]_Promise!bvars
    <2>1. pc[f] = "reenter" /\ call[Inner(f)] \in {"inline", "handed"}
      BY <1>6 DEF ReturnToParent
    <2>2. /\ call' = [call EXCEPT ![Inner(f)] = IF FutureDone(Inner(f)) THEN "returned" ELSE "aborted"]
          /\ UNCHANGED <<evaluated, future_result>>
      BY <1>6 DEF ReturnToParent
    <2>3. Inner(f) \in GraphTasks \/ Inner(f) = None
      BY <2>1, HeldNode, EngineAssumption DEF Inner, Evaluating
    <2>4. CASE Inner(f) = None
      <3>1. call' = call
        BY <2>2, <2>4, EngineAssumption DEF IInv, TypeOK
      <3> QED BY <1>1, <2>2, <3>1
    <2>5. CASE Inner(f) \in GraphTasks
      <3>1. PICK h \in GraphTasks : h = Inner(f)
        BY <2>5
      <3>2. Promise!Return(h) \/ UNCHANGED Promise!bvars
        BY <2>1, <2>2, <3>1, ReturnRefines DEF FutureDone
      <3> QED BY <3>2 DEF Promise!BNext
    <2> QED BY <2>3, <2>4, <2>5
  <1> QED BY <1>1, <1>2, <1>3, <1>4, <1>5, <1>6, VisibleSteps

(* The engine implements BackwardPass, for any graph, any nesting of calls  *)
(* and any number of threads: functions run in dependency order, once; the  *)
(* outcome is settled once, to a value only when all ran; a call returns    *)
(* only with a settled outcome.                                             *)
THEOREM EngineKeepsPromise == Spec => KeepsPromise
  <1>1. Init => Promise!BInit
    BY DEF Init, Promise!BInit, PhaseOf
  <1>2. Init => PromiseInv
    BY InitOutcome, InitDone, InitCaller DEF PromiseInv
  <1>3. PromiseInv /\ [Next]_vars => PromiseInv'
    BY NextOutcome, NextDone, NextCaller DEF PromiseInv
  <1>4. PromiseInv /\ [Next]_vars => [Promise!BNext]_Promise!bvars
    BY NextRefines
  <1> QED BY <1>1, <1>2, <1>3, <1>4, PTL DEF Spec, KeepsPromise, Promise!BSpec

-----------------------------------------------------------------------------
(* The owner of a graph task is woken.  Where no nested pass is handed to   *)
(* the pool, every thread serves one queue, its own, and one frame of a     *)
(* thread runs at a time.  A task of a graph task is evaluated by the       *)
(* owner's thread or by a device's, and the two have different              *)
(* worker_devices: the frame that finds the last task done and does not     *)
(* send a dummy task is on the owner's thread, where nobody sleeps.         *)
NoneHanded == \A g \in GraphTasks : call[g] # "handed"

(* A task of g is queued, or frame f has one *)
Left(g) == \E q \in Queues : \E t \in heap[q] : t \in NodeTasks /\ t.gt = g
AtWork(f, g) == cur[f] # None /\ cur[f].gt = g /\ pc[f] \in Busy \cup Completing
Stirs(g) == Left(g) \/ \E f \in Frames : AtWork(f, g)

Runs(f) == pc[f] \in Running \ {"reenter"}
Started(d) == pc[d] \notin {"unborn", "starting"}

(* Every thread serves its own queue, for its own device. *)
OwnQueue ==
    /\ \A t \in Threads : local_ready_queue[t] \in {None, t}
    /\ \A c \in Callers : worker_device[c] \in {CPU, NO_DEVICE}
    /\ \A d \in Devices : /\ worker_device[d] \in {d, NO_DEVICE}
                          /\ Started(d) => worker_device[d] = d

(* A call runs on the thread that made it. *)
OwnThread ==
    \A g \in GraphTasks :
        /\ call[g] = "idle" => thread[g] = None
        /\ call[g] # "idle" =>
              /\ thread[g] \in Callers \cup Devices /\ cpu_ready_queue[g] = thread[g]
              /\ owner[g] = IF thread[g] \in Devices THEN thread[g] ELSE CPU
              /\ \A d \in Devices : thread[g] = d => Started(d)
        /\ pc[g] \in Running => call[g] = "inline"
        /\ pc[g] \notin {"handoff", "pooled"}

(* A task is queued on, or held by, the thread of its call or a device. *)
TasksNear ==
    /\ \A q \in Queues : \A t \in heap[q] :
          t # ShutdownTask => q \in Devices \/ q = thread[t.gt]
    /\ \A f \in Frames : cur[f] # None => thread[f] \in Devices \/ thread[f] = thread[cur[f].gt]

OneRuns == \A f, k \in Frames : Runs(f) /\ Runs(k) /\ thread[f] = thread[k] => f = k

Woken ==
    \A g \in GraphTasks :
        future_result[g] # "none" /\ pc[g] = "pop" /\ heap[thread[g]] = {} => Stirs(g)

WakeInv == OwnQueue /\ OwnThread /\ TasksNear /\ OneRuns /\ Woken

(* A frame that runs is on a thread with a queue of the same name. *)
LEMMA RunsOwnQueue ==
  ASSUME IInv, WakeInv, NEW f \in Frames, pc[f] \in Working
  PROVE  thread[f] \in Queues /\ local_ready_queue[thread[f]] = thread[f]
  <1>1. thread[f] \in Threads /\ local_ready_queue[thread[f]] \in Queues
    BY FrameFacts
  <1>2. local_ready_queue[thread[f]] \in {None, thread[f]}
    BY <1>1 DEF WakeInv, OwnQueue
  <1> QED BY <1>1, <1>2, EngineAssumption

LEMMA WokenMeans == IInv /\ WakeInv => OwnerIsWoken
  <1> SUFFICES ASSUME IInv, WakeInv, NEW g \in GraphTasks,
                      future_result[g] # "none", pc[g] = "pop",
                      heap[local_ready_queue[thread[g]]] = {}
               PROVE  \/ Queued(g) # {} \/ Uncounted(g) # {}
                      \/ \E f \in Frames : Holds(f, g) /\ pc[f] \in Completing
    BY DEF OwnerIsWoken
  <1>1. heap[thread[g]] = {}
    BY RunsOwnQueue DEF Working
  <1>2. Stirs(g)
    BY <1>1 DEF WakeInv, Woken
  <1>3. CASE Left(g)
    BY <1>3 DEF Left, Queued
  <1>4. ASSUME NEW f \in Frames, AtWork(f, g)
        PROVE  f \in Uncounted(g) \/ (Holds(f, g) /\ pc[f] \in Completing)
    BY <1>4 DEF AtWork, Busy, Completing, Evaluating, Uncounted, Holds
  <1> QED BY <1>2, <1>3, <1>4 DEF Stirs

-----------------------------------------------------------------------------
(* What is on its way for a graph task that sleeps stays so when no frame   *)
(* lets go of a task and none is taken off a queue.                         *)
LEMMA StillStirs ==
  ASSUME Woken, NEW g \in GraphTasks,
         future_result[g] # "none", pc[g] = "pop", heap[thread[g]] = {},
         \A q \in Queues : heap[q] \subseteq heap'[q],
         \A k \in Frames : AtWork(k, g) => AtWork(k, g)'
  PROVE  Stirs(g)'
  <1>1. Stirs(g)
    BY DEF Woken
  <1>2. Left(g) => Left(g)'
    BY DEF Left
  <1> QED BY <1>1, <1>2 DEF Stirs

(* A step of a frame that keeps its task. *)
LEMMA WorkGoesOn ==
  ASSUME IInv, Woken, OwnThread, NEW f \in Frames, cur' = cur, thread' = thread,
         pc[f] \in Busy \cup Completing, pc'[f] \in Busy \cup Completing,
         \A k \in Frames : k # f => pc'[k] = pc[k],
         \A q \in Queues : heap[q] \subseteq heap'[q],
         \A g \in GraphTasks : future_result'[g] = future_result[g] \/ g = cur[f].gt
  PROVE  Woken'
  <1> SUFFICES ASSUME NEW g \in GraphTasks,
                      future_result'[g] # "none", pc'[g] = "pop", heap'[thread'[g]] = {}
               PROVE  Stirs(g)'
    BY DEF Woken
  <1>1. g # f /\ pc[g] = "pop"
    BY DEF Busy, Completing, Evaluating
  <1>2. \A k \in Frames : AtWork(k, g) => AtWork(k, g)'
    BY DEF AtWork
  <1>3. CASE g = cur[f].gt
    <2>1. cur[f] # None
      BY HeldTask DEF Busy
    <2> QED BY <1>3, <2>1 DEF Stirs, AtWork
  <1>4. CASE future_result'[g] = future_result[g]
    <2>1. thread[g] \in Queues
      BY <1>1 DEF OwnThread, Running, Working
    <2>2. heap[thread[g]] = {}
      BY <2>1
    <2> QED BY <1>1, <1>2, <1>4, <2>2, StillStirs
  <1> QED BY <1>3, <1>4

-----------------------------------------------------------------------------
(* Steps of one frame that neither start a call nor end one. *)
OneFrameRuns(f) ==
    /\ UNCHANGED <<call, owner, cpu_ready_queue, thread, local_ready_queue, worker_device>>
    /\ pc[f] \in Working \ {"reenter"}
    /\ pc'[f] \in (Working \ {"reenter"}) \cup {"left", "exit"}
    /\ \A k \in Frames : k # f => pc'[k] = pc[k] /\ cur'[k] = cur[k]

LEMMA FrameRuns ==
  ASSUME IInv, NEW f \in Frames,
         (FrameStep(f) /\ ~Reenter(f) /\ ~ReturnToParent(f)) \/ (f \in GraphTasks /\ LoopCondition(f))
  PROVE  OneFrameRuns(f)
  <1>0. pc \in [Frames -> Labels] /\ cur \in [Frames -> NodeTasks \cup {None}]
    BY DEF IInv, TypeOK
  <1>1. UNCHANGED <<call, owner, cpu_ready_queue, thread, local_ready_queue, worker_device>>
    <2>1. CASE Pop(f) \/ Begin(f) \/ CallFunction(f) \/ Throw(f) \/ PropagateEdge(f) \/ LoopCondition(f)
      BY <2>1 DEF Pop, Begin, CallFunction, Throw, PropagateEdge, LoopCondition
    <2>2. CASE SetHasError(f) \/ SetException(f) \/ SetError(f) \/ CompleteStep(f)
      BY <2>2 DEF SetHasError, SetException, SetError, CompleteStep, DecrementOutstanding,
                  CheckCompleted, MarkAsCompleted, AwaitFuture, RunFinalCallback,
                  ExecPostProcessing, FinishFuture, NotifyOwner
    <2> QED BY <2>1, <2>2 DEF FrameStep, EvaluateStep
  <1>2. /\ pc[f] \in Working \ {"reenter"}
        /\ \/ pc' = pc
           \/ \E x \in (Working \ {"reenter"}) \cup {"left", "exit"} : pc' = [pc EXCEPT ![f] = x]
        /\ cur' = cur \/ \E t : cur' = [cur EXCEPT ![f] = t]
    <2> USE DEF Working, Evaluating, Completing
    <2>1. CASE Pop(f)
      BY <2>1 DEF Pop
    <2>2. CASE Begin(f) \/ CallFunction(f) \/ Throw(f)
      BY <2>2 DEF Begin, CallFunction, Throw
    <2>3. CASE PropagateEdge(f) \/ LoopCondition(f)
      BY <2>3 DEF PropagateEdge, LoopCondition
    <2>4. CASE SetHasError(f) \/ SetException(f) \/ SetError(f)
      BY <2>4 DEF SetHasError, SetException, ClaimFuture, SetError
    <2>5. CASE CompleteStep(f)
      BY <2>5 DEF CompleteStep, DecrementOutstanding, CheckCompleted, MarkAsCompleted, ClaimFuture,
                  AwaitFuture, RunFinalCallback, ExecPostProcessing, FinishFuture, NotifyOwner
    <2> QED BY <2>1, <2>2, <2>3, <2>4, <2>5 DEF FrameStep, EvaluateStep
  <1>3. \A k \in Frames : k # f => pc'[k] = pc[k] /\ cur'[k] = cur[k]
    BY <1>0, <1>2
  <1>4. pc'[f] \in (Working \ {"reenter"}) \cup {"left", "exit"}
    BY <1>0, <1>2
  <1> QED BY <1>1, <1>2, <1>3, <1>4 DEF OneFrameRuns

LEMMA FramePlaces ==
  ASSUME IInv, WakeInv, NEW f \in Frames, OneFrameRuns(f)
  PROVE  OwnQueue' /\ OwnThread' /\ OneRuns'
  <1> USE DEF Working, Evaluating, Completing
  <1>1. \A k \in Frames : Started(k)' <=> Started(k)
    BY DEF OneFrameRuns, Started
  <1>2. OwnQueue'
    BY <1>1 DEF OneFrameRuns, WakeInv, OwnQueue
  <1>3. \A k \in Frames : pc'[k] \in Running => pc[k] \in Running
    BY DEF OneFrameRuns, Running
  <1>4. \A k \in Frames : pc'[k] \in {"handoff", "pooled"} => pc'[k] = pc[k]
    BY DEF OneFrameRuns
  <1>5. OwnThread'
    BY <1>1, <1>3, <1>4 DEF OneFrameRuns, WakeInv, OwnThread
  <1>6. \A k \in Frames : Runs(k)' => Runs(k)
    BY DEF OneFrameRuns, Runs, Running
  <1> QED BY <1>2, <1>5, <1>6 DEF OneFrameRuns, WakeInv, OneRuns

(* A task pushed on the queue of its call, or on a device's, is near. *)
LEMMA PushIsNear ==
  ASSUME IInv, TasksNear, thread' = thread, cur' = cur \/ (\E f \in Frames : cur' = [cur EXCEPT ![f] = None]),
         NEW q, NEW t \in NodeTasks, q \in Devices \/ q = thread[t.gt],
         heap' = [heap EXCEPT ![q] = @ \cup {t}]
  PROVE  TasksNear' /\ \A r \in Queues : heap[r] \subseteq heap'[r]
  <1>1. /\ heap \in [Queues -> SUBSET (NodeTasks \cup {ShutdownTask})]
        /\ cur \in [Frames -> NodeTasks \cup {None}]
    BY DEF IInv, TypeOK
  <1>2. \A r \in Queues : heap'[r] = IF r = q THEN heap[r] \cup {t} ELSE heap[r]
    BY <1>1
  <1>3. \A k \in Frames : cur'[k] \in {cur[k], None}
    BY <1>1
  <1> QED BY <1>2, <1>3 DEF TasksNear

(* Steps with the queues as they are. *)
LEMMA SameQueuesNear ==
  ASSUME TasksNear, UNCHANGED <<heap, thread>>, \A k \in Frames : cur'[k] \in {cur[k], None}
  PROVE  TasksNear'
  BY DEF TasksNear

LEMMA PopWakes ==
  ASSUME IInv, WakeInv, NEW f \in Frames, Pop(f)
  PROVE  WakeInv'
  <1>0. OneFrameRuns(f)
    BY FrameRuns DEF FrameStep, Reenter, ReturnToParent, Pop
  <1>1. pc[f] = "pop" /\ UNCHANGED <<thread, future_result>>
    BY DEF Pop
  <1>2. PICK q \in Queues : q = thread[f] /\ q = local_ready_queue[thread[f]]
    BY <1>1, RunsOwnQueue DEF Working
  <1>3. PICK t \in heap[q] :
            /\ heap' = [heap EXCEPT ![q] = @ \ {t}]
            /\ IF t = ShutdownTask THEN cur' = cur
               ELSE cur' = [cur EXCEPT ![f] = t] /\ pc' = [pc EXCEPT ![f] = "got"]
    BY <1>2 DEF Pop
  <1>4. /\ heap \in [Queues -> SUBSET (NodeTasks \cup {ShutdownTask})]
        /\ cur \in [Frames -> NodeTasks \cup {None}] /\ pc \in [Frames -> Labels]
    BY DEF IInv, TypeOK
  <1>5. /\ \A r \in Queues : heap'[r] = IF r = q THEN heap[r] \ {t} ELSE heap[r]
        /\ t # ShutdownTask => cur'[f] = t /\ pc'[f] = "got" /\ t \in NodeTasks
        /\ t = ShutdownTask => cur'[f] = cur[f]
    BY <1>3, <1>4
  <1>6. pc'[f] # "pop"
    BY <1>4 DEF Pop
  <1>7. TasksNear'
    <2>1. \A r \in Queues : \A u \in heap'[r] : u # ShutdownTask => r \in Devices \/ r = thread[u.gt]
      BY <1>5 DEF WakeInv, TasksNear
    <2>2. ASSUME NEW k \in Frames, cur'[k] # None
          PROVE  thread[k] \in Devices \/ thread[k] = thread[cur'[k].gt]
      <3>1. CASE cur'[k] = cur[k]
        BY <2>2, <3>1 DEF WakeInv, TasksNear
      <3>2. CASE k = f /\ t # ShutdownTask
        BY <1>2, <1>5, <3>2 DEF WakeInv, TasksNear
      <3> QED BY <1>0, <1>5, <3>1, <3>2 DEF OneFrameRuns
    <2> QED BY <1>1, <2>1, <2>2 DEF TasksNear
  <1>8. ASSUME NEW g \in GraphTasks,
               future_result'[g] # "none", pc'[g] = "pop", heap'[thread'[g]] = {}
        PROVE  Stirs(g)'
    <2>1. g # f /\ pc[g] = "pop"
      BY <1>0, <1>6, <1>8 DEF OneFrameRuns
    <2>2. thread[g] # q
      BY <1>1, <1>2, <2>1 DEF WakeInv, OneRuns, Runs, Running, Working
    <2>3. thread[g] \in Queues
      BY <2>1, RunsOwnQueue DEF Working
    <2>4. heap[thread[g]] = {}
      BY <1>1, <1>5, <1>8, <2>2, <2>3
    <2>5. Stirs(g)
      BY <1>1, <1>8, <2>1, <2>4 DEF WakeInv, Woken
    <2>6. ASSUME NEW k \in Frames, AtWork(k, g) PROVE AtWork(k, g)'
      <3>1. k # f
        BY <1>1, <2>6 DEF AtWork, Busy, Completing, Evaluating
      <3> QED BY <1>0, <2>6, <3>1 DEF OneFrameRuns, AtWork
    <2>7. CASE Left(g)
      <3>1. PICK r \in Queues : \E u \in heap[r] : u \in NodeTasks /\ u.gt = g
        BY <2>7 DEF Left
      <3>2. PICK u \in heap[r] : u \in NodeTasks /\ u.gt = g
        BY <3>1
      <3>3. CASE u = t
        <4>1. t # ShutdownTask /\ t # None
          BY <3>2, <3>3, ShutdownIsNoTask, NullAssumption
        <4>2. AtWork(f, g)'
          BY <1>5, <3>2, <3>3, <4>1 DEF AtWork, Busy
        <4> QED BY <4>2 DEF Stirs
      <3>4. CASE u # t
        BY <1>5, <3>2, <3>4 DEF Stirs, Left
      <3> QED BY <3>3, <3>4
    <2> QED BY <2>5, <2>6, <2>7 DEF Stirs
  <1>9. Woken'
    BY <1>8 DEF Woken
  <1> QED BY <1>0, <1>7, <1>9, FramePlaces DEF WakeInv

(* A frame whose task's graph task expired goes back to the loop. *)
LEMMA BeginWakes ==
  ASSUME IInv, WakeInv, NEW f \in Frames, Begin(f)
  PROVE  WakeInv'
  <1>0. OneFrameRuns(f)
    BY FrameRuns DEF FrameStep, EvaluateStep, Reenter, ReturnToParent, Begin
  <1>1. pc[f] = "got" /\ UNCHANGED <<thread, heap, future_result>>
    BY DEF Begin
  <1>2. /\ cur \in [Frames -> NodeTasks \cup {None}] /\ pc \in [Frames -> Labels]
    BY DEF IInv, TypeOK
  <1>3. cur[f] # None /\ cur[f].gt \in GraphTasks
    BY <1>1, HeldTask
  <1>4. CASE Alive(cur[f].gt)
    <2>1. cur' = cur /\ pc'[f] \in {"run", "dec"}
      BY <1>2, <1>4 DEF Begin
    <2>2. Woken'
      BY <1>0, <1>1, <2>1, WorkGoesOn DEF WakeInv, OneFrameRuns, Busy, Evaluating
    <2>3. TasksNear'
      BY <1>1, <2>1, SameQueuesNear DEF WakeInv
    <2> QED BY <1>0, <2>2, <2>3, FramePlaces DEF WakeInv
  <1>5. CASE ~Alive(cur[f].gt)
    <2>1. cur' = [cur EXCEPT ![f] = None] /\ pc' = [pc EXCEPT ![f] = LoopHead(f)]
      BY <1>5 DEF Begin
    <2>2. \A k \in Frames : cur'[k] \in {cur[k], None}
      BY <1>2, <2>1
    <2>3. TasksNear'
      BY <1>1, <2>2, SameQueuesNear DEF WakeInv
    <2>4. ASSUME NEW g \in GraphTasks,
                 future_result'[g] # "none", pc'[g] = "pop", heap'[thread'[g]] = {}
          PROVE  Stirs(g)'
      <3>1. pc[g] = "pop"
        BY <1>2, <2>1, <2>4, EngineAssumption
      <3>2. Alive(g)
        BY <3>1 DEF Alive, WakeInv, OwnThread, Running, Working
      <3>3. \A k \in Frames : AtWork(k, g) => AtWork(k, g)'
        BY <1>0, <1>5, <3>2 DEF OneFrameRuns, AtWork
      <3> QED BY <1>1, <2>4, <3>1, <3>3, StillStirs DEF WakeInv
    <2>5. Woken'
      BY <2>4 DEF Woken
    <2> QED BY <1>0, <2>3, <2>5, FramePlaces DEF WakeInv
  <1> QED BY <1>4, <1>5

(* Steps within a task that queue nothing. *)
LEMMA EvaluationWakes ==
  ASSUME IInv, WakeInv, NEW f \in Frames,
         \/ CallFunction(f) \/ Throw(f) \/ SetHasError(f) \/ SetException(f) \/ SetError(f)
         \/ DecrementOutstanding(f) \/ MarkAsCompleted(f) \/ AwaitFuture(f)
         \/ RunFinalCallback(f) \/ ExecPostProcessing(f)
  PROVE  WakeInv'
  <1> USE DEF Busy, Evaluating, Completing
  <1>0. OneFrameRuns(f)
    <2>1. ~Reenter(f) \/ CallFunction(f) \/ Throw(f)
      BY DEF Reenter, SetHasError, SetException, SetError, DecrementOutstanding, MarkAsCompleted,
             AwaitFuture, RunFinalCallback, ExecPostProcessing
    <2>2. ~Reenter(f)
      <3>1. CASE CallFunction(f) \/ Throw(f)
        <4>1. Reenter(f) => call' # call
          <5>1. ASSUME Reenter(f) PROVE Inner(f) \in GraphTasks /\ Execute(thread[f], Inner(f))
            BY <5>1, HeldTask, FrameFacts, EngineAssumption DEF Reenter, Inner, Working
          <5>2. ASSUME Reenter(f) PROVE call[Inner(f)] = "idle" /\ call'[Inner(f)] # "idle"
            BY <5>1, <5>2 DEF Execute, IInv, TypeOK
          <5> QED BY <5>2
        <4>2. call' = call
          BY <3>1 DEF CallFunction, Throw
        <4> QED BY <4>1, <4>2
      <3> QED BY <2>1, <3>1
    <2>3. ~ReturnToParent(f)
      BY DEF ReturnToParent, CallFunction, Throw, SetHasError, SetException, SetError,
             DecrementOutstanding, MarkAsCompleted, AwaitFuture, RunFinalCallback, ExecPostProcessing
    <2> QED BY <2>2, <2>3, FrameRuns DEF FrameStep, EvaluateStep, CompleteStep
  <1>1. /\ UNCHANGED <<thread, heap, cur>> /\ pc[f] \in Busy \cup Completing
        /\ \/ pc' = pc
           \/ \E x \in Busy \cup Completing : pc' = [pc EXCEPT ![f] = x]
    <2>1. CASE CallFunction(f) \/ Throw(f) \/ SetHasError(f) \/ SetException(f) \/ SetError(f)
      BY <2>1 DEF CallFunction, Throw, SetHasError, SetException, ClaimFuture, SetError
    <2>2. CASE DecrementOutstanding(f) \/ MarkAsCompleted(f) \/ AwaitFuture(f)
      BY <2>2 DEF DecrementOutstanding, MarkAsCompleted, ClaimFuture, AwaitFuture
    <2>3. CASE RunFinalCallback(f) \/ ExecPostProcessing(f)
      BY <2>3 DEF RunFinalCallback, ExecPostProcessing, FinishFuture
    <2> QED BY <2>1, <2>2, <2>3
  <1>2. pc'[f] \in Busy \cup Completing
    BY <1>1 DEF IInv, TypeOK
  <1>3. \/ future_result' = future_result
        \/ \E x : future_result' = [future_result EXCEPT ![cur[f].gt] = x]
    <2>1. CASE CallFunction(f) \/ Throw(f) \/ SetHasError(f) \/ SetException(f) \/ SetError(f)
      BY <2>1 DEF CallFunction, Throw, SetHasError, SetException, ClaimFuture, SetError
    <2>2. CASE DecrementOutstanding(f) \/ MarkAsCompleted(f) \/ AwaitFuture(f)
      BY <2>2 DEF DecrementOutstanding, MarkAsCompleted, ClaimFuture, AwaitFuture
    <2>3. CASE RunFinalCallback(f) \/ ExecPostProcessing(f)
      BY <2>3 DEF RunFinalCallback, ExecPostProcessing, FinishFuture
    <2> QED BY <2>1, <2>2, <2>3
  <1>4. \A g \in GraphTasks : future_result'[g] = future_result[g] \/ g = cur[f].gt
    BY <1>3 DEF IInv, TypeOK
  <1>5. Woken'
    BY <1>0, <1>1, <1>2, <1>4, WorkGoesOn DEF WakeInv, OneFrameRuns
  <1>6. TasksNear'
    BY <1>1, SameQueuesNear DEF WakeInv
  <1> QED BY <1>0, <1>5, <1>6, FramePlaces DEF WakeInv

(* A node that becomes ready goes to the call's queue or to a device. *)
LEMMA PropagateWakes ==
  ASSUME IInv, WakeInv, NEW f \in Frames, PropagateEdge(f)
  PROVE  WakeInv'
  <1> USE DEF Busy, Evaluating, Completing
  <1>0. OneFrameRuns(f)
    BY FrameRuns DEF FrameStep, EvaluateStep, Reenter, ReturnToParent, PropagateEdge
  <1>1. pc[f] = "edges" /\ UNCHANGED <<thread, cur, future_result>>
    BY DEF PropagateEdge
  <1>2. PICK g \in GraphTasks, m \in Nodes : g = cur[f].gt /\ m = cur[f].fn /\ call[g] # "idle"
    BY <1>1, HeldTask, FrameFacts DEF Working
  <1>3. pc'[f] \in {"throw", "dec", "edges"}
    <2>1. \E x \in {"throw", "dec", "edges"} : pc' = [pc EXCEPT ![f] = x]
      BY DEF PropagateEdge
    <2> QED BY <2>1 DEF IInv, TypeOK
  <1>4. \/ heap' = heap
        \/ \E n \in Nodes : Push(ready_queue(cpu_ready_queue[g], NodeDevice[n]), NodeTask(g, n))
    <2>1. PICK n : n = NextEdges[m][edge[f]]
      OBVIOUS
    <2>2. n \in Nodes \cup {None}
      <3>1. edge[f] \in 1 .. Len(NextEdges[m]) /\ NextEdges[m] \in Seq(Nodes \cup {None})
        BY <1>1, <1>2, GraphAssumption DEF IInv, WellFormed, FrameWellFormed
      <3> QED BY <2>1, <3>1
    <2>3. \/ heap' = heap \/ (n # None /\ PropagateTo(g, <<m, edge[f]>>, n))
      BY <1>2, <2>1 DEF PropagateEdge
    <2> QED BY <2>2, <2>3 DEF PropagateTo
  <1>5. CASE heap' = heap
    <2>1. TasksNear'
      BY <1>1, <1>5, SameQueuesNear DEF WakeInv
    <2>2. Woken'
      BY <1>0, <1>1, <1>3, <1>5, WorkGoesOn DEF WakeInv, OneFrameRuns
    <2> QED BY <1>0, <2>1, <2>2, FramePlaces DEF WakeInv
  <1>6. ASSUME NEW n \in Nodes,
               Push(ready_queue(cpu_ready_queue[g], NodeDevice[n]), NodeTask(g, n))
        PROVE  WakeInv'
    <2>1. PICK q : q = ready_queue(cpu_ready_queue[g], NodeDevice[n])
      OBVIOUS
    <2>2. PICK t \in NodeTasks : t = NodeTask(g, n) /\ t.gt = g
      <3>1. NodeTask(g, n) \in NodeTasks /\ NodeTask(g, n).gt = g
        BY DEF NodeTask, NodeTasks
      <3> QED BY <3>1
    <2>3. q \in Devices \/ q = thread[g]
      BY <1>2, <2>1, EngineAssumption DEF ready_queue, WakeInv, OwnThread
    <2>4. heap' = [heap EXCEPT ![q] = @ \cup {t}]
      BY <1>6, <2>1, <2>2 DEF Push
    <2>5. TasksNear' /\ \A r \in Queues : heap[r] \subseteq heap'[r]
      BY <1>1, <2>2, <2>3, <2>4, PushIsNear DEF WakeInv
    <2>6. Woken'
      BY <1>0, <1>1, <1>3, <2>5, WorkGoesOn DEF WakeInv, OneFrameRuns
    <2> QED BY <1>0, <2>5, <2>6, FramePlaces DEF WakeInv
  <1> QED BY <1>4, <1>5, <1>6

(* A frame lets go of a task that was not the last: another one is left. *)
LEMMA CheckWakes ==
  ASSUME IInv, CountInv, WakeInv, NEW f \in Frames, CheckCompleted(f)
  PROVE  WakeInv'
  <1> USE DEF Busy, Evaluating, Completing
  <1>0. OneFrameRuns(f)
    BY FrameRuns DEF FrameStep, CompleteStep, Reenter, ReturnToParent, CheckCompleted
  <1>1. pc[f] = "check" /\ UNCHANGED <<thread, heap, future_result>>
    BY DEF CheckCompleted
  <1>2. cur \in [Frames -> NodeTasks \cup {None}] /\ pc \in [Frames -> Labels]
    BY DEF IInv, TypeOK
  <1>3. cur[f] # None /\ cur[f].gt \in GraphTasks
    BY <1>1, HeldTask
  <1>4. CASE Completed(cur[f].gt)
    <2>1. cur' = cur /\ pc'[f] = "mark"
      BY <1>2, <1>4 DEF CheckCompleted
    <2>2. Woken'
      BY <1>0, <1>1, <2>1, WorkGoesOn DEF WakeInv, OneFrameRuns
    <2>3. TasksNear'
      BY <1>1, <2>1, SameQueuesNear DEF WakeInv
    <2> QED BY <1>0, <2>2, <2>3, FramePlaces DEF WakeInv
  <1>5. CASE ~Completed(cur[f].gt)
    <2>1. cur' = [cur EXCEPT ![f] = None] /\ pc' = [pc EXCEPT ![f] = LoopHead(f)]
      BY <1>5 DEF CheckCompleted
    <2>2. \A k \in Frames : cur'[k] \in {cur[k], None}
      BY <1>2, <2>1
    <2>3. TasksNear'
      BY <1>1, <2>2, SameQueuesNear DEF WakeInv
    <2>4. ASSUME NEW g \in GraphTasks,
                 future_result'[g] # "none", pc'[g] = "pop", heap'[thread'[g]] = {}
          PROVE  Stirs(g)'
      <3>1. pc[g] = "pop"
        BY <1>2, <2>1, <2>4, EngineAssumption
      <3>2. CASE g # cur[f].gt
        <4>1. \A k \in Frames : AtWork(k, g) => AtWork(k, g)'
          BY <1>0, <3>2 DEF OneFrameRuns, AtWork
        <4> QED BY <1>1, <2>4, <3>1, <4>1, StillStirs DEF WakeInv
      <3>3. CASE g = cur[f].gt
        <4>1. Alive(g)
          BY <3>1 DEF Alive, WakeInv, OwnThread, Running, Working
        <4>2. Cardinality(Queued(g)) + Cardinality(Uncounted(g)) # 0
          BY <1>5, <3>3, <4>1 DEF CountInv, OutstandingIsExact, Completed
        <4>3. Queued(g) # {} \/ Uncounted(g) # {}
          BY <4>2, FS_EmptySet
        <4>4. Queued(g) # {} => Left(g)'
          BY <1>1 DEF Queued, Left
        <4>5. ASSUME NEW k \in Uncounted(g) PROVE AtWork(k, g)' /\ k \in Frames
          <5>1. k \in Frames /\ k # f
            BY <1>1 DEF Uncounted
          <5> QED BY <1>0, <5>1 DEF OneFrameRuns, AtWork, Uncounted
        <4> QED BY <4>3, <4>4, <4>5 DEF Stirs
      <3> QED BY <3>2, <3>3
    <2>5. Woken'
      BY <2>4 DEF Woken
    <2> QED BY <1>0, <2>3, <2>5, FramePlaces DEF WakeInv
  <1> QED BY <1>4, <1>5

(* The frame that found the last task done wakes the owner, or is on the    *)
(* owner's thread.                                                          *)
LEMMA NotifyWakes ==
  ASSUME IInv, WakeInv, NEW f \in Frames, NotifyOwner(f)
  PROVE  WakeInv'
  <1> USE DEF Busy, Evaluating, Completing
  <1>0. OneFrameRuns(f)
    BY FrameRuns DEF FrameStep, CompleteStep, Reenter, ReturnToParent, NotifyOwner
  <1>1. /\ pc[f] = "wake" /\ UNCHANGED <<thread, future_result>>
        /\ cur' = [cur EXCEPT ![f] = None] /\ pc' = [pc EXCEPT ![f] = LoopHead(f)]
    BY DEF NotifyOwner
  <1>2. cur \in [Frames -> NodeTasks \cup {None}] /\ pc \in [Frames -> Labels]
    BY DEF IInv, TypeOK
  <1>3. PICK h \in GraphTasks : h = cur[f].gt /\ cur[f] # None /\ call[h] # "idle"
    BY <1>1, HeldTask
  <1>4. PICK q : q = ready_queue_by_index(cpu_ready_queue[h], owner[h])
    OBVIOUS
  <1>5. PICK t \in NodeTasks : t = DummyTask(h, f) /\ t.gt = h
    <2>1. DummyTask(h, f) \in NodeTasks /\ DummyTask(h, f).gt = h
      BY DEF DummyTask, NodeTasks
    <2> QED BY <2>1
  <1>6. q \in Queues /\ (q \in Devices \/ q = thread[h])
    BY <1>3, <1>4, EngineAssumption DEF ready_queue_by_index, WakeInv, OwnThread
  <1>7. IF WakesOwner(f, h) THEN heap' = [heap EXCEPT ![q] = @ \cup {t}] ELSE heap' = heap
    BY <1>3, <1>4, <1>5 DEF NotifyOwner, Push
  <1>8. \A k \in Frames : cur'[k] \in {cur[k], None}
    BY <1>1, <1>2
  <1>9. TasksNear' /\ \A r \in Queues : heap[r] \subseteq heap'[r]
    <2>1. CASE heap' = heap
      BY <1>1, <1>8, <2>1, SameQueuesNear DEF WakeInv
    <2>2. CASE heap' = [heap EXCEPT ![q] = @ \cup {t}]
      BY <1>1, <1>5, <1>6, <2>2, PushIsNear DEF WakeInv
    <2> QED BY <1>7, <2>1, <2>2
  <1>10. ASSUME ~WakesOwner(f, h) PROVE thread[f] = thread[h]
    <2>1. thread[f] \in Queues /\ (thread[f] \in Devices \/ thread[f] = thread[h])
      BY <1>1, <1>3, RunsOwnQueue DEF WakeInv, TasksNear, Working
    <2>2. worker_device[thread[f]] = owner[h]
      BY <1>10 DEF WakesOwner
    <2>3. CASE thread[f] \in Devices
      <3>1. worker_device[thread[f]] \in {thread[f], NO_DEVICE}
        BY <2>3 DEF WakeInv, OwnQueue
      <3>2. owner[h] = IF thread[h] \in Devices THEN thread[h] ELSE CPU
        BY <1>3 DEF WakeInv, OwnThread
      <3> QED BY <2>2, <2>3, <3>1, <3>2, EngineAssumption
    <2> QED BY <2>1, <2>3
  <1>11. ASSUME NEW g \in GraphTasks,
                future_result'[g] # "none", pc'[g] = "pop", heap'[thread'[g]] = {}
         PROVE  Stirs(g)'
    <2>1. pc[g] = "pop" /\ g # f
      BY <1>1, <1>2, <1>11, EngineAssumption
    <2>2. CASE g # h
      <3>1. \A k \in Frames : AtWork(k, g) => AtWork(k, g)'
        BY <1>0, <1>3, <2>2 DEF OneFrameRuns, AtWork
      <3>2. heap[thread[g]] = {}
        <4>1. thread[g] \in Queues
          BY <2>1, RunsOwnQueue DEF Working
        <4> QED BY <1>1, <1>9, <1>11, <4>1
      <3> QED BY <1>1, <1>9, <1>11, <2>1, <3>1, <3>2, StillStirs DEF WakeInv
    <2>3. CASE g = h /\ WakesOwner(f, h)
      <3>1. t \in heap'[q]
        BY <1>6, <1>7, <2>3 DEF IInv, TypeOK
      <3> QED BY <1>5, <1>6, <2>3, <3>1 DEF Stirs, Left
    <2>4. CASE g = h /\ ~WakesOwner(f, h)
      BY <1>1, <1>10, <2>1, <2>4 DEF WakeInv, OneRuns, Runs, Running, Working
    <2> QED BY <2>2, <2>3, <2>4
  <1>12. Woken'
    BY <1>11 DEF Woken
  <1> QED BY <1>0, <1>9, <1>12, FramePlaces DEF WakeInv

(* The loop condition lets nobody sleep whose future is set. *)
LEMMA LoopWakes ==
  ASSUME IInv, WakeInv, NEW f \in GraphTasks, LoopCondition(f)
  PROVE  WakeInv'
  <1>0. OneFrameRuns(f)
    BY FrameRuns
  <1>1. /\ pc[f] = "loop" /\ UNCHANGED <<thread, heap, cur, future_result>>
        /\ pc' = [pc EXCEPT ![f] = IF FutureDone(f) THEN "left" ELSE "pop"]
    BY DEF LoopCondition
  <1>2. TasksNear'
    BY <1>1, SameQueuesNear DEF WakeInv
  <1>3. ASSUME NEW g \in GraphTasks,
               future_result'[g] # "none", pc'[g] = "pop", heap'[thread'[g]] = {}
        PROVE  Stirs(g)'
    <2>1. g # f
      BY <1>1, <1>3 DEF FutureDone, IInv, TypeOK
    <2>2. pc[g] = "pop"
      BY <1>0, <1>3, <2>1 DEF OneFrameRuns
    <2>3. \A k \in Frames : AtWork(k, g) => AtWork(k, g)'
      BY <1>0, <1>1 DEF OneFrameRuns, AtWork, Busy, Completing, Evaluating
    <2> QED BY <1>1, <1>3, <2>2, <2>3, StillStirs DEF WakeInv
  <1>4. Woken'
    BY <1>3 DEF Woken
  <1> QED BY <1>0, <1>2, <1>4, FramePlaces DEF WakeInv

-----------------------------------------------------------------------------
(* execute() on thread t, where no frame runs but the one that calls it. *)
LEMMA ExecuteWakes ==
  ASSUME IInv, CountInv, WakeInv, NEW t \in Callers \cup Devices, NEW g \in GraphTasks, Execute(t, g),
         NoneHanded', t \in Devices => Started(t),
         pc'[g] = FrameStart(t),
         \A k \in Frames : k # g => \/ pc'[k] = pc[k]
                                    \/ pc[k] = "run" /\ pc'[k] = "reenter",
         \A k \in Frames : Runs(k) /\ thread[k] = t => pc'[k] = "reenter" /\ k # g
  PROVE  WakeInv'
  <1> USE DEF Busy, Evaluating, Completing
  <1>1. /\ call[g] = "idle" /\ pc[g] = "idle" /\ cur' = cur /\ UNCHANGED future_result
        /\ \A k \in GraphTasks : k # g => call'[k] = call[k]
        /\ \A k \in Frames : k # g => thread'[k] = thread[k]
        /\ \A u \in Threads : u # t => worker_device'[u] = worker_device[u]
        /\ UsesPool(t) => call'[g] = "handed"
        /\ ~UsesPool(t) => call'[g] = "inline" /\ thread'[g] = t
    <2>1. t \in Threads /\ UNCHANGED future_result
      BY DEF Execute
    <2> QED BY <2>1, NestingEffect
  <1>2. ~UsesPool(t) /\ call'[g] = "inline" /\ thread'[g] = t /\ pc'[g] = "loop"
    BY <1>1 DEF NoneHanded, FrameStart
  <1>3. worker_device'[t] = IF t \in Devices THEN t ELSE CPU
    <2>1. worker_device'[t] = IF Reentrant(t) THEN worker_device[t] ELSE CPU
      BY DEF Execute, IInv, TypeOK
    <2>2. t \in Devices => worker_device[t] = t /\ Reentrant(t)
      BY EngineAssumption DEF WakeInv, OwnQueue, Reentrant
    <2>3. t \in Callers => worker_device[t] \in {CPU, NO_DEVICE}
      BY DEF WakeInv, OwnQueue
    <2> QED BY <2>1, <2>2, <2>3, EngineAssumption DEF Reentrant
  <1>4. PICK q : q = IF local_ready_queue[t] = None THEN t ELSE local_ready_queue[t]
    OBVIOUS
  <1>5. q = t
    BY <1>4 DEF WakeInv, OwnQueue
  <1>6. /\ local_ready_queue' = [local_ready_queue EXCEPT ![t] = t]
        /\ cpu_ready_queue' = [cpu_ready_queue EXCEPT ![g] = t]
        /\ owner' = [owner EXCEPT ![g] = worker_device'[t]]
        /\ Push(ready_queue(t, NodeDevice[Root[g]]), NodeTask(g, Root[g]))
    BY <1>4, <1>5 DEF Execute
  <1>7. \A k \in Frames : k \in Devices => (Started(k)' <=> Started(k))
    BY EngineAssumption DEF Started
  <1>8. OwnQueue'
    <2>1. \A u \in Threads : local_ready_queue'[u] \in {None, u}
      BY <1>6 DEF IInv, TypeOK, WakeInv, OwnQueue
    <2>2. \A c \in Callers : worker_device'[c] \in {CPU, NO_DEVICE}
      BY <1>1, <1>3, EngineAssumption DEF WakeInv, OwnQueue
    <2>3. \A d \in Devices : /\ worker_device'[d] \in {d, NO_DEVICE}
                             /\ Started(d)' => worker_device'[d] = d
      <3> SUFFICES ASSUME NEW d \in Devices
                   PROVE  /\ worker_device'[d] \in {d, NO_DEVICE}
                          /\ Started(d)' => worker_device'[d] = d
        OBVIOUS
      <3>1. CASE d = t
        BY <1>3, <3>1
      <3>2. CASE d # t
        <4>1. worker_device'[d] = worker_device[d]
          BY <1>1, <3>2
        <4>2. Started(d)' <=> Started(d)
          BY <1>7
        <4>3. worker_device[d] \in {d, NO_DEVICE} /\ (Started(d) => worker_device[d] = d)
          BY DEF WakeInv, OwnQueue
        <4> QED BY <4>1, <4>2, <4>3
      <3> QED BY <3>1, <3>2
    <2> QED BY <2>1, <2>2, <2>3 DEF OwnQueue, Started
  <1>9. OwnThread'
    <2>1. ASSUME NEW k \in GraphTasks, k # g
          PROVE  /\ call'[k] = call[k] /\ thread'[k] = thread[k]
                 /\ owner'[k] = owner[k] /\ cpu_ready_queue'[k] = cpu_ready_queue[k]
                 /\ pc'[k] \in Running => pc[k] \in Running
                 /\ pc'[k] \in {"handoff", "pooled"} => pc'[k] = pc[k]
      BY <1>1, <1>6, <2>1 DEF IInv, TypeOK, Running, Working
    <2>2. owner'[g] = worker_device'[t] /\ cpu_ready_queue'[g] = t
      BY <1>6 DEF IInv, TypeOK
    <2>3. ASSUME NEW k \in GraphTasks
          PROVE  /\ call'[k] = "idle" => thread'[k] = None
                 /\ call'[k] # "idle" =>
                       /\ thread'[k] \in Callers \cup Devices /\ cpu_ready_queue'[k] = thread'[k]
                       /\ owner'[k] = IF thread'[k] \in Devices THEN thread'[k] ELSE CPU
                       /\ \A d \in Devices : thread'[k] = d => Started(d)'
                 /\ pc'[k] \in Running => call'[k] = "inline"
                 /\ pc'[k] \notin {"handoff", "pooled"}
      <3>1. CASE k = g
        BY <1>2, <1>3, <1>7, <2>2, <3>1
      <3>2. CASE k # g
        <4>1. \A d \in Devices : thread'[k] = d /\ call[k] # "idle" => Started(d)'
          BY <1>7, <2>1, <3>2 DEF WakeInv, OwnThread
        <4> QED BY <2>1, <3>2, <4>1 DEF WakeInv, OwnThread
      <3> QED BY <3>1, <3>2
    <2> QED BY <2>3 DEF OwnThread
  <1>10. /\ TasksNear'
         /\ \A r \in Queues : heap[r] \subseteq heap'[r]
    <2>1. PICK r : r = ready_queue(t, NodeDevice[Root[g]])
      OBVIOUS
    <2>2. PICK u \in NodeTasks : u = NodeTask(g, Root[g]) /\ u.gt = g
      <3>1. NodeTask(g, Root[g]) \in NodeTasks /\ NodeTask(g, Root[g]).gt = g
        BY EngineAssumption DEF NodeTask, NodeTasks
      <3> QED BY <3>1
    <2>3. r \in Devices \/ r = t
      BY <2>1, EngineAssumption DEF ready_queue
    <2>4. heap' = [heap EXCEPT ![r] = @ \cup {u}]
      BY <1>6, <2>1, <2>2 DEF Push
    <2>5. heap \in [Queues -> SUBSET (NodeTasks \cup {ShutdownTask})]
      BY DEF IInv, TypeOK
    <2>6. \A s \in Queues : heap'[s] = IF s = r THEN heap[s] \cup {u} ELSE heap[s]
      BY <2>4, <2>5
    <2>7. ASSUME NEW s \in Queues, NEW v \in heap'[s], v # ShutdownTask
          PROVE  s \in Devices \/ s = thread'[v.gt]
      <3>1. CASE v = u
        <4>1. CASE v \in heap[s]
          BY <1>1, <2>2, <2>7, <3>1, <4>1 DEF IInv, WellFormed
        <4>2. CASE s = r
          BY <1>2, <2>2, <2>3, <3>1, <4>2
        <4> QED BY <2>6, <4>1, <4>2
      <3>2. CASE v # u
        <4>0. v \in heap[s]
          BY <2>6, <2>7, <3>2
        <4>1. v \in heap[s] /\ v \in NodeTasks
          BY <2>5, <2>7, <4>0
        <4>2. call[v.gt] # "idle" /\ v.gt \in GraphTasks
          BY <2>7, <4>1 DEF IInv, WellFormed, NodeTasks
        <4> QED BY <1>1, <2>7, <4>1, <4>2 DEF WakeInv, TasksNear
      <3> QED BY <3>1, <3>2
    <2>8. ASSUME NEW k \in Frames, cur[k] # None
          PROVE  thread'[k] \in Devices \/ thread'[k] = thread'[cur[k].gt]
      <3>1. call[cur[k].gt] # "idle" /\ cur[k].gt \in GraphTasks
        BY <2>8 DEF IInv, WellFormed, FrameWellFormed, TypeOK, NodeTasks
      <3>2. thread[k] \in Devices \/ thread[k] = thread[cur[k].gt]
        BY <2>8 DEF WakeInv, TasksNear
      <3>3. thread[cur[k].gt] \in Callers \cup Devices
        BY <3>1 DEF WakeInv, OwnThread
      <3>4. k # g
        <4>1. k = g => thread[k] = None
          BY <1>1 DEF WakeInv, OwnThread
        <4> QED BY <3>2, <3>3, <4>1, EngineAssumption
      <3> QED BY <1>1, <3>1, <3>2, <3>4
    <2> QED BY <1>1, <2>6, <2>7, <2>8 DEF TasksNear
  <1>11. OneRuns'
    <2> SUFFICES ASSUME NEW f \in Frames, NEW k \in Frames, Runs(f)', Runs(k)', thread'[f] = thread'[k]
                 PROVE  f = k
      BY DEF OneRuns
    <2>1. ASSUME NEW j \in Frames, j # g, Runs(j)' PROVE Runs(j) /\ thread'[j] = thread[j] /\ thread[j] # t
      BY <1>1, <2>1 DEF Runs, Running, Working
    <2>2. CASE f # g /\ k # g
      BY <2>1, <2>2 DEF WakeInv, OneRuns
    <2> QED BY <1>2, <2>1, <2>2
  <1>12. ASSUME NEW k \in GraphTasks,
                future_result'[k] # "none", pc'[k] = "pop", heap'[thread'[k]] = {}
         PROVE  Stirs(k)'
    <2>1. k # g /\ pc[k] = "pop" /\ thread'[k] = thread[k]
      BY <1>1, <1>2, <1>12
    <2>2. thread[k] \in Queues
      BY <2>1, RunsOwnQueue DEF Working
    <2>3. heap[thread[k]] = {}
      BY <1>10, <1>12, <2>1, <2>2
    <2>4. \A j \in Frames : AtWork(j, k) => AtWork(j, k)'
      BY <1>1 DEF AtWork
    <2> QED BY <1>1, <1>10, <1>12, <2>1, <2>3, <2>4, StillStirs DEF WakeInv
  <1>13. Woken'
    BY <1>12 DEF Woken
  <1> QED BY <1>8, <1>9, <1>10, <1>11, <1>13 DEF WakeInv

LEMMA CallWakes ==
  ASSUME IInv, CountInv, DepthInv, WakeInv, NoneHanded',
         \/ \E c \in Callers, g \in GraphTasks : Backward(c, g)
         \/ \E f \in Frames : Reenter(f)
  PROVE  WakeInv'
  <1>0. pc \in [Frames -> Labels]
    BY DEF IInv, TypeOK
  <1>1. ASSUME NEW c \in Callers, NEW g \in GraphTasks, Backward(c, g) PROVE WakeInv'
    <2>1. Outside(c) /\ Execute(c, g) /\ pc' = [pc EXCEPT ![g] = FrameStart(c)]
      BY <1>1 DEF Backward
    <2>2. pc'[g] = FrameStart(c) /\ \A k \in Frames : k # g => pc'[k] = pc[k]
      BY <1>0, <2>1
    <2>3. Inline(c) = {}
      BY <2>1, OutsideIsEmpty
    <2>4. ASSUME NEW k \in Frames, Runs(k), thread[k] = c PROVE FALSE
      <3>1. k \notin Devices
        BY <2>4, EngineAssumption DEF IInv, WellFormed, FrameWellFormed
      <3>2. call[k] = "inline"
        BY <2>4, <3>1 DEF Runs, WakeInv, OwnThread
      <3> QED BY <2>3, <2>4, <3>1, <3>2 DEF Inline
    <2> QED BY <2>1, <2>2, <2>4, ExecuteWakes, EngineAssumption
  <1>2. ASSUME NEW f \in Frames, Reenter(f) PROVE WakeInv'
    <2>1. pc[f] = "run" /\ Inner(f) # None
      BY <1>2 DEF Reenter
    <2>2. PICK g \in GraphTasks, t \in Queues : g = Inner(f) /\ t = thread[f]
      BY <2>1, RunsOwnQueue, HeldTask, FrameFacts, EngineAssumption DEF Inner, Working, Evaluating
    <2>3. Execute(t, g) /\ pc' = [pc EXCEPT ![f] = "reenter", ![g] = FrameStart(t)]
      BY <1>2, <2>2 DEF Reenter
    <2>4. pc[g] = "idle"
      BY <2>3 DEF Execute, CountInv, Unstarted
    <2>5. pc'[g] = FrameStart(t) /\ pc'[f] = "reenter" /\ \A k \in Frames : k # g /\ k # f => pc'[k] = pc[k]
      BY <1>0, <2>1, <2>3, <2>4
    <2>6. ASSUME NEW k \in Frames, Runs(k), thread[k] = t PROVE k = f
      BY <2>1, <2>2, <2>6 DEF Runs, Running, Working, Evaluating, WakeInv, OneRuns
    <2>7. t \in Devices => Started(t)
      <3>1. CASE f \in Devices
        BY <2>1, <2>2, <3>1 DEF IInv, WellFormed, FrameWellFormed, Started
      <3>2. CASE f \in GraphTasks
        <4>1. call[f] = "inline"
          BY <2>1, <3>2 DEF WakeInv, OwnThread, Running, Working, Evaluating
        <4> QED BY <2>2, <3>2, <4>1 DEF WakeInv, OwnThread
      <3> QED BY <3>1, <3>2
    <2> QED BY <2>1, <2>3, <2>4, <2>5, <2>6, <2>7, ExecuteWakes
  <1> QED BY <1>1, <1>2

(* A call returns: the frame below it, if any, runs in its place. *)
LEMMA ReturnWakes ==
  ASSUME IInv, DepthInv, WakeInv, NoneHanded,
         \/ \E f \in Frames : ReturnToParent(f)
         \/ \E c \in Callers, g \in GraphTasks : ReturnToCaller(c, g)
  PROVE  WakeInv'
  <1> USE DEF Busy, Evaluating, Completing
  <1>0. /\ pc \in [Frames -> Labels] /\ worker_device \in [Threads -> Devices \cup {CPU, NO_DEVICE}]
        /\ call \in [GraphTasks -> {"idle", "inline", "handed", "returned", "aborted"}]
    BY DEF IInv, TypeOK
  <1>1. UNCHANGED <<owner, cpu_ready_queue, thread, local_ready_queue, heap, cur, future_result>>
    BY DEF ReturnToParent, ReturnToCaller
  <1>2. PICK h \in GraphTasks :
          /\ pc[h] = "left" /\ pc'[h] = "done"
          /\ \A k \in GraphTasks : k # h => call'[k] = call[k]
          /\ call[h] = "inline" /\ call'[h] \in {"returned", "aborted"}
          /\ \A k \in Frames : k # h =>
                \/ pc'[k] = pc[k]
                \/ pc[k] = "reenter" /\ pc'[k] \in {"run", "throw"} /\ thread[k] = thread[h]
          /\ \A j, k \in Frames : pc[j] = "reenter" /\ pc'[j] # pc[j] /\ pc[k] = "reenter" /\ pc'[k] # pc[k]
                => j = k
          /\ \A u \in Threads : worker_device'[u] = worker_device[u]
                                \/ (u \in Callers /\ worker_device'[u] = NO_DEVICE)
    <2>1. ASSUME NEW f \in Frames, ReturnToParent(f)
          PROVE  /\ Inner(f) \in GraphTasks /\ pc[Inner(f)] = "left" /\ call[Inner(f)] = "inline"
                 /\ thread[Inner(f)] = thread[f] /\ pc[f] = "reenter" /\ worker_device' = worker_device
                 /\ \E x \in {"run", "throw"} : pc' = [pc EXCEPT ![f] = x, ![Inner(f)] = "done"]
                 /\ \E x \in {"returned", "aborted"} : call' = [call EXCEPT ![Inner(f)] = x]
      <3>1. pc[f] = "reenter" /\ Inner(f) \in GraphTasks
        BY <2>1 DEF ReturnToParent, DepthInv, FramesPlaced
      <3>2. call[Inner(f)] # "handed"
        BY <3>1 DEF NoneHanded
      <3>3. call[Inner(f)] = "inline"
        BY <2>1, <3>2 DEF ReturnToParent
      <3> QED BY <2>1, <3>1, <3>2, <3>3 DEF ReturnToParent, DepthInv, FramesPlaced
    <2>2. ASSUME NEW f \in Frames, ReturnToParent(f)
          PROVE  /\ pc'[f] \in {"run", "throw"} /\ pc'[Inner(f)] = "done" /\ f # Inner(f)
                 /\ \A k \in Frames : k # f /\ k # Inner(f) => pc'[k] = pc[k]
                 /\ call'[Inner(f)] \in {"returned", "aborted"}
                 /\ \A k \in GraphTasks : k # Inner(f) => call'[k] = call[k]
      BY <1>0, <2>1, <2>2
    <2>3. ASSUME NEW c \in Callers, NEW g \in GraphTasks, ReturnToCaller(c, g)
          PROVE  /\ pc[g] = "left" /\ call[g] = "inline" /\ pc'[g] = "done" /\ call'[g] = "returned"
                 /\ \A k \in Frames : k # g => pc'[k] = pc[k]
                 /\ \A k \in GraphTasks : k # g => call'[k] = call[k]
                 /\ \A u \in Threads : worker_device'[u] = worker_device[u]
                                       \/ (u \in Callers /\ worker_device'[u] = NO_DEVICE)
      BY <1>0, <2>3 DEF ReturnToCaller, DeviceAfter
    <2>4. CASE \E f \in Frames : ReturnToParent(f)
      <3>1. PICK f \in Frames : ReturnToParent(f)
        BY <2>4
      <3>2. PICK h \in GraphTasks : h = Inner(f)
        BY <2>1, <3>1
      <3>3. /\ pc[h] = "left" /\ pc'[h] = "done" /\ call[h] = "inline"
            /\ call'[h] \in {"returned", "aborted"} /\ thread[h] = thread[f]
            /\ pc[f] = "reenter" /\ pc'[f] \in {"run", "throw"} /\ worker_device' = worker_device
            /\ \A k \in Frames : k # f /\ k # h => pc'[k] = pc[k]
            /\ \A k \in GraphTasks : k # h => call'[k] = call[k]
        BY <2>1, <2>2, <3>1, <3>2
      <3> WITNESS h \in GraphTasks
      <3> QED BY <3>3
    <2>5. CASE \E c \in Callers, g \in GraphTasks : ReturnToCaller(c, g)
      BY <2>3, <2>5
    <2> QED BY <2>4, <2>5
  <1>3. \A d \in Devices : Started(d)' <=> Started(d)
    BY <1>2, EngineAssumption DEF Started
  <1>4. OwnQueue'
    BY <1>1, <1>2, <1>3, EngineAssumption DEF WakeInv, OwnQueue
  <1>5. OwnThread'
    <2>1. ASSUME NEW k \in GraphTasks
          PROVE  /\ call'[k] = "idle" <=> call[k] = "idle"
                 /\ pc'[k] \in Running => pc[k] \in Running /\ k # h
                 /\ pc'[k] \in {"handoff", "pooled"} => pc'[k] = pc[k]
      BY <1>2 DEF Running, Working
    <2> QED BY <1>1, <1>2, <1>3, <2>1 DEF WakeInv, OwnThread
  <1>6. TasksNear'
    BY <1>1, SameQueuesNear DEF WakeInv
  <1>7. OneRuns'
    <2> SUFFICES ASSUME NEW f \in Frames, NEW k \in Frames, Runs(f)', Runs(k)', thread[f] = thread[k]
                 PROVE  f = k
      BY <1>1 DEF OneRuns
    <2>1. Runs(h) /\ ~Runs(h)'
      BY <1>2 DEF Runs, Running, Working
    <2>2. ASSUME NEW j \in Frames, Runs(j)'
          PROVE  /\ j # h
                 /\ \/ Runs(j)
                    \/ pc[j] = "reenter" /\ pc'[j] # pc[j] /\ thread[j] = thread[h]
      BY <1>2, <2>1, <2>2 DEF Runs, Running, Working
    <2>3. \A j \in Frames : Runs(j) /\ thread[j] = thread[h] => j = h
      BY <2>1 DEF WakeInv, OneRuns
    <2> QED BY <1>2, <2>2, <2>3 DEF WakeInv, OneRuns
  <1>8. ASSUME NEW g \in GraphTasks,
               future_result'[g] # "none", pc'[g] = "pop", heap'[thread'[g]] = {}
        PROVE  Stirs(g)'
    <2>1. pc[g] = "pop"
      BY <1>2, <1>8
    <2>2. \A k \in Frames : AtWork(k, g) => AtWork(k, g)'
      BY <1>1, <1>2 DEF AtWork
    <2> QED BY <1>1, <1>8, <2>1, <2>2, StillStirs DEF WakeInv
  <1>9. Woken'
    BY <1>8 DEF Woken
  <1> QED BY <1>4, <1>5, <1>6, <1>7, <1>9 DEF WakeInv

(* The pool has nothing to do. *)
LEMMA PoolWakes ==
  ASSUME IInv, CountInv, WakeInv,
         \/ \E p \in PoolThreads : PoolStep(p)
         \/ \E g \in GraphTasks : AddThreadPoolTask(g)
         \/ UNCHANGED vars
  PROVE  WakeInv'
  <1>1. ASSUME NEW g \in GraphTasks, AddThreadPoolTask(g) PROVE FALSE
    BY <1>1 DEF AddThreadPoolTask, WakeInv, OwnThread
  <1>2. ASSUME NEW p \in PoolThreads, WorkerTake(p) PROVE FALSE
    <2>1. graphtasks_queue \in Seq(GraphTasks) /\ graphtasks_queue # <<>>
      BY <1>2 DEF WorkerTake, IInv, TypeOK
    <2>2. 1 \in 1..Len(graphtasks_queue) /\ graphtasks_queue[1] \in GraphTasks
      BY <2>1
    <2>3. pc[graphtasks_queue[1]] = "pooled"
      BY <2>2 DEF CountInv, PooledOnce
    <2> QED BY <2>2, <2>3 DEF WakeInv, OwnThread
  <1>3. ASSUME NEW p \in PoolThreads, NEW g \in GraphTasks, WorkerDone(p, g) PROVE FALSE
    <2>1. pc[g] = "left" /\ call[g] # "inline"
      BY <1>3 DEF WorkerDone
    <2> QED BY <2>1 DEF WakeInv, OwnThread, Running
  <1>4. /\ UNCHANGED <<call, owner, cpu_ready_queue, thread, local_ready_queue, worker_device>>
        /\ UNCHANGED <<pc, cur, heap, future_result>>
    BY <1>1, <1>2, <1>3 DEF PoolStep, WorkerWait, vars
  <1>5. OwnQueue' /\ OwnThread' /\ TasksNear' /\ OneRuns'
    BY <1>4 DEF WakeInv, OwnQueue, OwnThread, TasksNear, OneRuns, Started, Runs
  <1>6. Woken'
    BY <1>4 DEF WakeInv, Woken, Stirs, Left, AtWork
  <1> QED BY <1>5, <1>6 DEF WakeInv

(* The device threads start, and stop. *)
LEMMA LifeWakes ==
  ASSUME IInv, CountInv, WakeInv, StartStep \/ StopStep
  PROVE  WakeInv'
  <1> USE DEF Busy, Evaluating, Completing
  <1>0. /\ pc \in [Frames -> Labels] /\ worker_device \in [Threads -> Devices \cup {CPU, NO_DEVICE}]
        /\ local_ready_queue \in [Threads -> Queues \cup {None}]
        /\ heap \in [Queues -> SUBSET (NodeTasks \cup {ShutdownTask})]
    BY DEF IInv, TypeOK
  <1>1. UNCHANGED <<call, owner, cpu_ready_queue, thread, cur, future_result>>
    BY DEF StartStep, StopStep, StartDeviceThreads, DeviceThreadsStarted, ThreadInit, ThreadExit,
           Stop, StopWait, StopCheck, PushShutdownTask
  <1>2. heap' = heap \/ \E d \in Devices : heap' = [heap EXCEPT ![d] = @ \cup {ShutdownTask}]
    BY DEF StartStep, StopStep, StartDeviceThreads, DeviceThreadsStarted, ThreadInit, ThreadExit,
           Stop, StopWait, StopCheck, PushShutdownTask
  <1>3. \A q \in Queues : heap[q] \subseteq heap'[q] /\ \A t \in heap'[q] : t \in heap[q] \/ t = ShutdownTask
    BY <1>0, <1>2
  <1>4. \A g \in GraphTasks : pc'[g] = pc[g]
    <2>1. \/ pc' = pc
          \/ \E d \in Devices, x \in {"pop", "dead"} : pc' = [pc EXCEPT ![d] = x]
          \/ pc' = [f \in Frames |-> IF f \in Devices THEN "starting" ELSE pc[f]]
      BY DEF StartStep, StopStep, StartDeviceThreads, DeviceThreadsStarted, ThreadInit, ThreadExit,
             Stop, StopWait, StopCheck, PushShutdownTask
    <2> QED BY <1>0, <2>1, EngineAssumption
  <1>5. TasksNear'
    BY <1>1, <1>3 DEF WakeInv, TasksNear
  <1>6. ASSUME \A k \in Frames : pc[k] \in Busy \cup Completing => pc'[k] = pc[k]
        PROVE  Woken'
    <2>1. ASSUME NEW g \in GraphTasks,
                 future_result'[g] # "none", pc'[g] = "pop", heap'[thread'[g]] = {}
          PROVE  Stirs(g)'
      <3>1. thread[g] \in Queues /\ pc[g] = "pop"
        BY <1>4, <2>1, RunsOwnQueue DEF Working
      <3>2. heap[thread[g]] = {}
        BY <1>1, <1>3, <2>1, <3>1
      <3>3. \A k \in Frames : AtWork(k, g) => AtWork(k, g)'
        BY <1>1, <1>6 DEF AtWork
      <3> QED BY <1>1, <1>3, <2>1, <3>1, <3>2, <3>3, StillStirs DEF WakeInv
    <2> QED BY <2>1 DEF Woken
  <1>7. CASE StartDeviceThreads
    <2>1. /\ started = "no" /\ UNCHANGED <<local_ready_queue, worker_device>>
          /\ pc' = [f \in Frames |-> IF f \in Devices THEN "starting" ELSE pc[f]]
      BY <1>7 DEF StartDeviceThreads
    <2>2. \A g \in GraphTasks : call[g] = "idle" /\ pc[g] = "idle" /\ thread[g] = None
      BY <2>1 DEF CountInv, Unstarted, WakeInv, OwnThread
    <2>3. ASSUME NEW k \in Frames, pc[k] \in Busy \cup Completing PROVE FALSE
      BY <2>2, <2>3, HeldTask
    <2>4. \A d \in Devices : pc'[d] = "starting"
      BY <2>1
    <2>5. OwnQueue'
      BY <2>1, <2>4 DEF WakeInv, OwnQueue, Started
    <2>6. OwnThread'
      BY <1>1, <1>4, <2>2, EngineAssumption DEF WakeInv, OwnThread, Running, Working
    <2>7. OneRuns'
      <3>1. \A k \in Frames : ~Runs(k)'
        BY <1>4, <2>2, <2>4 DEF Runs, Running, Working
      <3> QED BY <3>1 DEF OneRuns
    <2> QED BY <1>5, <1>6, <2>3, <2>5, <2>6, <2>7 DEF WakeInv
  <1>8. ASSUME NEW d \in Devices, ThreadInit(d) PROVE WakeInv'
    <2>1. /\ pc[d] = "starting" /\ pc' = [pc EXCEPT ![d] = "pop"]
          /\ worker_device' = [worker_device EXCEPT ![d] = d]
          /\ local_ready_queue' = [local_ready_queue EXCEPT ![d] = d]
      BY <1>8 DEF ThreadInit
    <2>2. pc'[d] = "pop" /\ \A k \in Frames : k # d => pc'[k] = pc[k]
      BY <1>0, <2>1
    <2>3. OwnQueue'
      <3>1. \A t \in Threads : local_ready_queue'[t] \in {None, t}
        BY <1>0, <2>1 DEF WakeInv, OwnQueue
      <3>2. /\ worker_device'[d] = d
            /\ \A t \in Threads : t # d => worker_device'[t] = worker_device[t]
        BY <1>0, <2>1
      <3> QED BY <2>2, <3>1, <3>2, EngineAssumption DEF WakeInv, OwnQueue, Started
    <2>4. OwnThread'
      BY <1>1, <1>4, <2>2 DEF WakeInv, OwnThread, Started
    <2>5. OneRuns'
      <3>1. ASSUME NEW k \in Frames, k # d, Runs(k)' PROVE Runs(k) /\ thread[k] # d
        <4>1. Runs(k)
          BY <2>2, <3>1 DEF Runs
        <4>2. CASE k \in Devices
          <5>1. thread[k] = k
            BY <4>2 DEF IInv, WellFormed, FrameWellFormed
          <5> QED BY <3>1, <4>1, <5>1
        <4>3. CASE k \in GraphTasks
          <5>1. call[k] # "idle"
            BY <4>1, <4>3 DEF Runs, WakeInv, OwnThread
          <5> QED BY <2>1, <4>1, <4>3, <5>1 DEF WakeInv, OwnThread, Started
        <4> QED BY <4>1, <4>2, <4>3
      <3>2. thread[d] = d
        BY DEF IInv, WellFormed, FrameWellFormed
      <3> QED BY <1>1, <3>1, <3>2 DEF WakeInv, OneRuns
    <2> QED BY <1>5, <1>6, <2>1, <2>2, <2>3, <2>4, <2>5 DEF WakeInv
  <1>9. CASE ~StartDeviceThreads /\ ~(\E d \in Devices : ThreadInit(d))
    <2>1. /\ UNCHANGED <<local_ready_queue, worker_device>>
          /\ pc' = pc \/ \E d \in Devices : pc[d] = "exit" /\ pc' = [pc EXCEPT ![d] = "dead"]
      BY <1>9 DEF StartStep, StopStep, DeviceThreadsStarted, ThreadExit,
                  Stop, StopWait, StopCheck, PushShutdownTask
    <2>2. \A k \in Frames : pc'[k] = pc[k] \/ (pc[k] = "exit" /\ pc'[k] = "dead")
      BY <1>0, <2>1
    <2>3. \A k \in Frames : Started(k)' <=> Started(k)
      BY <2>2 DEF Started
    <2>4. OwnQueue'
      BY <2>1, <2>3 DEF WakeInv, OwnQueue
    <2>5. OwnThread'
      BY <1>1, <1>4, <2>3 DEF WakeInv, OwnThread
    <2>6. \A k \in Frames : Runs(k)' => Runs(k)
      BY <2>2 DEF Runs, Running, Working
    <2>7. OneRuns'
      BY <1>1, <2>6 DEF WakeInv, OneRuns
    <2> QED BY <1>5, <1>6, <2>2, <2>4, <2>5, <2>7 DEF WakeInv
  <1> QED BY <1>7, <1>8, <1>9

-----------------------------------------------------------------------------
LEMMA InitWakes == Init => WakeInv
  <1> SUFFICES ASSUME Init PROVE WakeInv
    OBVIOUS
  <1>1. \A g \in GraphTasks : /\ call[g] = "idle" /\ pc[g] = "idle" /\ thread[g] = None
                              /\ future_result[g] = "none"
    BY EngineAssumption DEF Init
  <1>2. /\ \A f \in Frames : pc[f] \in {"idle", "unborn"} /\ cur[f] = None
        /\ \A q \in Queues : heap[q] = {}
        /\ \A t \in Threads : worker_device[t] = NO_DEVICE /\ local_ready_queue[t] = None
        /\ \A d \in Devices : pc[d] = "unborn"
    BY DEF Init
  <1>3. OwnQueue
    BY <1>2 DEF OwnQueue, Started
  <1>4. OwnThread
    BY <1>1 DEF OwnThread, Running, Working, Evaluating, Completing
  <1>5. TasksNear /\ OneRuns
    BY <1>2 DEF TasksNear, OneRuns, Runs, Running, Working, Evaluating, Completing
  <1>6. Woken
    BY <1>1 DEF Woken
  <1> QED BY <1>3, <1>4, <1>5, <1>6 DEF WakeInv

LEMMA NextWakes ==
  IInv /\ CountInv /\ DepthInv /\ WakeInv /\ NoneHanded /\ NoneHanded' /\ [Next]_vars => WakeInv'
  <1> SUFFICES ASSUME IInv, CountInv, DepthInv, WakeInv, NoneHanded, NoneHanded', [Next]_vars
               PROVE  WakeInv'
    OBVIOUS
  <1>1. ASSUME NEW f \in Frames, FrameStep(f) PROVE WakeInv'
    BY <1>1, PopWakes, BeginWakes, EvaluationWakes, PropagateWakes, CheckWakes, NotifyWakes,
       CallWakes, ReturnWakes DEF FrameStep, EvaluateStep, CompleteStep
  <1>2. ASSUME NEW g \in GraphTasks, CallStep(g) PROVE WakeInv'
    BY <1>2, LoopWakes, PoolWakes, ReturnWakes DEF CallStep
  <1> QED BY <1>1, <1>2, CallWakes, PoolWakes, LifeWakes DEF Next, Terminating

(* No wake-up is lost: wherever every pass runs on the thread that called   *)
(* it, a thread that sleeps in ReadyQueue::pop() although the future of the *)
(* graph task it owns is set has a task or a frame on its way that will     *)
(* send it thread_main's dummy task, whatever devices, callers and nested   *)
(* passes there are, and whichever of them fail.                            *)
THEOREM OwnerIsAlwaysWoken == Spec /\ []NoneHanded => []OwnerIsWoken
  <1>1. IInv /\ WakeInv => OwnerIsWoken
    BY WokenMeans
  <1> QED BY <1>1, InitIInv, NextIInv, InitCounts, NextCounts, InitDepth, NextDepth, InitWakes,
             NextWakes, PTL DEF Spec

-----------------------------------------------------------------------------
(* No pass is handed to the pool while there are no more graph tasks than   *)
(* levels of nesting: a level of a thread is a call made there.             *)
Called == {g \in GraphTasks : call[g] # "idle"}
Shallow == NoneHanded /\ \A t \in Threads : current_depth[t] <= Cardinality(Called)

LEMMA CalledFinite ==
  ASSUME IInv
  PROVE  IsFiniteSet(Called) /\ Cardinality(Called) \in Nat
  <1>1. Called \subseteq GraphTasks
    BY DEF Called
  <1> QED BY <1>1, FS_Subset, FS_CardinalityType, EngineAssumption

LEMMA ExecuteShallow ==
  ASSUME IInv, Shallow, Cardinality(GraphTasks) <= MaxDepth,
         NEW t \in Threads, NEW g \in GraphTasks, Execute(t, g)
  PROVE  Shallow'
  <1>0. /\ call \in [GraphTasks -> {"idle", "inline", "handed", "returned", "aborted"}]
        /\ current_depth \in [Threads -> Int] /\ MaxDepth \in Nat
    BY EngineAssumption DEF IInv, TypeOK
  <1>1. call[g] = "idle"
    BY DEF Execute
  <1>2. g \notin Called /\ Called \subseteq GraphTasks
    BY <1>1 DEF Called
  <1>3. /\ IsFiniteSet(Called \cup {g})
        /\ Cardinality(Called \cup {g}) = Cardinality(Called) + 1
        /\ Cardinality(Called) \in Nat
    BY <1>2, CalledFinite, FS_AddElement
  <1>4. Cardinality(Called) + 1 <= MaxDepth
    <2>1. Called \cup {g} \subseteq GraphTasks
      BY <1>2
    <2>2. /\ Cardinality(Called \cup {g}) <= Cardinality(GraphTasks)
          /\ Cardinality(GraphTasks) \in Nat
      BY <2>1, FS_Subset, FS_CardinalityType, EngineAssumption
    <2> QED BY <1>0, <1>3, <2>2
  <1>5. ~UsesPool(t)
    <2>1. current_depth[t] <= Cardinality(Called)
      BY DEF Shallow
    <2> QED BY <1>0, <1>3, <1>4, <2>1 DEF UsesPool
  <1>6. /\ call' = [call EXCEPT ![g] = "inline"]
        /\ current_depth' = [current_depth EXCEPT ![t] = IF Reentrant(t) THEN @ + 1 ELSE @]
    BY <1>5 DEF Execute
  <1>7. Called' = Called \cup {g}
    BY <1>0, <1>6 DEF Called
  <1>8. NoneHanded'
    BY <1>0, <1>6 DEF Shallow, NoneHanded
  <1>9. ASSUME NEW u \in Threads PROVE current_depth'[u] <= Cardinality(Called) + 1
    <2>1. current_depth'[u] = current_depth[u] \/ current_depth'[u] = current_depth[u] + 1
      BY <1>0, <1>6
    <2>2. current_depth[u] <= Cardinality(Called)
      BY DEF Shallow
    <2> QED BY <1>0, <1>3, <2>1, <2>2
  <1> QED BY <1>3, <1>7, <1>8, <1>9 DEF Shallow

(* A call that ends leaves who was called alone, and goes up no level. *)
LEMMA OtherShallow ==
  ASSUME IInv, Shallow,
         \A g \in GraphTasks : call'[g] = call[g] \/ (call[g] # "idle" /\ call'[g] \in {"returned", "aborted"}),
         \A t \in Threads : current_depth'[t] = current_depth[t] \/ current_depth'[t] = current_depth[t] - 1
  PROVE  Shallow'
  <1>1. Called' = Called
    BY DEF Called
  <1>2. NoneHanded'
    BY DEF Shallow, NoneHanded
  <1>3. Cardinality(Called) \in Nat
    BY CalledFinite
  <1>4. ASSUME NEW t \in Threads PROVE current_depth'[t] <= Cardinality(Called)
    <2>1. current_depth[t] \in Int /\ current_depth[t] <= Cardinality(Called)
      BY DEF IInv, TypeOK, Shallow
    <2> QED BY <1>3, <2>1
  <1> QED BY <1>1, <1>2, <1>4 DEF Shallow

LEMMA ReturnShallow ==
  ASSUME IInv, DepthInv, Shallow,
         \/ \E f \in Frames : ReturnToParent(f)
         \/ \E c \in Callers, g \in GraphTasks : ReturnToCaller(c, g)
  PROVE  Shallow'
  <1>0. /\ call \in [GraphTasks -> {"idle", "inline", "handed", "returned", "aborted"}]
        /\ current_depth \in [Threads -> Int]
    BY DEF IInv, TypeOK
  <1>1. ASSUME NEW f \in Frames, ReturnToParent(f) PROVE Shallow'
    <2>1. /\ pc[f] = "reenter"
          /\ \/ current_depth' = current_depth
             \/ current_depth' = [current_depth EXCEPT ![thread[f]] = @ - 1]
          /\ \E x \in {"returned", "aborted"} : call' = [call EXCEPT ![Inner(f)] = x]
      BY <1>1 DEF ReturnToParent
    <2>2. Inner(f) \in GraphTasks /\ call[Inner(f)] # "idle"
      BY <2>1 DEF DepthInv, FramesPlaced
    <2>3. /\ \A g \in GraphTasks : call'[g] = call[g]
                \/ (call[g] # "idle" /\ call'[g] \in {"returned", "aborted"})
          /\ \A t \in Threads : current_depth'[t] = current_depth[t]
                \/ current_depth'[t] = current_depth[t] - 1
      BY <1>0, <2>1, <2>2
    <2> QED BY <2>3, OtherShallow
  <1>2. ASSUME NEW c \in Callers, NEW g \in GraphTasks, ReturnToCaller(c, g) PROVE Shallow'
    <2>1. /\ current_depth' = current_depth /\ call' = [call EXCEPT ![g] = "returned"]
          /\ pc[g] = "left"
      BY <1>2 DEF ReturnToCaller
    <2>2. call[g] # "idle"
      BY <1>2 DEF ReturnToCaller
    <2> QED BY <1>0, <2>1, <2>2, OtherShallow
  <1> QED BY <1>1, <1>2

LEMMA NextShallow ==
  ASSUME IInv, CountInv, DepthInv, Shallow, Cardinality(GraphTasks) <= MaxDepth, [Next]_vars
  PROVE  Shallow'
  <1>1. ASSUME NestingKept PROVE Shallow'
    BY <1>1, OtherShallow DEF NestingKept
  <1>2. ASSUME NEW c \in Callers, NEW g \in GraphTasks, Backward(c, g) PROVE Shallow'
    BY <1>2, ExecuteShallow DEF Backward
  <1>3. ASSUME NEW f \in Frames, FrameStep(f) PROVE Shallow'
    <2>1. CASE Reenter(f)
      <3>1. pc[f] = "run" /\ Inner(f) # None /\ Execute(thread[f], Inner(f))
        BY <2>1 DEF Reenter
      <3>2. thread[f] \in Threads /\ Inner(f) \in GraphTasks
        BY <3>1, FrameFacts, HeldTask, EngineAssumption DEF Working, Evaluating, Inner
      <3> QED BY <3>1, <3>2, ExecuteShallow
    <2> QED BY <1>1, <1>3, <2>1, ReturnShallow, NestingFrameSteps
  <1>4. ASSUME NEW g \in GraphTasks, CallStep(g) PROVE Shallow'
    <2>1. CASE LoopCondition(g) \/ AddThreadPoolTask(g)
      BY <1>1, <2>1, NestingOtherSteps
    <2> QED BY <1>4, <2>1, ReturnShallow DEF CallStep
  <1>5. CASE \/ \E p \in PoolThreads : PoolStep(p)
             \/ StartStep \/ StopStep \/ UNCHANGED vars
    BY <1>1, <1>5, NestingOtherSteps
  <1> QED BY <1>2, <1>3, <1>4, <1>5 DEF Next, Terminating

(* With no more graph tasks than max_recursion_depth_ (60 in the code),     *)
(* every behaviour is one of those: no pass waits for a pool thread, and    *)
(* no owner misses its wake-up.                                             *)
THEOREM ShallowOwnerIsWoken ==
  Cardinality(GraphTasks) <= MaxDepth => (Spec => []OwnerIsWoken)
  <1> SUFFICES ASSUME Cardinality(GraphTasks) <= MaxDepth
               PROVE  Spec => []OwnerIsWoken
    OBVIOUS
  <1>1. Init => Shallow
    <2> SUFFICES ASSUME Init PROVE Shallow
      OBVIOUS
    <2>1. IInv
      BY InitIInv
    <2>2. Cardinality(Called) \in Nat
      BY <2>1, CalledFinite
    <2> QED BY <2>2 DEF Init, Shallow, NoneHanded
  <1>2. IInv /\ CountInv /\ DepthInv /\ Shallow /\ [Next]_vars => Shallow'
    BY NextShallow
  <1>3. Shallow => NoneHanded
    BY DEF Shallow
  <1> QED BY <1>1, <1>2, <1>3, InitIInv, NextIInv, InitCounts, NextCounts, InitDepth, NextDepth,
             OwnerIsAlwaysWoken, PTL DEF Spec

=============================================================================
