------------------------------- MODULE Engine -------------------------------
(***************************************************************************)
(* torch::autograd::Engine: the threads that run backward passes.           *)
(*                                                                          *)
(* A call of Engine::execute makes one graph task, queues its root and      *)
(* drives Engine::thread_main until the graph task's future completes.      *)
(* thread_main pops node tasks from the ready queue of its thread,          *)
(* evaluates them, and queues the nodes whose last input arrived.  Caller   *)
(* threads serve their own CPU queue, every device has one thread and one   *)
(* queue, and a backward() called from inside a node (reentrant) runs on    *)
(* the same thread, or, at max_recursion_depth_, on a thread of a pool.     *)
(*                                                                          *)
(* The unit of control is a FRAME: one activation of thread_main.  A device *)
(* thread's endless activation is named by the device; the activation that  *)
(* drives graph task g is named by g.  thread[f] is the thread a frame runs *)
(* on; a frame whose node called backward() waits at "reenter" below the    *)
(* frame of the inner call.  One atomic operation or one critical section   *)
(* of the code is one step.                                                 *)
(***************************************************************************)
EXTENDS AutogradGraph

CONSTANTS
    Callers,        \* user threads that call backward()
    Devices,        \* accelerator devices; each names its thread and its queue
    PoolThreads,    \* threads the reentrant pool may create
    GraphTasks,     \* the calls of execute(), each made at most once
    CPU, NO_DEVICE, \* CPU_DEVICE and NO_DEVICE, the negative device indices
    NodeDevice,     \* NodeDevice[n]: the device node n runs on, or CPU
    SequenceNr,     \* SequenceNr[n]: n->sequence_nr()
    Root, Outputs, AccumulateGrad, KeepGraph,
                    \* the arguments of each call of execute()
    TopLevel,       \* TopLevel[c]: the graph tasks caller c may execute
    Reenters,       \* Reenters[g][n]: what node n executes when g runs it
    MayThrow,       \* <<g, n>> that may throw; <<g, None>>: a final callback
    Saves,          \* nodes with saved variables
    QueuesCallback, \* <<g, n>> that call queue_callback
    MaxCallbacks,   \* bound on the final callbacks of a graph task
    MaxDepth,       \* max_recursion_depth_
    MultithreadingEnabled, \* AutogradState::get_multithreading_enabled()
    MayStop         \* whether the process may end (Engine::stop) while it runs

Threads == Callers \cup Devices \cup PoolThreads
Queues  == Callers \cup Devices
Frames  == GraphTasks \cup Devices

ASSUME EngineAssumption ==
    /\ IsFiniteSet(GraphTasks) /\ IsFiniteSet(Devices) /\ IsFiniteSet(Nodes)
    /\ IsFiniteSet(PoolThreads)
    /\ Callers \cap Devices = {} /\ Callers \cap PoolThreads = {}
    /\ Devices \cap PoolThreads = {} /\ GraphTasks \cap Devices = {}
    /\ CPU \notin Devices /\ NO_DEVICE \notin Devices /\ CPU # NO_DEVICE
    /\ None \notin Threads /\ None \notin GraphTasks
    /\ NodeDevice \in [Nodes -> Devices \cup {CPU}]
    /\ SequenceNr \in [Nodes -> Nat]
    /\ Root \in [GraphTasks -> Nodes]
    /\ Outputs \in [GraphTasks -> SUBSET Nodes]
    /\ AccumulateGrad \in [GraphTasks -> BOOLEAN]
    /\ KeepGraph \in [GraphTasks -> BOOLEAN]
    /\ TopLevel \in [Callers -> SUBSET GraphTasks]
    /\ Reenters \in [GraphTasks -> [Nodes -> GraphTasks \cup {None}]]
    /\ MayThrow \subseteq GraphTasks \X (Nodes \cup {None})
    /\ QueuesCallback \subseteq GraphTasks \X Nodes
    /\ Saves \subseteq Nodes
    /\ MaxCallbacks \in Nat /\ MaxDepth \in Nat
    /\ MultithreadingEnabled \in BOOLEAN /\ MayStop \in BOOLEAN

(* A graph task stands for one call of execute(), which is made from one    *)
(* place: by one caller, or by one node of one other graph task             *)
ASSUME CallAssumption ==
    /\ \A c \in Callers, g \in GraphTasks, n \in Nodes : Reenters[g][n] \notin TopLevel[c]
    /\ \A ca, cb \in Callers : TopLevel[ca] \cap TopLevel[cb] # {} => ca = cb
    /\ \A ga, gb \in GraphTasks, na, nb \in Nodes :
          Reenters[ga][na] = Reenters[gb][nb] /\ Reenters[ga][na] # None => ga = gb /\ na = nb

VARIABLES
    \* set by execute() and execute_with_graph_task
    call,               \* "idle", "inline", "handed" (to the pool), "returned",
                        \* or "aborted": an assertion failed because of stop()
    owner,              \* owner_: worker_device of the calling thread
    cpu_ready_queue,    \* cpu_ready_queue_
    reentrant_depth,    \* reentrant_depth_
    \* the rest of a GraphTask
    outstanding_tasks, has_error, future_completed,
    future_result,      \* "none", "value" or "error"
    dependencies,       \* dependencies_, 0 for an absent entry
    not_ready,          \* the nodes with a buffer in not_ready_
    inputs,             \* per node, the edges added to its InputBuffer
    mutex,              \* the frame that holds mutex_, or None
    final_callbacks,    \* number of final callbacks installed
    callbacks_run,      \* number of them that ran
    \* what happened to the nodes
    evaluated,          \* nodes whose function returned
    captured,           \* nodes whose gradient is in captured_vars_
    released,           \* nodes whose saved variables are gone
    heap,               \* heap[q]: the NodeTasks of a ReadyQueue
    \* thread_local variables
    worker_device, local_ready_queue, current_depth, total_depth,
    \* frames
    pc, cur,            \* control point, and the NodeTask popped or None
    edge,               \* index of the next edge evaluate_function handles
    thread,             \* the thread the frame runs on, or None
    \* ThreadPoolShared
    num_workers, graphtasks_queue,
    worker,             \* "unborn", "start", "wait" or "drive"
    \* start and stop of the device threads
    started,            \* "no", "starting" or "yes"
    thread_count,       \* non_reentrant_device_thread_count_
    stop_pc, stop_todo

setupVars    == <<call, owner, cpu_ready_queue, reentrant_depth>>
futureVars   == <<future_completed, future_result>>
graphVars    == <<dependencies, not_ready, inputs>>
callbackVars == <<final_callbacks, callbacks_run>>
historyVars  == <<evaluated, captured, released>>
tlsVars      == <<worker_device, local_ready_queue, current_depth, total_depth>>
poolVars     == <<num_workers, graphtasks_queue, worker>>
lifeVars     == <<started, thread_count, stop_pc, stop_todo>>

(* What the threads' work on a graph task changes, and what it does not *)
nodeVars  == <<graphVars, callbackVars, historyVars>>
taskVars  == <<nodeVars, has_error, futureVars, outstanding_tasks, mutex>>
outerVars == <<setupVars, tlsVars, thread, poolVars, lifeVars>>

vars == <<outerVars, taskVars, heap, pc, cur, edge>>

-----------------------------------------------------------------------------
(* Node tasks.  A dummy task has no function; frame `from` sent it. *)
NodeTask(g, n)  == [gt |-> g, fn |-> n, from |-> None]
DummyTask(g, f) == [gt |-> g, fn |-> None, from |-> f]
ShutdownTask    == [gt |-> None, fn |-> None, from |-> None]

NodeTasks == [gt : GraphTasks, fn : Nodes \cup {None}, from : Frames \cup {None}]

ASSUME NullAssumption == None \notin NodeTasks

(* What execute() computed for each graph task before it queued the root *)
GraphOf   == [g \in GraphTasks |-> GraphEdges(Root[g], Outputs[g])]
NodesOf   == [g \in GraphTasks |-> NodesInGraph(Root[g], Outputs[g])]
DepsOf    == [g \in GraphTasks |-> Dependencies(Root[g], Outputs[g])]
NeededOf  == [g \in GraphTasks |-> NeededNodes(Root[g], Outputs[g], AccumulateGrad[g])]
ExecuteOf == [g \in GraphTasks |-> ShouldExecute(Root[g], Outputs[g], AccumulateGrad[g])]
CalledOf  == [g \in GraphTasks |-> NeededOf[g] \cap NodesOf[g]]
CaptureOf == [g \in GraphTasks |-> IF AccumulateGrad[g] THEN {} ELSE Outputs[g]]

(* The edges whose gradients meet at node n, and the nodes they come from *)
InEdgesOf == [g \in GraphTasks |-> [n \in Nodes |->
                 {e \in GraphOf[g] : NextEdges[e[1]][e[2]] = n}]]
InputsOf  == [g \in GraphTasks |-> [n \in Nodes |-> {e[1] : e \in InEdgesOf[g][n]}]]

(* The frame holds a shared_ptr to the graph task of its task: it locked    *)
(* the weak base_ and has not yet finished the loop iteration               *)
Holds(f, g) == cur[f] # None /\ cur[f].gt = g /\ pc[f] # "got"

(* The weak_ptr<GraphTask> of a task can be locked: execute() has not       *)
(* returned, a pool thread drives it, or some frame holds it                *)
Alive(g) ==
    \/ call[g] \in {"inline", "handed"}
    \/ thread[g] \in PoolThreads /\ pc[g] # "done"
    \/ \E f \in Frames : Holds(f, g)

(* ReadyQueue::CompareNodeTaskTime: t1 is popped before t2 *)
Before(t1, t2) ==
    \/ t1 = ShutdownTask /\ t2 # ShutdownTask
    \/ t1.fn = None /\ t2.fn # None
    \/ /\ t1.fn # None /\ t2.fn # None
       /\ \/ reentrant_depth[t1.gt] > reentrant_depth[t2.gt]
          \/ /\ reentrant_depth[t1.gt] = reentrant_depth[t2.gt]
             /\ SequenceNr[t1.fn] > SequenceNr[t2.fn]

(* The depth of a task jumps to INT_MAX when its graph task expires, after  *)
(* the heap was built: until that task is popped the functions of the heap  *)
(* may be out of order (tasks without a function never compare depths)      *)
Top(q, t) ==
    \/ \A u \in heap[q] : ~Before(u, t)
    \/ /\ \A u \in heap[q] : u.fn # None
       /\ \E u \in heap[q] : ~Alive(u.gt)

(* Mutant: the task is not counted *)
PushUncounted(q, t) == heap' = [heap EXCEPT ![q] = @ \cup {t}] /\ UNCHANGED outstanding_tasks

(* ReadyQueue::push with incrementOutstandingTasks *)
Push(q, t) ==
    /\ heap' = [heap EXCEPT ![q] = @ \cup {t}]
    /\ outstanding_tasks' = [outstanding_tasks EXCEPT ![t.gt] = @ + 1]

ready_queue(cpuq, device) ==
    IF ~MultithreadingEnabled \/ device = CPU THEN cpuq ELSE device

(* Mutant: the CPU device has no queue of its own *)
QueueOfDevice(cpuq, device) == device

ready_queue_by_index(cpuq, device) == IF device = CPU THEN cpuq ELSE device

(* The head of thread_main's loop: a device thread has no future to check *)
LoopHead(f) == IF f \in Devices THEN "pop" ELSE "loop"

Goto(f, label) == pc' = [pc EXCEPT ![f] = label]

-----------------------------------------------------------------------------
(* Engine::execute on thread t, up to the point where thread_main starts or *)
(* the graph task goes to the pool: the thread's ready queue is made if it  *)
(* has none, the graph task is built with its dependency counts, and the    *)
(* root is queued.  A thread whose worker_device is set is inside a         *)
(* backward already.                                                        *)
Reentrant(t) == worker_device[t] # NO_DEVICE

UsesPool(t) == Reentrant(t) /\ current_depth[t] >= MaxDepth

Execute(t, g) ==
    LET q == IF local_ready_queue[t] = None THEN t ELSE local_ready_queue[t]
    IN  /\ started = "yes"
        /\ call[g] = "idle"
        /\ local_ready_queue' = [local_ready_queue EXCEPT ![t] = q]
        /\ cpu_ready_queue' = [cpu_ready_queue EXCEPT ![g] = q]
        /\ reentrant_depth' = [reentrant_depth EXCEPT
                ![g] = IF Reentrant(t) THEN total_depth[t] + 1 ELSE 0]
        /\ dependencies' = [dependencies EXCEPT ![g] = DepsOf[g]]
        /\ worker_device' = [worker_device EXCEPT ![t] = IF Reentrant(t) THEN @ ELSE CPU]
        /\ owner' = [owner EXCEPT ![g] = worker_device'[t]]
        /\ Push(ready_queue(q, NodeDevice[Root[g]]), NodeTask(g, Root[g]))
        /\ call' = [call EXCEPT ![g] = IF UsesPool(t) THEN "handed" ELSE "inline"]
        /\ IF UsesPool(t)
             THEN /\ mutex' = [mutex EXCEPT ![g] = g]  \* until the graph task is handed over
                  /\ UNCHANGED <<thread, current_depth, total_depth>>
             ELSE /\ thread' = [thread EXCEPT ![g] = t]
                  /\ current_depth' = [current_depth EXCEPT ![t] = IF Reentrant(t) THEN @ + 1 ELSE @]
                  /\ total_depth' = [total_depth EXCEPT ![t] = IF Reentrant(t) THEN @ + 1 ELSE @]
                  /\ UNCHANGED mutex
        /\ UNCHANGED <<has_error, futureVars, not_ready, inputs, callbackVars,
                       historyVars, cur, edge, poolVars, lifeVars>>

FrameStart(t) == IF UsesPool(t) THEN "handoff" ELSE "loop"

(* A user thread is not inside backward() *)
Outside(c) == \A g \in TopLevel[c] : call[g] \in {"idle", "returned"}

(* A user thread calls backward(); its earlier calls have returned, and it  *)
(* is not the one that ends the process                                     *)
Backward(c, g) ==
    /\ g \in TopLevel[c]
    /\ Outside(c)
    /\ stop_pc # "running" => \E c2 \in Callers \ {c} : Outside(c2)
    /\ Execute(c, g)
    /\ pc' = [pc EXCEPT ![g] = FrameStart(c)]

(* The function of the node a frame evaluates calls backward() *)
Inner(f) == Reenters[cur[f].gt][cur[f].fn]

Reenter(f) ==
    /\ pc[f] = "run"
    /\ Inner(f) # None
    /\ Execute(thread[f], Inner(f))
    /\ pc' = [pc EXCEPT ![f] = "reenter", ![Inner(f)] = FrameStart(thread[f])]

(* Mutant: worker_device is not reset *)
KeepsDevice(c) == worker_device[c]

DeviceAfter(c) == NO_DEVICE

(* execute_with_graph_task after thread_main, at top level: worker_device   *)
(* is reset and the call returns the future's value or rethrows its error   *)
ReturnToCaller(c, g) ==
    /\ g \in TopLevel[c] /\ call[g] = "inline" /\ thread[g] = c /\ pc[g] = "left"
    /\ worker_device' = [worker_device EXCEPT ![c] = DeviceAfter(c)]
    /\ call' = [call EXCEPT ![g] = "returned"]
    /\ Goto(g, "done")
    /\ UNCHANGED <<taskVars, owner, cpu_ready_queue, reentrant_depth, heap, local_ready_queue,
                   current_depth, total_depth, cur, edge, thread, poolVars, lifeVars>>

(* Mutant: the loop ends when the future is claimed, not when it is set *)
FutureClaimed(g) == future_completed[g]

FutureDone(g) == future_result[g] # "none"

(* Mutant: an inner pass that failed is taken for one that ended *)
GoesOnAnyway(h) == future_result[h] # "none"

GoesOn(h) == future_result[h] = "value"

(* The inner call returns to the node's function, which goes on with its    *)
(* value or throws its error.  An inline inner frame that left thread_main  *)
(* without a completed future (a shutdown task) fails the assertion there.  *)
ReturnToParent(f) ==
    /\ pc[f] = "reenter"
    /\ LET h == Inner(f)
           t == thread[f]
           next == IF GoesOn(h) THEN "run" ELSE "throw"
       IN  /\ \/ /\ call[h] = "inline" /\ pc[h] = "left"
                 /\ current_depth' = [current_depth EXCEPT ![t] = @ - 1]
                 /\ total_depth' = [total_depth EXCEPT ![t] = @ - 1]
                 /\ pc' = [pc EXCEPT ![f] = next, ![h] = "done"]
              \/ /\ call[h] = "handed" /\ pc[h] # "handoff" /\ future_result[h] # "none"
                 /\ Goto(f, next)
                 /\ UNCHANGED <<current_depth, total_depth>>
           /\ call' = [call EXCEPT ![h] = IF FutureDone(h) THEN "returned" ELSE "aborted"]
    /\ UNCHANGED <<taskVars, owner, cpu_ready_queue, reentrant_depth, heap, worker_device,
                   local_ready_queue, cur, edge, thread, poolVars, lifeVars>>

-----------------------------------------------------------------------------
(* thread_main, from the loop condition to the popped task *)
LoopCondition(f) ==
    /\ pc[f] = "loop"
    /\ Goto(f, IF FutureDone(f) THEN "left" ELSE "pop")
    /\ UNCHANGED <<taskVars, outerVars, heap, cur, edge>>

(* ReadyQueue::pop, blocking while the heap is empty *)
Pop(f) ==
    /\ pc[f] = "pop"
    /\ LET q == local_ready_queue[thread[f]]
       IN  \E t \in heap[q] :
             /\ Top(q, t)
             /\ heap' = [heap EXCEPT ![q] = @ \ {t}]
             /\ IF t = ShutdownTask
                  THEN /\ Goto(f, IF f \in Devices THEN "exit" ELSE "left")
                       /\ UNCHANGED cur
                  ELSE /\ cur' = [cur EXCEPT ![f] = t]
                       /\ Goto(f, "got")
    /\ UNCHANGED <<taskVars, outerVars, edge>>

(* base_.lock(), the has_error_ test, and the start of evaluate_function:   *)
(* a captured gradient is stored, and a node that is only captured is not   *)
(* called.                                                                  *)
IsCalled(g, n) == n # None /\ ~has_error[g] /\ n \in NeededOf[g]

IsCaptured(g, n) == n # None /\ ~has_error[g] /\ n \in CaptureOf[g]

Begin(f) ==
    /\ pc[f] = "got"
    /\ LET g == cur[f].gt
           n == cur[f].fn
       IN  IF ~Alive(g)
             THEN /\ cur' = [cur EXCEPT ![f] = None]
                  /\ Goto(f, LoopHead(f))
                  /\ UNCHANGED captured
             ELSE /\ IsCaptured(g, n) => mutex[g] = None
                  /\ captured' = [captured EXCEPT
                         ![g] = IF IsCaptured(g, n) THEN @ \cup {n} ELSE @]
                  /\ Goto(f, IF IsCalled(g, n) THEN "run" ELSE "dec")
                  /\ UNCHANGED cur
    /\ UNCHANGED <<outerVars, outstanding_tasks, has_error, futureVars, graphVars, mutex,
                   callbackVars, evaluated, released, heap, edge>>

-----------------------------------------------------------------------------
(* evaluate_function: the node's function returns.  It may have queued a    *)
(* final callback; its saved variables are released unless the graph is     *)
(* kept.  A node without next edges has nothing to propagate.               *)
CallFunction(f) ==
    /\ pc[f] = "run"
    /\ Inner(f) # None => call[Inner(f)] = "returned"
    /\ LET g == cur[f].gt
           n == cur[f].fn
       IN  /\ n \notin Saves \cap released
           /\ evaluated' = [evaluated EXCEPT ![g] = @ \cup {n}]
           /\ released' = IF KeepGraph[g] THEN released ELSE released \cup {n}
           /\ final_callbacks' = [final_callbacks EXCEPT
                  ![g] = IF <<g, n>> \in QueuesCallback THEN @ + 1 ELSE @]
           /\ edge' = [edge EXCEPT ![f] = 1]
           /\ Goto(f, IF Len(NextEdges[n]) = 0 THEN "dec" ELSE "edges")
    /\ UNCHANGED <<outerVars, outstanding_tasks, has_error, futureVars, graphVars, mutex,
                   callbacks_run, captured, heap, cur>>

(* The function throws: an error of its own, or saved variables that an     *)
(* earlier pass over the graph released                                     *)
Throw(f) ==
    /\ pc[f] = "run"
    /\ \/ <<cur[f].gt, cur[f].fn>> \in MayThrow
       \/ cur[f].fn \in Saves \cap released
    /\ Goto(f, "throw")
    /\ UNCHANGED <<taskVars, outerVars, heap, cur, edge>>

(* Mutant: the first gradient makes the node ready *)
IsReadyEarly(g, n) == dependencies[g][n] >= 1

IsReady(g, n) == dependencies[g][n] = 1

SkipNode(g, n) == n \notin not_ready[g] /\ Outputs[g] # {} /\ n \notin ExecuteOf[g]

(* One iteration of the loop over the outputs, under the graph task's       *)
(* mutex_: the next node's count goes down, the gradient goes into its      *)
(* buffer, and at zero the node is queued on its device.  An edge to a node *)
(* that is not to be executed only counts.                                  *)
PropagateTo(g, e, n) ==
    /\ dependencies' = [dependencies EXCEPT ![g][n] = @ - 1]
    /\ IF SkipNode(g, n)
         THEN UNCHANGED <<not_ready, inputs, heap, outstanding_tasks>>
         ELSE /\ inputs' = [inputs EXCEPT ![g][n] = @ \cup {e}]
              /\ IF IsReady(g, n)
                   THEN /\ not_ready' = [not_ready EXCEPT ![g] = @ \ {n}]
                        /\ Push(ready_queue(cpu_ready_queue[g], NodeDevice[n]), NodeTask(g, n))
                   ELSE /\ not_ready' = [not_ready EXCEPT ![g] = @ \cup {n}]
                        /\ UNCHANGED <<heap, outstanding_tasks>>

PropagateEdge(f) ==
    /\ pc[f] = "edges"
    /\ LET g == cur[f].gt
           m == cur[f].fn
           i == edge[f]
           n == NextEdges[m][i]
           last == i = Len(NextEdges[m])
       IN  /\ mutex[g] \in {None, f}
           /\ IF n # None /\ dependencies[g][n] = 0
                THEN /\ mutex' = [mutex EXCEPT ![g] = None]  \* dependency not found
                     /\ Goto(f, "throw")
                     /\ UNCHANGED <<edge, graphVars, heap, outstanding_tasks>>
                ELSE /\ mutex' = [mutex EXCEPT ![g] = IF last THEN None ELSE f]
                     /\ Goto(f, IF last THEN "dec" ELSE "edges")
                     /\ edge' = [edge EXCEPT ![f] = i + 1]
                     /\ IF n = None
                          THEN UNCHANGED <<graphVars, heap, outstanding_tasks>>
                          ELSE PropagateTo(g, <<m, i>>, n)
    /\ UNCHANGED <<outerVars, has_error, futureVars, callbackVars, historyVars, cur>>

-----------------------------------------------------------------------------
(* thread_on_exception: has_error_, then future_completed_, then setError *)
SetHasError(f) ==
    /\ pc[f] = "throw"
    /\ has_error' = [has_error EXCEPT ![cur[f].gt] = TRUE]
    /\ Goto(f, "exception")
    /\ UNCHANGED <<nodeVars, outerVars, outstanding_tasks, futureVars, mutex, heap, cur, edge>>

(* Mutant: the earlier value of future_completed_ is not looked at *)
ClaimAlways(f, first, second) ==
    /\ future_completed' = [future_completed EXCEPT ![cur[f].gt] = TRUE]
    /\ Goto(f, first)

(* future_completed_.exchange(true) *)
ClaimFuture(f, first, second) ==
    /\ future_completed' = [future_completed EXCEPT ![cur[f].gt] = TRUE]
    /\ Goto(f, IF future_completed[cur[f].gt] THEN second ELSE first)

SetException(f) ==
    /\ pc[f] = "exception"
    /\ ClaimFuture(f, "seterror", "dec")
    /\ UNCHANGED <<nodeVars, outerVars, outstanding_tasks, has_error, future_result, mutex,
                   heap, cur, edge>>

SetError(f) ==
    /\ pc[f] = "seterror"
    /\ future_result' = [future_result EXCEPT ![cur[f].gt] = "error"]
    /\ Goto(f, "dec")
    /\ UNCHANGED <<nodeVars, outerVars, outstanding_tasks, has_error, future_completed, mutex,
                   heap, cur, edge>>

-----------------------------------------------------------------------------
(* The end of a loop iteration of thread_main *)
DecrementOutstanding(f) ==
    /\ pc[f] = "dec"
    /\ outstanding_tasks' = [outstanding_tasks EXCEPT ![cur[f].gt] = @ - 1]
    /\ Goto(f, "check")
    /\ UNCHANGED <<nodeVars, outerVars, has_error, futureVars, mutex, heap, cur, edge>>

(* Mutant: off by one *)
CompletedEarly(g) == outstanding_tasks[g] <= 1

(* GraphTask::completed() *)
Completed(g) == outstanding_tasks[g] = 0

CheckCompleted(f) ==
    /\ pc[f] = "check"
    /\ IF Completed(cur[f].gt)
         THEN Goto(f, "mark") /\ UNCHANGED cur
         ELSE Goto(f, LoopHead(f)) /\ cur' = [cur EXCEPT ![f] = None]
    /\ UNCHANGED <<taskVars, outerVars, heap, edge>>

(* mark_as_completed_and_run_post_processing: one thread claims the future; *)
(* the others wait for it                                                   *)
MarkAsCompleted(f) ==
    /\ pc[f] = "mark"
    /\ ClaimFuture(f, "post", "await")
    /\ UNCHANGED <<nodeVars, outerVars, outstanding_tasks, has_error, future_result, mutex,
                   heap, cur, edge>>

AwaitFuture(f) ==
    /\ pc[f] = "await"
    /\ future_result[cur[f].gt] # "none"
    /\ Goto(f, "wake")
    /\ UNCHANGED <<taskVars, outerVars, heap, cur, edge>>

(* exec_post_processing under mutex_: the final callbacks run one by one,   *)
(* by index, and may install further ones; then the future gets its value.  *)
(* Buffers left in not_ready_, or a callback that throws, make it an error. *)
MoreCallbacks(g) == callbacks_run[g] < final_callbacks[g]

RunFinalCallback(f) ==
    /\ pc[f] = "post"
    /\ LET g == cur[f].gt
       IN  /\ mutex[g] \in {None, f}
           /\ not_ready[g] = {} /\ MoreCallbacks(g)
           /\ mutex' = [mutex EXCEPT ![g] = f]
           /\ callbacks_run' = [callbacks_run EXCEPT ![g] = @ + 1]
           /\ \E k \in {0, 1} :
                 /\ k = 1 => final_callbacks[g] < MaxCallbacks
                 /\ final_callbacks' = [final_callbacks EXCEPT ![g] = @ + k]
    /\ UNCHANGED <<outerVars, outstanding_tasks, has_error, futureVars, graphVars, historyVars,
                   heap, pc, cur, edge>>

PostProcessingFails(g) ==
    \/ not_ready[g] # {}
    \/ MoreCallbacks(g) /\ <<g, None>> \in MayThrow

FinishFuture(f, result) ==
    /\ mutex[cur[f].gt] \in {None, f}
    /\ mutex' = [mutex EXCEPT ![cur[f].gt] = None]
    /\ future_result' = [future_result EXCEPT ![cur[f].gt] = result]
    /\ Goto(f, "wake")
    /\ UNCHANGED <<nodeVars, outerVars, outstanding_tasks, has_error, future_completed, heap,
                   cur, edge>>

ExecPostProcessing(f) ==
    /\ pc[f] = "post"
    /\ \/ /\ not_ready[cur[f].gt] = {} /\ ~MoreCallbacks(cur[f].gt)
          /\ FinishFuture(f, "value")
       \/ /\ PostProcessingFails(cur[f].gt)
          /\ FinishFuture(f, "error")

(* Mutant: the owner is left asleep *)
WakesNobody(f, g) == FALSE

(* A frame of another device wakes the owner, which may sleep in pop() *)
WakesOwner(f, g) == worker_device[thread[f]] # owner[g]

NotifyOwner(f) ==
    /\ pc[f] = "wake"
    /\ LET g == cur[f].gt
       IN  IF WakesOwner(f, g)
             THEN Push(ready_queue_by_index(cpu_ready_queue[g], owner[g]), DummyTask(g, f))
             ELSE UNCHANGED <<heap, outstanding_tasks>>
    /\ cur' = [cur EXCEPT ![f] = None]
    /\ Goto(f, LoopHead(f))
    /\ UNCHANGED <<nodeVars, outerVars, has_error, futureVars, mutex, edge>>

-----------------------------------------------------------------------------
(* Mutant: the task about to be queued is not counted *)
CreatesThreadLate == num_workers < Len(graphtasks_queue)

(* The reentrant thread pool.  add_thread_pool_task creates a thread when   *)
(* the waiting workers are all spoken for.                                  *)
CreatesThread == num_workers <= Len(graphtasks_queue)

AddThreadPoolTask(g) ==
    /\ pc[g] = "handoff"
    /\ graphtasks_queue' = Append(graphtasks_queue, g)
    /\ IF CreatesThread
         THEN /\ \E p \in PoolThreads : worker[p] = "unborn"
              /\ LET p == CHOOSE p \in PoolThreads : worker[p] = "unborn"
                 IN  worker' = [worker EXCEPT ![p] = "start"]
         ELSE UNCHANGED worker
    /\ Goto(g, "pooled")
    /\ mutex' = [mutex EXCEPT ![g] = None]
    /\ UNCHANGED <<nodeVars, has_error, futureVars, outstanding_tasks, setupVars, heap, tlsVars, cur, edge, thread, num_workers,
                   lifeVars>>

(* reentrant_thread_init: the head of the loop *)
WorkerWait(p) ==
    /\ worker[p] = "start"
    /\ num_workers' = num_workers + 1
    /\ worker' = [worker EXCEPT ![p] = "wait"]
    /\ UNCHANGED <<taskVars, setupVars, heap, tlsVars, pc, cur, edge, thread, graphtasks_queue,
                   lifeVars>>

(* A worker takes the oldest graph task and drives it in its owner's place: *)
(* same device, same ready queue.  An expired one is dropped.               *)
WorkerTake(p) ==
    /\ worker[p] = "wait" /\ graphtasks_queue # <<>>
    /\ num_workers' = num_workers - 1
    /\ graphtasks_queue' = Tail(graphtasks_queue)
    /\ LET g == Head(graphtasks_queue)
       IN  IF Alive(g)
             THEN /\ worker' = [worker EXCEPT ![p] = "drive"]
                  /\ worker_device' = [worker_device EXCEPT ![p] = owner[g]]
                  /\ local_ready_queue' = [local_ready_queue EXCEPT
                         ![p] = ready_queue_by_index(cpu_ready_queue[g], owner[g])]
                  /\ total_depth' = [total_depth EXCEPT ![p] = reentrant_depth[g]]
                  /\ thread' = [thread EXCEPT ![g] = p]
                  /\ Goto(g, "loop")
             ELSE /\ worker' = [worker EXCEPT ![p] = "start"]
                  /\ Goto(g, "done")
                  /\ UNCHANGED <<worker_device, local_ready_queue, total_depth, thread>>
    /\ UNCHANGED <<taskVars, setupVars, heap, current_depth, cur, edge, lifeVars>>

(* thread_main returned: the worker lets go of the graph task *)
WorkerDone(p, g) ==
    /\ worker[p] = "drive" /\ thread[g] = p /\ pc[g] = "left" /\ call[g] # "inline"
    /\ worker' = [worker EXCEPT ![p] = "start"]
    /\ Goto(g, "done")
    /\ UNCHANGED <<taskVars, setupVars, heap, tlsVars, cur, edge, thread, num_workers,
                   graphtasks_queue, lifeVars>>

-----------------------------------------------------------------------------
(* initialize_device_threads_pool: the first execute() starts one thread    *)
(* per device and waits until every one of them counted itself              *)
otherThanLife == <<setupVars, taskVars, cur, edge, thread, poolVars>>

StartDeviceThreads ==
    /\ started = "no"
    /\ started' = "starting"
    /\ pc' = [f \in Frames |-> IF f \in Devices THEN "starting" ELSE pc[f]]
    /\ UNCHANGED <<otherThanLife, heap, tlsVars, thread_count, stop_pc, stop_todo>>

(* thread_init up to thread_main *)
ThreadInit(d) ==
    /\ pc[d] = "starting"
    /\ thread_count' = thread_count + 1
    /\ worker_device' = [worker_device EXCEPT ![d] = d]
    /\ local_ready_queue' = [local_ready_queue EXCEPT ![d] = d]
    /\ Goto(d, "pop")
    /\ UNCHANGED <<otherThanLife, heap, current_depth, total_depth, started, stop_pc,
                   stop_todo>>

DeviceThreadsStarted ==
    /\ started = "starting" /\ thread_count = Cardinality(Devices)
    /\ started' = "yes"
    /\ UNCHANGED <<otherThanLife, heap, tlsVars, pc, thread_count, stop_pc, stop_todo>>

(* thread_init after thread_main: a shutdown task ended the device thread *)
ThreadExit(d) ==
    /\ pc[d] = "exit"
    /\ thread_count' = thread_count - 1
    /\ Goto(d, "dead")
    /\ UNCHANGED <<otherThanLife, heap, tlsVars, started, stop_pc, stop_todo>>

(* Engine::stop: if every device queue is found empty, one after the other, *)
(* each gets a shutdown task, and the device threads are awaited, up to a   *)
(* deadline; otherwise the threads are leaked.  The destructor of the       *)
(* static Engine calls it: some user thread, outside backward(), exits.     *)
Stop ==
    /\ MayStop /\ stop_pc = "running" /\ started = "yes"
    /\ \E c \in Callers : Outside(c)
    /\ stop_pc' = (IF Devices = {} THEN "waiting" ELSE "checking")
    /\ stop_todo' = Devices
    /\ UNCHANGED <<otherThanLife, heap, tlsVars, pc, started, thread_count>>

StopCheck(d) ==
    /\ stop_pc = "checking" /\ d \in stop_todo
    /\ IF heap[d] # {} THEN stop_pc' = "leaked" /\ stop_todo' = {}
       ELSE IF stop_todo = {d} THEN stop_pc' = "pushing" /\ stop_todo' = Devices
       ELSE stop_pc' = "checking" /\ stop_todo' = stop_todo \ {d}
    /\ UNCHANGED <<otherThanLife, heap, tlsVars, pc, started, thread_count>>

(* Mutant: only one queue is told *)
PushShutdownTaskOnce(d) ==
    /\ stop_pc = "pushing" /\ d \in stop_todo
    /\ heap' = [heap EXCEPT ![d] = @ \cup {ShutdownTask}]
    /\ stop_todo' = {} /\ stop_pc' = "waiting"
    /\ UNCHANGED <<otherThanLife, tlsVars, pc, started, thread_count>>

PushShutdownTask(d) ==
    /\ stop_pc = "pushing" /\ d \in stop_todo
    /\ heap' = [heap EXCEPT ![d] = @ \cup {ShutdownTask}]
    /\ stop_todo' = stop_todo \ {d}
    /\ stop_pc' = IF stop_todo = {d} THEN "waiting" ELSE "pushing"
    /\ UNCHANGED <<otherThanLife, tlsVars, pc, started, thread_count>>

StopWait ==
    /\ stop_pc = "waiting"
    /\ stop_pc' = IF thread_count = 0 THEN "stopped" ELSE "timeout"
    /\ UNCHANGED <<otherThanLife, heap, tlsVars, pc, started, thread_count, stop_todo>>

-----------------------------------------------------------------------------
Init ==
    /\ call = [g \in GraphTasks |-> "idle"]
    /\ owner = [g \in GraphTasks |-> NO_DEVICE]
    /\ cpu_ready_queue = [g \in GraphTasks |-> None]
    /\ reentrant_depth = [g \in GraphTasks |-> 0]
    /\ outstanding_tasks = [g \in GraphTasks |-> 0]
    /\ has_error = [g \in GraphTasks |-> FALSE]
    /\ future_completed = [g \in GraphTasks |-> FALSE]
    /\ future_result = [g \in GraphTasks |-> "none"]
    /\ dependencies = [g \in GraphTasks |-> [n \in Nodes |-> 0]]
    /\ not_ready = [g \in GraphTasks |-> {}]
    /\ inputs = [g \in GraphTasks |-> [n \in Nodes |-> {}]]
    /\ mutex = [g \in GraphTasks |-> None]
    /\ final_callbacks = [g \in GraphTasks |-> 0]
    /\ callbacks_run = [g \in GraphTasks |-> 0]
    /\ evaluated = [g \in GraphTasks |-> {}]
    /\ captured = [g \in GraphTasks |-> {}]
    /\ released = {}
    /\ heap = [q \in Queues |-> {}]
    /\ worker_device = [t \in Threads |-> NO_DEVICE]
    /\ local_ready_queue = [t \in Threads |-> None]
    /\ current_depth = [t \in Threads |-> 0]
    /\ total_depth = [t \in Threads |-> 0]
    /\ pc = [f \in Frames |-> IF f \in Devices THEN "unborn" ELSE "idle"]
    /\ cur = [f \in Frames |-> None]
    /\ edge = [f \in Frames |-> 1]
    /\ thread = [f \in Frames |-> IF f \in Devices THEN f ELSE None]
    /\ num_workers = 0
    /\ graphtasks_queue = <<>>
    /\ worker = [p \in PoolThreads |-> "unborn"]
    /\ started = "no"
    /\ thread_count = 0
    /\ stop_pc = "running"
    /\ stop_todo = {}

(* What a thread does inside thread_main *)
EvaluateStep(f) ==
    \/ Begin(f) \/ Reenter(f) \/ ReturnToParent(f) \/ CallFunction(f) \/ Throw(f)
    \/ PropagateEdge(f) \/ SetHasError(f) \/ SetException(f) \/ SetError(f)

CompleteStep(f) ==
    \/ DecrementOutstanding(f) \/ CheckCompleted(f) \/ MarkAsCompleted(f)
    \/ AwaitFuture(f) \/ RunFinalCallback(f) \/ ExecPostProcessing(f) \/ NotifyOwner(f)

FrameStep(f) == Pop(f) \/ EvaluateStep(f) \/ CompleteStep(f)

CallStep(g) ==
    \/ LoopCondition(g) \/ AddThreadPoolTask(g)
    \/ \E c \in Callers : ReturnToCaller(c, g)

PoolStep(p) ==
    WorkerWait(p) \/ WorkerTake(p) \/ \E g \in GraphTasks : WorkerDone(p, g)

StartStep ==
    StartDeviceThreads \/ DeviceThreadsStarted
    \/ \E d \in Devices : ThreadInit(d) \/ ThreadExit(d)

StopStep ==
    Stop \/ StopWait \/ \E d \in Devices : StopCheck(d) \/ PushShutdownTask(d)

(* Every call returned and every thread sleeps: the program may end here *)
Quiet ==
    /\ \A c \in Callers : \A g \in TopLevel[c] : call[g] = "returned"
    /\ \A f \in Frames : pc[f] \in {"idle", "pop", "done", "dead"}
    /\ \A p \in PoolThreads : worker[p] \in {"unborn", "wait"}

Terminating == Quiet /\ UNCHANGED vars

Next ==
    \/ \E c \in Callers, g \in GraphTasks : Backward(c, g)
    \/ \E f \in Frames : FrameStep(f)
    \/ \E g \in GraphTasks : CallStep(g)
    \/ \E p \in PoolThreads : PoolStep(p)
    \/ StartStep
    \/ StopStep
    \/ Terminating

Spec == Init /\ [][Next]_vars

(* Every thread is scheduled and every node's function returns or throws.   *)
(* Whether a user thread makes a call, and whether the process ends, is     *)
(* left open.                                                               *)
Fairness ==
    /\ \A f \in Frames : WF_vars(FrameStep(f))
    /\ \A g \in GraphTasks : WF_vars(CallStep(g))
    /\ \A p \in PoolThreads : WF_vars(PoolStep(p))
    /\ WF_vars(DeviceThreadsStarted)
    /\ \A d \in Devices : WF_vars(ThreadInit(d)) /\ WF_vars(ThreadExit(d))
    /\ \A d \in Devices : WF_vars(StopCheck(d)) /\ WF_vars(PushShutdownTask(d))

FairSpec == Spec /\ Fairness
-----------------------------------------------------------------------------
(* Control points of a frame while it works on the task it popped *)
Evaluating == {"run", "reenter", "edges", "throw", "exception", "seterror"}
Completing == {"check", "mark", "await", "post", "wake"}

Labels == {"idle", "handoff", "pooled", "loop", "pop", "got", "dec", "left", "done", "unborn",
           "starting", "exit", "dead"} \cup Evaluating \cup Completing

(* Every variable keeps to the values its C++ counterpart can hold. *)
TypeOK ==
    /\ call \in [GraphTasks -> {"idle", "inline", "handed", "returned", "aborted"}]
    /\ owner \in [GraphTasks -> Devices \cup {CPU, NO_DEVICE}]
    /\ cpu_ready_queue \in [GraphTasks -> Queues \cup {None}]
    /\ reentrant_depth \in [GraphTasks -> Int]
    /\ outstanding_tasks \in [GraphTasks -> Int]
    /\ has_error \in [GraphTasks -> BOOLEAN]
    /\ future_completed \in [GraphTasks -> BOOLEAN]
    /\ future_result \in [GraphTasks -> {"none", "value", "error"}]
    /\ dependencies \in [GraphTasks -> [Nodes -> Nat]]
    /\ not_ready \in [GraphTasks -> SUBSET Nodes]
    /\ inputs \in [GraphTasks -> [Nodes -> SUBSET Edges]]
    /\ mutex \in [GraphTasks -> Frames \cup {None}]
    /\ final_callbacks \in [GraphTasks -> Nat]
    /\ callbacks_run \in [GraphTasks -> Nat]
    /\ evaluated \in [GraphTasks -> SUBSET Nodes]
    /\ captured \in [GraphTasks -> SUBSET Nodes]
    /\ released \subseteq Nodes
    /\ heap \in [Queues -> SUBSET (NodeTasks \cup {ShutdownTask})]
    /\ worker_device \in [Threads -> Devices \cup {CPU, NO_DEVICE}]
    /\ local_ready_queue \in [Threads -> Queues \cup {None}]
    /\ current_depth \in [Threads -> Int]
    /\ total_depth \in [Threads -> Int]
    /\ pc \in [Frames -> Labels]
    /\ cur \in [Frames -> NodeTasks \cup {None}]
    /\ edge \in [Frames -> Nat]
    /\ thread \in [Frames -> Threads \cup {None}]
    /\ num_workers \in Int
    /\ graphtasks_queue \in Seq(GraphTasks)
    /\ worker \in [PoolThreads -> {"unborn", "start", "wait", "drive"}]
    /\ started \in {"no", "starting", "yes"}
    /\ thread_count \in Int
    /\ stop_pc \in {"running", "checking", "pushing", "waiting", "stopped", "timeout", "leaked"}
    /\ stop_todo \subseteq Devices

(* A frame that runs always has what the code dereferences: its thread has  *)
(* a ready queue, its task a function and a graph task that execute() has   *)
(* set up (owner, CPU queue), and its edge index is in range.               *)
Working == {"loop", "pop", "got", "dec"} \cup Evaluating \cup Completing

CallWellFormed(g) ==
    call[g] # "idle" => cpu_ready_queue[g] \in Queues /\ owner[g] # NO_DEVICE

FrameWellFormed(f) ==
    /\ cur[f] # None => call[cur[f].gt] # "idle"
    /\ pc[f] \in Evaluating \cup Completing \cup {"got", "dec"} => cur[f] # None
    /\ pc[f] \in Evaluating => cur[f].fn \in Nodes
    /\ pc[f] = "edges" => edge[f] \in 1..Len(NextEdges[cur[f].fn])
    /\ pc[f] \in Working => /\ thread[f] \in Threads
                            /\ local_ready_queue[thread[f]] \in Queues
    /\ pc[f] \in {"handoff", "pooled"} => f \in GraphTasks /\ call[f] # "idle"
    /\ f \in Devices => thread[f] = f

WellFormed ==
    /\ \A g \in GraphTasks : CallWellFormed(g)
    /\ \A f \in Frames : FrameWellFormed(f)
    /\ \A q \in Queues : \A t \in heap[q] : t # ShutdownTask => call[t.gt] # "idle"
    /\ \A i \in 1..Len(graphtasks_queue) : call[graphtasks_queue[i]] # "idle"

(* future_completed_.exchange hands the future of a graph task to one frame *)
(* only: as long as nobody has it the future is unset, and while a frame    *)
(* has it, on the error path or in the post-processing, no other frame has  *)
(* it and the future is still unset.                                        *)
Owns(f, g) == cur[f] # None /\ cur[f].gt = g /\ pc[f] \in {"seterror", "post"}

FutureHasOneWriter ==
    \A g \in GraphTasks :
        /\ ~future_completed[g] => /\ future_result[g] = "none"
                                   /\ \A f \in Frames : ~Owns(f, g)
        /\ \A f \in Frames : Owns(f, g) => future_result[g] = "none"
        /\ \A f1, f2 \in Frames : Owns(f1, g) /\ Owns(f2, g) => f1 = f2

(* The tasks of g that are queued, or popped and not yet counted down *)
Queued(g) == {t \in NodeTasks : t.gt = g /\ \E q \in Queues : t \in heap[q]}
Uncounted(g) == {f \in Frames : /\ cur[f] # None /\ cur[f].gt = g
                                 /\ pc[f] \in Evaluating \cup {"got", "dec"}}

(* outstanding_tasks_ counts exactly the tasks of the graph task that are   *)
(* queued or being evaluated, as long as anyone can still look at it: it    *)
(* reaches 0 at the end of the last task and never before.                  *)
OutstandingIsExact ==
    \A g \in GraphTasks : Alive(g) =>
        outstanding_tasks[g] = Cardinality(Queued(g)) + Cardinality(Uncounted(g))

(* evaluate_function's bookkeeping: when a node is queued or evaluated, the *)
(* gradients of all its incoming edges are in its buffer, it is no longer   *)
(* waiting in not_ready_, and it was not evaluated before in this pass.     *)
EveryInputArrived ==
    \A g \in GraphTasks, n \in Nodes :
        (\/ NodeTask(g, n) \in Queued(g)
         \/ \E f \in Frames : cur[f] = NodeTask(g, n) /\ pc[f] \in {"got", "run", "reenter"})
        => /\ inputs[g][n] = InEdgesOf[g][n]
           /\ n \notin not_ready[g]
           /\ n \notin evaluated[g]

(* backward() returns a value only when every node that is to be executed   *)
(* ran, every requested gradient was captured, no buffer is left, and every *)
(* final callback ran, the ones installed by callbacks included.            *)
ValueMeansAllDone ==
    \A g \in GraphTasks : future_result[g] = "value" =>
        /\ CalledOf[g] \subseteq evaluated[g]
        /\ CaptureOf[g] \cap NodesOf[g] \subseteq captured[g]
        /\ not_ready[g] = {}
        /\ callbacks_run[g] = final_callbacks[g]

(* An error is never lost: a pass one of whose functions threw, on whatever *)
(* thread, cannot end with a value, and the pass around it fails as well.   *)
ErrorWins ==
    \A g \in GraphTasks :
        /\ has_error[g] => future_result[g] # "value"
        /\ \A n \in evaluated[g] : Reenters[g][n] # None
               => future_result[Reenters[g][n]] = "value"

(* Lost wake-up: an owner that sleeps in pop() on an empty queue although   *)
(* its future is complete has a frame on its way to send it a dummy task,   *)
(* or tasks left elsewhere whose last one will.                             *)
(* (Engine.cpp, thread_main: "the owning thread of the graph_task might be  *)
(* sleeping on pop() [...] we need to send a dummy function task to the     *)
(* owning thread just to ensure that it's not sleeping".)                   *)
OwnerIsWoken ==
    \A g \in GraphTasks :
        (/\ future_result[g] # "none" /\ pc[g] = "pop"
         /\ heap[local_ready_queue[thread[g]]] = {})
        => \/ Queued(g) # {} \/ Uncounted(g) # {}
           \/ \E f \in Frames : Holds(f, g) /\ pc[f] \in Completing

(* The thread-local state of a caller is back to its initial value whenever *)
(* it is outside backward(), also after errors in nested passes, so that    *)
(* its next call is not taken for a reentrant one; inside, at most          *)
(* max_recursion_depth_ nested frames share a thread's stack.               *)
ThreadStateRestored ==
    /\ \A c \in Callers : Outside(c)
          => worker_device[c] = NO_DEVICE /\ current_depth[c] = 0 /\ total_depth[c] = 0
    /\ \A t \in Threads : current_depth[t] <= MaxDepth

(* A nested pass handed to the pool is never left without a thread: the     *)
(* queue of graph tasks is no longer than the workers that wait, or are     *)
(* about to, although num_workers_ does not count the latter.               *)
EnoughWorkers ==
    Len(graphtasks_queue) <= Cardinality({p \in PoolThreads : worker[p] \in {"start", "wait"}})

(* A completed future never changes again. *)
FutureWrittenOnce ==
    [][\A g \in GraphTasks :
          future_result[g] # "none" => future_result'[g] = future_result[g]]_vars

(* Every call of backward(), nested or not, returns, unless the process     *)
(* ends meanwhile (Engine::stop), which may take the device threads away.   *)
EveryCallReturns ==
    \A g \in GraphTasks :
        (call[g] \in {"inline", "handed"}) ~> (call[g] = "returned" \/ stop_pc # "running")

(* The engine keeps the promise of module BackwardPass to every call,       *)
(* whatever threads evaluate the graph: refinement.                         *)
PhaseOf(g) == IF call[g] \in {"inline", "handed", "aborted"} THEN "running" ELSE call[g]

Promise == INSTANCE BackwardPass WITH
    Needed <- CalledOf,
    Inputs <- InputsOf,
    phase <- [g \in GraphTasks |-> PhaseOf(g)],
    ran <- evaluated,
    outcome <- future_result

KeepsPromise == Promise!BSpec

-----------------------------------------------------------------------------
(* Engine::stop, called when no backward runs and no task of a failed one   *)
(* is left in a device queue, ends every device thread unless another       *)
(* thread begins a backward meanwhile: none is left blocked in pop().       *)
NoBackward == \A g \in GraphTasks : ~Alive(g)

StopEndsDeviceThreads ==
    (/\ stop_pc = "checking" /\ stop_todo = Devices
     /\ NoBackward /\ \A d \in Devices : heap[d] = {})
       ~> (thread_count = 0 \/ ~NoBackward)
=============================================================================
