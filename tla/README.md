# GoTorch: a TLA+ development

GoTorch is a Go package (`gotorch.go`) over a C layer
(`csrc/go_binding/torch_api.cpp`) over libtorch, whose C++ sources are part of
the repository. A training loop of the README builds a model, calls
`loss.Backward()`, steps an optimizer and a scheduler, and evaluates under
`WithNoGrad`; servers do the latter from many goroutines. The Go and C layers
are mostly one-line wrappers. The part that is hard to get right is what
`Backward()` reaches: the autograd engine, a multi-threaded scheduler of graph
nodes with per-device threads, nested calls, a thread pool, errors and shutdown.
This project models that engine first, with the graph it walks, the streams it
orders its kernels on, and the reference counts, thread pools and futures
underneath; then the place where Go's own concurrency meets libtorch's
thread-local state; and then GoTorch's own stateful code: the training loop with
its data loader, modules and optimizer, and the schedulers.

## 1. Inventory

| Component | State | Operations | Interacts with |
|---|---|---|---|
| Autograd engine (`torch/csrc/autograd/engine.cpp`, `engine.h`, `graph_task.h`) | per call a `GraphTask` (outstanding tasks, error flag, future, dependency counts, input buffers, owner, callbacks); per thread a `ReadyQueue`, `worker_device`, depths; a pool of reentrant threads | `execute`, `thread_main`, `evaluate_function`, `set_exception`, `mark_as_completed_and_run_post_processing`, `add_thread_pool_task`, `reentrant_thread_init`, `start_device_threads`, `stop` | called by `Backward()`; walks the backward graph; node functions call it again |
| Backward graph (`node.h`, `compute_dependencies`, `init_to_execute`) | nodes, next edges, topological numbers, `exec_info_` | `set_next_edges`, `add_next_edge`, the two walks | built by operators, read by the engine |
| Grad mode (`gotorch.go` 494-521, `c10/core/GradMode.cpp`) | one thread-local flag per OS thread | `NoGrad`, `EnableGrad`, `IsGradEnabled`, `WithNoGrad` | read by every operator; goroutines move between threads |
| DataLoader (`gotorch.go` 1616-1679) | index permutation, position | `Reset`, `HasNext`, `Len`, `Next` | calls the user's `Dataset` |
| LR schedulers (`gotorch.go` 1522-1613) | epoch or iteration counters, best metric, base rate | `Step`, `StepWithMetric` | read and write the optimizer's rate |
| Tensor, module and optimizer handles (`gotorch.go`, `torch_api.cpp`) | C++ objects behind raw pointers | constructors, `Free` | the graph and the optimizer hold references of their own; Go's garbage collector frees nothing |
| Modules, optimizers, `AccumulateGrad` (`gotorch.go` 540-1520, `optimizer.cpp`, `accumulate_grad.h`) | layers, the parameters an optimizer was made with, each parameter's `grad` | `Forward`, `Parameters`, both `ZeroGrad`s, `Step`, accumulation | run by the engine's leaf nodes, fed by the DataLoader |
| Reference counting (`c10/util/intrusive_ptr.h`) | strong and weak count in one word per object | copy, `reset`, weak copy and `reset`, `lock` | every tensor, storage and graph node |
| Input buffers and streams (`input_buffer.cpp`, `evaluate_function`, `exec_post_processing`, part of `CUDACachingAllocator.cpp`) | gradient, accumulation stream, ready event and stream per position; queued kernels; freed blocks | `add`, `accumulate`, stream waits, `record_stream`, reuse of memory | filled by the engine's threads, read by devices that run later |
| Thread pool and parallel loops (`thread_pool.cpp`, `ParallelNative.cpp`) | task queue, `available_`, `complete_`; per loop the remaining chunks | `run`, `main_loop`, `waitWorkComplete`, `parallel_for`, `intraop_launch*` | operators call them, also from each other's tasks |
| `ivalue::Future` (`ivalue_inl.h`, `ivalue.cpp`) | value or error, callbacks | `markCompleted`, `setError`, `wait`, `addCallback`, `then`, `collectAll` | completed by pool tasks and by the engine |
| Tensor operations, losses, serialization | none of their own | one-line wrappers | libtorch kernels |
| Python engine, distributed engine, JIT, kernels | - | - | not reached by GoTorch, or arithmetic |

What is hard here: decrementing and incrementing a shared count from several
threads; two threads racing to complete one future; an owner that sleeps while
somebody else finishes its work; nested calls that block the very thread whose
queue they need; tasks left behind by failed calls on queues that are reused;
thread-local flags that must be restored on every path; pruning a graph by
numbers; kernels that run long after the host dropped their operands; counts
that two threads read and write with separate atomic operations; parallel loops
inside tasks of the pool they need; gradients taken over by a reference count
that does not see the memory they share; and Go code that assumes "the current
thread" between two C calls.
`PROJECT.json` lists these hazards with their lines and with the properties
that would notice them going wrong.

What makes each component correct:

* Engine: each needed function runs once, after all its inputs; the call
  returns once and only after its outcome is settled; the outcome is settled
  once, to a value only if everything was done; errors win and reach the outer
  call; nobody sleeps for ever; the thread's state is restored.
* Graph: parents have higher numbers than children; counts equal the edges
  that will deliver gradients; the marked nodes are exactly those on a path to
  a requested output.
* Grad mode: off inside `WithNoGrad`, restored after it.
* DataLoader: an epoch visits every item once, in as many batches as `Len` says.
* Schedulers: each follows its schedule, notices what it should notice, and
  keeps what another scheduler of the same optimizer did.
* Training: every parameter of the optimizer is updated with every batch once,
  and gradients do not share memory.
* Reference counts: they equal the pointers there are; nobody touches an object
  that is gone; the last pointer takes it away.
* Streams: a kernel runs when its operands are complete and their memory is
  still theirs; the caller may use a gradient at once.
* Parallel loops and futures: every index once, the join waits for all chunks,
  every call returns, and a collected future has the outcome of its sources.

## 2. Plan

1. `AutogradGraph` (what execute() derives from the graph), `Engine` (all
   threads), `BackwardPass` (what one call promises): done.
2. `GraphWalk` (how it derives it), `GradMode`, `DataLoader`, `Schedulers`: done.
3. `IntrusivePtr`, `InputBuffer`; `ThreadPool` and `Future` composed in
   `Parallel`; `DataLoader` composed with modules, optimizer and gradients in
   `Training`: done.
4. Proofs about the engine: types and well-formedness, one writer per future,
   the task count, the pool, thread-local state, the flow of gradients, errors,
   completeness of a value, and the refinement of `BackwardPass`: done.
5. Proofs about `GraphWalk`, `IntrusivePtr`, `GradMode`, `Training` with its
   `DataLoader`, `Schedulers`, `InputBuffer` (the happens-before order of the
   streams), and of the pool, the loops and the futures of `Parallel`: done.
6. Left to the model checker: the properties of section 5's last part, each with
   the reason.

## 3. Modules

**AutogradGraph** is constant-level: a graph (`NextEdges`, with `None` for an
invalid edge, and `TopologicalNr`) and, by least fixed points, the nodes a pass
reaches, the dependency counts, and the nodes that are needed or captured.

**Engine** (extends AutogradGraph). The unit of control is a *frame*, one
activation of `thread_main`: `pc[f]` is its control point, `cur[f]` the popped
task, `thread[f]` the thread it runs on. A device's endless activation is named
by the device, the activation driving graph task `g` by `g`; a frame whose node
called `backward()` waits at `"reenter"` underneath. One atomic operation or
critical section of the code is one step:

| Code | Steps |
|---|---|
| `execute`, `execute_with_graph_task` | `Backward` (user thread), `Reenter` (from a node), both through `Execute`; `ReturnToCaller`, `ReturnToParent` |
| `thread_main` | `LoopCondition`, `Pop`, `Begin`, ..., `DecrementOutstanding`, `CheckCompleted`, `MarkAsCompleted`, `NotifyOwner` |
| `evaluate_function` | `Begin` (captures), `CallFunction` or `Throw`, `PropagateEdge` once per output under `mutex_` |
| `set_exception` | `SetHasError`, `SetException` (the exchange), `SetError` |
| `mark_as_completed_and_run_post_processing` | `MarkAsCompleted` (the exchange), `AwaitFuture`, `RunFinalCallback`, `ExecPostProcessing` |
| thread pool | `AddThreadPoolTask`, `WorkerWait`, `WorkerTake`, `WorkerDone` |
| device threads | `StartDeviceThreads`, `ThreadInit`, `DeviceThreadsStarted`, `ThreadExit` |
| `Engine::stop` | `Stop`, `StopCheck`, `PushShutdownTask`, `StopWait` |

`heap[q]` is a set: a graph task has at most one task per node and dummy sender
in a queue at a time. `Top` is `CompareNodeTaskTime`; because
`getReentrantDepth` jumps to `INT_MAX` when a graph task expires, after the
heap was built, the order among function tasks is left open while an expired
task is in the heap. `Alive(g)` says whether the `weak_ptr<GraphTask>` of a
task can be locked. Node functions are external: they return, throw
(`MayThrow`, or saved variables that an earlier pass released), call
`backward()` (`Reenters`) or install a final callback (`QueuesCallback`).
Which calls are made, on which graph, is given by constants; when, by the
interleaving.

**BackwardPass** is the abstract specification: `Call`, `Run`, `Settle`,
`Return`. `Engine!KeepsPromise` is `BSpec` under the mapping "call inline or
handed over = running, functions that returned = ran, the future's result =
outcome".

**GraphWalk** builds a graph node by node and walks it: one step is one
iteration of a loop of `compute_dependencies` or `init_to_execute`. Its results
are compared with AutogradGraph's definitions, instantiated over the variables,
so that what `Engine` assumes as constants is what the code computes.

**GradMode** models the C calls of `WithNoGrad` one by one, on the OS thread
the goroutine has at that moment. The Go scheduler (`Schedule`, `Preempt`) is
external; a goroutine in `Locked` called `runtime.LockOSThread`. The function
given to `WithNoGrad` may itself call `NoGrad` and `EnableGrad` (`Choose`), also
deferred while it panics, may call `WithNoGrad` again, and may recover a panic
that comes from there (`Recover`). `turnedOn` is the history that the properties
compare the mode with: per level, whether gradients were switched on inside.

**IntrusivePtr** is one object with its two counts, and pointers that threads
own. A call is a sequence of atomic operations, one step each: `CopyStrong` and
`MakeWeak`; `Reset` (the load that finds the object uniquely owned) followed by
`StoreZero` or by `Decrement`, `ReleaseResources`, `DecrementWeak`; `ResetWeak`;
`Delete`; `Lock` with its load and the `compare_exchange_weak` loop, which may
fail spuriously (`CompareExchangeFails`). The two counts share one 64-bit word
(`Word`), so that the exchange sees a change of either.

**InputBuffer** has a host that queues and devices that run. `work[s]` is the
sequence of kernels and waits queued on stream `s`, `done[s]` how many ran; an
event is a stream and a position. The host's actions are one producer's function
(`CallProducer`), `InputBuffer::add` for the first and the later producers
(`AddFirst`, `AddNext`, `AddUndefined`), the consumer (`CallConsumer`,
`DropBuffer`), `ExecPostProcessing` and the user's next operation
(`UseGradient`). `Freed` and `ReuseBlock` are what the caching allocator does
with a block: it is given away on its own stream at once, unless other streams
were recorded on it. A kernel that reads an operand which is incomplete or was
given away is recorded in `wrong`. All assignments of streams to the nodes and
to the caller are initial states.

**ThreadPool**, **Future** and **Parallel** share one representation of threads:
`todo[t]` is what thread `t` has still to do, innermost call first, and
`asleep` who waits on which condition variable. A step takes the first entry and
may put a callee's steps in its place. `ThreadPool` is `c10::ThreadPool` with its
destructor; `Future` is completion in the order of the code (claim and take the
callbacks under the mutex, `notify_all`, then the callbacks outside it), `then`
and `collectAll`, with a callback named by the future it completes and the place
of its source among that future's sources; `Parallel` adds `parallel_for`, `invoke_parallel` and the two
launches on the intra-op pool, and programs that nest them. Functions given by
the user are external: they run nested calls (`Body`) and may throw.

**DataLoader** has one action per method and one per exported field. What
`Next` returned since the last `Reset` is kept as history. `Next` past the end
sets `pos`, builds an empty batch and panics in `Stack`, which takes the address
of its first element; a program may recover and go on. A batch size of zero or
less is excluded: `Len` then divides by zero. `i * 6700417` does not overflow on
a 64-bit platform for any dataset that fits in memory.

**Training** (extends DataLoader) is a program that trains a `Sequential` on the
loader's batches, two passes under way at once if it likes. A gradient is the bag
of passes it sums up, and lives in a storage. `Source[p]` is the tensor (the
`TensorImpl`) that a backward pass sends to parameter `p`, and `Base` the tensor it
is a view of: two parameters may be sent one tensor, a tensor and a view of it, or
two views. `Accumulate` steals what the engine sends, copies it, or adds in place,
as `accumulateGrad` decides; `Stealable` counts references to the `TensorImpl` as
`is_tensor_stealable` does, and not the storage. `ZeroGrad` (the optimizer's) drops
the gradients, `ModelZeroGrad` (the `Sequential`'s) zeroes them where they are.
Layers whose `Parameters()` returns nil get gradients but are not in the
optimizer. A stolen storage is named after its pass as long as two parameters may
share it; since passes are numbered within an epoch, `BeginEpoch` waits until such
gradients were reset by `ZeroGrad`.

**Schedulers** has one action per constructor and per `Step`. All share `lr`,
the optimizer's rate. Rates are integers and factors fractions, chosen so that
no division leaves a remainder; the cosine is a table of integers (`Cosine`), of
which only the assumption says more: it falls strictly to 0 at `TMax`. The
infinite initial `bestVal` is a value of its own: every metric improves on it. The
history is the metrics given, the calls that reduced the rate, and the last rate
that was set outright (`restart`); the properties compare it with definitions that
look at all metrics, not at `bestVal` and `noImpCount`. Note that
`noImpCount >= Patience` reduces one call earlier than libtorch's own
`ReduceLROnPlateauScheduler` (`num_bad_epochs > patience`), and that a `Patience`
of 0 reduces in every call.

The definitions marked "Mutant" are wrong variants of the definition after
them. They are used nowhere in the specifications; replacing the definition by
its mutant must make TLC report the property named in `PROJECT.json`, which
shows that the property depends on that line of the code.

## 4. Runs

| Run | Bounds | States | Shows |
|---|---|---|---|
| `engine_devices` | 2 callers, 2 devices, diamond of 4 nodes, one call each of `backward()` and `grad()` | 104k | counts, buffers, one writer, wake-ups, refinement |
| `engine_reentrant` | 1 caller, 2 devices, passes nested 3 deep, then another pass; throws at each level; `stop()` at any time | 49k | errors travel outwards, thread state, every call returns, refinement, `stop()` ends the device threads |
| `engine_pool` | 2 callers, 3 pool threads, `MaxDepth = 0`, 5 passes | 672k | types, well-formedness, pool is never short of workers |
| `input_buffer` | 2 producers, 2 devices with 2 streams each, any streams for nodes and caller, 1 block reused | 685k | events exist when awaited, operands are complete and not reused, the caller sees the gradient |
| `intrusive_ptr` | 3 threads, 4 pointers | 11k | counts, no use after free, no leak |
| `parallel` | 2 program threads, 2 workers, 3 programs with nested loops, launches and collected futures; a job or a future is one call | 207k | every index once, exact `complete_`, outcome of `collectAll`, every call returns |
| `graph_walk` | 4 nodes, at most 4 edges, at most 2 outputs, one node may get edges to a newer one | 198k | topological numbers, counts, needed nodes, pruning, termination |
| `grad_mode_locked` | 2 goroutines (one locked), 3 OS threads, nesting 2 | 946k | on a locked goroutine the mode is off inside `WithNoGrad` and restored after it, with the exceptions named below |
| `training` | 0, 1, 3 or 6 items, batch sizes 1, 2, 7, models of one or two layers, one with a tensor sent twice, one with a tensor and two views of it; 2 passes under way, 3 per epoch | 81k | epochs are complete; each batch trains once and gradients are separate, except for views |
| `schedulers` | 7 calls, each alone and 4 pairs, 5 metrics, one of them negative, both modes, `MinLR` reached after two reductions | 1.2M | reductions multiply down to `MinLR`, plateaus are noticed in time, the cosine turns at its ends |
| `engine_pool_device` | 1 caller, 1 device, 1 pool thread | - | *violation*, see below |
| `grad_mode_moves` | 2 goroutines, none locked | - | *violation*, see below |

Why the bounds are enough for what they show. Two devices and a CPU caller give
every combination the wake-up test distinguishes (owner, another device, the
same device). A diamond is the smallest graph where two threads meet at a node;
the double branch with an invalid edge exercises the count and the skip.
Nesting three deep is the smallest where a nested pass is itself interrupted by
one on another device; `MaxDepth = 0` sends every nested pass to the pool, with
three pool threads for the three that can be open at once. In the walks, four
nodes with four edges include diamonds, double edges, chains past an output and
two outputs on one path. Two streams on each of two devices give each case of
`InputBuffer::add` (A, B and C of its comment) with the producer on the
accumulation stream and off it; two producers are the first and an Nth. Three
threads let a `lock()` and two resets overlap on an object; the fourth pointer
keeps weak ones alive meanwhile. Two workers and a main are three chunks, so
that one can finish while another starts and the third is queued. Three
items in batches of one are three passes: one stepped, two under way; the models
without an optimizer run the loader over the other sizes. Seven calls of
schedulers are enough for three metrics windows of `Patience = 2`, a full cosine
period of `2 * TMax = 6`, and calls after the end of the warm-up.
`MaxCallbacks = 2` lets one callback install another. The symmetry sets
(pointers and threads; producers) are used under invariants only.

Two runs expect a violation; each is a place where the code does not do what
the repository says:

* `engine_pool_device` (`engine.cpp:603`). A nested pass beyond the recursion
  limit is driven by a pool thread on the owner's queue. If its last task runs
  on a device, the owner continues as soon as the future is set, and the pool
  thread may still be inside `pop()`. It can then take the last task of the
  *outer* pass and complete it. The test `worker_device != base_owner` compares
  devices, so no dummy task is sent, and the owner, asleep in `pop()`, is never
  woken. It needs a recursion limit reached (60 in the code) and a device.
* `grad_mode_moves` (`gotorch.go:514`). Without `runtime.LockOSThread`, a
  goroutine can find gradients enabled inside `WithNoGrad`.

Smaller disagreements met on the way, visible in the models without a run of
their own:

* `stop()` sends shutdown tasks "if no backward tasks are running"
  (`engine.cpp:295`) but looks at device queues only: it can do so while a device
  evaluates a function, and a failed pass's leftover task makes it leave the
  threads alone. `EveryCallReturns` and `StopEndsDeviceThreads` say what holds.
* The join of `invoke_parallel` waits without a loop
  (`ParallelNative.cpp:190`): a spurious wake-up returns early, with chunks that
  refer to the caller's stack still running (`early` in `EveryIndexOnce`, which
  excepts such a loop).
* A function given to `intraop_launch_future` that throws leaves its future
  incomplete for ever (`lost` in `EveryCallReturns`, which excepts such a program);
  a callback of a `Future`
  that throws skips the callbacks after it.
* `main_loop` calls `completed_.notify_one`, so of two threads in
  `waitWorkComplete` only one is woken; the model's programs have one.
* "Parameters collects all parameters from all layers" (`gotorch.go:599`), but
  `Conv1d`, `ConvTranspose2d`, the batch, layer, group and instance norms return
  nil, and are not trained. With only such layers `NewSGD` panics on `&r[0]`.
* "WithNoGrad runs fn with gradients disabled. Mirrors: with torch.no_grad()"
  (`gotorch.go:513`), but `if was { EnableGrad() }` switches nothing off: where
  gradients were off before, and `fn` calls `EnableGrad`, as the comment on
  `NoGrad` (line 504) recommends to defer, they stay on after `WithNoGrad`. This
  is the exception in `Restored`; Python's context manager sets the saved mode.
* `accumulateGrad` steals a gradient where "No other user-visible tensor references
  new_grad" (`accumulate_grad.h`, case 1.1), and `is_tensor_stealable` counts the
  references to the `TensorImpl`. Two views of one storage, sent to two parameters,
  are both stolen, and an in-place `+=` of the next pass then changes both: this is
  the exception in `GradientsAreSeparate`, and why `TrainedOnce` leaves those
  parameters out. Both properties fail in the run without it.
* `Tensor.Free` has no check, and the output of `Identity` and of
  `ModuleList.Forward` (`gotorch.go:618`) is its input's handle: freeing both
  deletes one handle twice.
* With a negative metric, such as a log-likelihood, `bestVal*(1-Threshold)` is
  worse than `bestVal` (`gotorch.go:1585`): a metric that never changes
  "improves" in every call, and the rate is never reduced. `StagnationIsNoticed`
  is about metrics that do not improve in the sense of the code.
* `NoGrad` "disables gradient computation globally" (`gotorch.go:503`) but sets a
  flag of one OS thread; `ReduceLROnPlateau` raises a rate that another
  scheduler took below `MinLR` (`gotorch.go:1588`; libtorch's scheduler does
  not; `ReductionsMultiply` says by how much); a `LinearLR` warm-up starts at the full rate and falls at the first
  `Step`, since the constructor does not apply `StartFactor` (`gotorch.go:1605`).

### Fairness

`Engine!Fairness`: weak fairness per frame, per call, per pool thread and for
starting and stopping threads. The threads are OS threads, nothing in the code
spins while holding a lock, and a step stays enabled until its thread takes it;
node functions are assumed to return or throw. No fairness is assumed for user
threads making calls or for the process calling `stop()`. `Parallel!Fairness`:
weak fairness per thread, for the same reason; a worker that waits becomes
runnable when it is notified, and a spurious wake-up is never required.
`GraphWalk!FairSpec`: the walk is sequential code. The other modules need none.

Deadlock is checked in every passing run except `engine_reentrant`, where a
shutdown task may end a device thread that a running pass needs while the
process is about to end, and three whose program simply ends: `schedulers` after
`MaxCalls` calls, `input_buffer` when the last kernel ran, `parallel` when the
mains are done or a launched function was lost. `EveryCallReturns` is what says
that nobody is stuck there. `Terminating` in `Engine` and `IntrusivePtr` is the
one explicit stuttering step: all calls have returned and all threads sleep, or
no pointer is left.

## 5. Proofs

Eight modules hold theorems, each about the module it is named after, for every
value of the constants that meets the assumption of that module. TLC evaluates the assumptions
in the runs, and checked every inductive invariant on the runs' instances before
it was proved.

| Module | Theorem | Shows |
|---|---|---|
| `EngineProofs` | `TypeCorrect` | `Spec => []TypeOK` |
| | `AlwaysWellFormed` | `Spec => []WellFormed` |
| | `OneWriter`, `WrittenOnce` | `[]FutureHasOneWriter`, and the action property `FutureWrittenOnce` |
| | `CountsTasks` | `[]OutstandingIsExact` |
| | `PoolIsLargeEnough` | `[]EnoughWorkers` |
| | `ThreadStateIsRestored` | `[]ThreadStateRestored` |
| | `InputsArriveFirst` | `[]EveryInputArrived` |
| | `ErrorsAreNotLost` | `[]ErrorWins` |
| | `ValueIsComplete` | `[]ValueMeansAllDone` |
| | `EngineKeepsPromise` | `Spec => KeepsPromise`, the refinement of `BackwardPass` |
| | `OwnerIsAlwaysWoken` | `[]OwnerIsWoken`, in behaviours that hand no pass to the pool |
| | `ShallowOwnerIsWoken` | `[]OwnerIsWoken`, if there are at most `MaxDepth` graph tasks |
| `GraphWalkProofs` | `WalkTypeCorrect` | `[]TypeOK` |
| | `ParentsAreAlwaysNewer` | `[]ParentsAreNewer` |
| | `CountsEveryEdgeOnce` | `[]DependenciesAreRight` |
| | `MarksExactlyTheNeeded` | `[]ExecInfoIsRight` |
| | `PruningLosesNothing` | `[]NothingIsPruned` |
| `IntrusivePtrProofs` | `CountsAlwaysExact`, `NeverUsedAfterFree`, `NeverLeaks` | `[]CountsAreExact`, `[]NoUseAfterFree`, `[]NothingLeaks` |
| `GradModeProofs` | `AlwaysOffForLocked`, `AlwaysRestoredForLocked` | `[]LockedIsOffInside`, `[]LockedIsRestored` |
| `InputBufferProofs` | `EventsAreAlwaysThere` | `[]EventsAreThere` |
| | `OperandsAreAlwaysReady` | `[]OperandsAreReady` |
| | `CallerAlwaysSeesGradients` | `[]CallerSeesGradients` |
| `ParallelProofs` | `CompleteIsAlwaysExact` | `[]CompleteIsExact` |
| | `EveryIndexIsDoneOnce` | `[]EveryIndexOnce` |
| | `CollectAllIsAlwaysRight` | `[]CollectAllIsRight` |
| `TrainingProofs` | `BatchesTrainOnce` | `[]TrainedOnce` |
| | `GradientsStaySeparate` | `[]GradientsAreSeparate` |
| | `EpochIsAlwaysRight` | `[]EpochIsRight` |
| `SchedulersProofs` | `AlwaysPatient` | `[]ReducesAfterPatience` |
| | `AlwaysNoticesStagnation` | `[]StagnationIsNoticed`, for any metrics |
| | `CosineAlwaysTurns` | `CosineTurnsOnlyAtTheEnds`, for every `TMax`, if the base rate is a multiple of `Cosine[0]` units above `EtaMin` |

### The engine

`EngineProofs` starts from `IInv == TypeOK /\ WellFormed`. `TypeOK` alone is not
inductive: `Pop` assigns a task from the heap of `local_ready_queue[thread[f]]`,
which has a type only if the frame's thread has a queue, and `PropagateEdge`
queues on `cpu_ready_queue[g]`, which is a queue only once the call was set up.
`FutureHasOneWriter` is inductive relative to `IInv`: the exchange
(`ClaimFuture`) gives the future to one frame, which keeps it until it writes
(`SetError`, `FinishFuture`); `WrittenOnce` follows since both writers own an
unset future.

`OutstandingIsExact` compares a counter with the size of a set, so a push must
add a task that was not there. `CountInv` says why it is not: a node's task is
queued only when its dependency count went from 1 to 0, a dummy task only after
`GraphTask::completed()` was seen, no task is in two queues, and a call that was
not made has none. `EnoughWorkers` needs `WorkersInv`, which relates
`num_workers_` to the threads that wait and counts the ones created but not yet
waiting. `ThreadStateRestored` needs `DepthInv`: the passes that run on a
caller's thread form a stack (`StackOf`), each but the last blocked in the node
that called the next, and `current_depth`, `total_depth` and `worker_device` are
functions of that stack. The engine has no such stack; the proof reads it off
`thread`, `call` and `pc`.

The second half follows the gradients. `FlowInv` says that a node is in one
place (not yet ready, queued, held by one frame, evaluated), that its dependency
count and the gradients in its buffer add up to its incoming edges, and that a
gradient comes from an edge the sender is past; `EveryInputArrived` is the case
of a count of 0. Most steps are shown to be *quiet* (they queue no node, take
none, and call no function), and only the others are looked at one by one.
`FinishInv` says that whoever found `outstanding_tasks_` at 0 is right that
nothing is left, and that whoever raises `has_error_` goes on to the future;
`NestedInv` carries an inner pass's error to the node that called it. `DoneInv`
says that, as long as nothing failed, the gradients of a node that ran are in the
buffers they go to or with the frame that ran it. A pass that runs out of work
has then done it all: of the nodes that miss a gradient, the one with the highest
topological number has only called nodes above it, and these delivered. (The
highest number exists by the library's `WFMin`, which takes a set and no operator.)
`EngineKeepsPromise`
then takes each step of `Engine` to a step of `BackwardPass` or to a stutter.

`OwnerIsWoken` is false where a pass is handed to the pool, so its theorem is
about the behaviours that hand none over (`NoneHanded`), and a second one says
that these are all behaviours if there are no more graph tasks than
`max_recursion_depth_`: a level of nesting on a thread is a call made there
(`Shallow`). `WakeInv` says what the pool would break. A thread serves one queue,
its own, for its own device (`OwnQueue`), a call runs on the thread that made it
(`OwnThread`), and its tasks are there or at a device (`TasksNear`). A frame that
sends no dummy task (`WakesOwner`) has the `worker_device` of the owner, so it is
on the owner's thread, and as only one frame of a thread runs at a time
(`OneRuns`), the owner is not asleep: it is this frame, or is blocked in a node
below it. A pool thread takes the device of the graph task it is given and serves
its queue, and nothing of this is then true.

### The other modules

`GraphWalkProofs`. The sets of `AutogradGraph` are least fixed points, used as
intersections of closed sets: what the walk found is closed when its worklist or
stack is empty, so it contains the fixed point; what it found was reached, so it
is contained in every closed set. `Counting` and `Marking` say this of a walk in
progress, with the edges counted so far, and with the stack as a path on which
each frame waits for the child above it. That a node is never met while on the
stack, and never queued twice, follows from the topological numbers (`Numbered`).

`IntrusivePtrProofs`. `IInv` adds to the exact counts who may be between two
atomic operations: a resetting thread has its pointer for itself, a thread past
the load that found the object uniquely owned has the only pointer (`Unique`),
one thread at most releases the resources (`Releasing`), and one deletes, when
everybody else is done (`Deleting`). Only together are these inductive.

`GradModeProofs`. A goroutine that is locked runs on its home thread or not at
all, and nobody else runs there (`AtHome`). Each call saved the mode its caller had
(`Stack`): what was chosen outside, or, in a function, whether gradients were
turned on there (`ModeAt`). The mode of the home thread is the innermost level's,
but between the read and the switch of `WithNoGrad` (`Mode`). The exception of
`Restored` is in the statement and not in an assumption.

`InputBufferProofs`. Where the gradient is not ready on the stream that sums or
consumes it, `ready_event` is set (`Recorded`). That the waits are enough needs to
know what the devices may do. A *cut* is a prefix of every queue in which no wait
was passed before its event; where the devices are is always one. Operation `j`
of stream `r` happens before operation `k` of `s` if every cut that has the second
has the first (`HB`). So stated, it is transitive by definition, follows from the
order of a queue and from a wait, and, the important lemma (`HBGrows`), is kept
when the host queues more: a cut of the longer queues, cut off where the shorter
ones ended, is a cut of these. `SyncInv` then says, of each kernel that has not
run, that each operand was made by an operation that happens before it, and that
every other write to that tensor, also by a later owner of the memory, happens
before the operand was made or after the kernel read it (`ReadersSupplied`); that
the allocator knows of each stream that reads a tensor, and of a freed tensor has
an event behind each reader on another stream (`Covered`), so that whoever gets
the block finds the readers done or ahead of it; and, of what is to be queued
next, that the producer's gradient, the buffer and the leaf are ready where the
code thinks they are (`GradReady`, `BufferReady`, `LeafReady`). The assumption
that `None` is no tensor and no event is about the model's sentinel.

`ParallelProofs`. `todo[t]` is a stack of pending calls; `Shape` types it and says
that a worker's ends in one `"finish"`. With `Counted` (`available_` is the number
of workers without a task) this makes `CompleteIsExact` inductive. For the loops a
step is a *token*: each chunk of a job is in one place (to be queued, queued, on a
thread, in its critical section) and there at most once (`Single`), `left[j]` is
the number of chunks that are not done, an index of a chunk was run if its token is
past the call (`JobInv`), whoever waits in the join finds `left` positive or a
wake-up on its way (`Placed`, `AfterJoin`), and a function that runs was called
from one place (`Nested`, `LaunchInv`). This needs that a job names one call of
`parallel_for`, and a future one launch: the assumption says that no two calls in
the text of the program have the same name. A function called twice is two names.

For the futures, `CollectInv` adds what is still to come. At most one step, on any
thread or in the queue, is to complete a future, and none once it is complete
(`FutureInv`); the callback `<<f, i>>` is to be added, to be called or among those
of its source, in one place only, and is called only when its source is complete
(`CallbackInv`). `remaining` of a `collectAll` is the number of its sources outside
some set whose members have a value and whose callbacks are over (`Settled`), so at
0 every source has a value, and the callback that brings it there is the only one
that goes on to `markCompleted`; an error comes from a source with one
(`AllInv`). That a step finds its future untouched needs to look ahead: a future
asked for in a function's text is not touched before that function started
(`NestedFuture`). The assumption adds that a `then()` has one source.

`TrainingProofs`. A gradient of a parameter of the optimizer is the sum of the
passes that reached it and that no `Step` has used, each once (`Summed`), and the
history of updates has the passes that a `Step` has used, each once (`Applied`). A
gradient is in a storage of its own, or, where backward sends views, in one that a
pass sent, and nobody is still to be given the same tensor by that pass
(`TakenFrom`); two gradients on one storage came from different tensors (`Stored`).
So adding in place changes one gradient, or those of views. That `Step`,
`Optimizer.ZeroGrad` and `Sequential.ZeroGrad` mean the same parameters is `Made`.
The loader's order of
indices is a permutation: each exchange of the shuffle keeps one, and a sequence
of exchanges that ends in something else has a first that does (a least number
exists, by the library's theorem about well-founded sets; this replaces the
induction, which the provers cannot instantiate). `Delivered` says that the
batches so far are the order up to `pos`, cut into batch sizes, and `Full` that all
but the last are full; an epoch's number of batches is then `Len`'s quotient.

`SchedulersProofs`. `Plateau` says that the last `noImpCount` metrics did not
improve on `bestVal`, which is an older metric, and that none of them reduced the
rate; `Counted`, conversely, that a run of metrics without a better one is
counted in full. `OnSchedule` gives the rate of a lone `CosineAnnealingLR` as a
function of its step; that the phase goes up and down by one in a period of
`2 * TMax` is division with remainder (`NextPhase`), and the rest is that the table
falls strictly.

### Only model-checked

* Liveness (`EveryCallReturns`, `StopEndsDeviceThreads`, `WalkEnds`): fairness
  and ENABLED are out of the prover's reach.
* `OwnerIsWoken` where a nested pass is handed to the pool: with a device it
  then does not hold (run `engine_pool_device`).
* `ReductionsMultiply`: it is exact only as long as no division leaves a
  remainder, which depends on the numbers of the run.

## 6. Not modelled

* In the engine: tensor and node hooks, anomaly mode, `validate_outputs`,
  compiled autograd, gradient checkpointing (`checkpoint_valid`),
  `exit_on_error_` (set by the distributed engine only), fork handling and
  `release_workers`, a shutdown wait limit of 0, more than one root (a
  `GraphRoot` node is then an ordinary root), gradient values. Streams and events
  are in `InputBuffer`, which takes the order of the engine's calls as given.
* In `InputBuffer`: gradients on the CPU, streams that capture a graph, sparse
  accumulation, more than one position.
* In `IntrusivePtr`: the Python wrapper bit, overflow of the 32-bit counts, and
  relaxed memory order (every access of the counts is atomic, and the orders are
  stronger where an object's contents are touched).
* In `Parallel`: the OpenMP backend, which replaces the native one when libtorch
  is built with it, and its own runtime; the mobile thread pool; futures' values,
  devices and events; `thenAsync` and `collectAny`.
* In `Training`: arithmetic of layers and update rules; what is left of earlier
  epochs in gradients that no optimizer has.
* `Tensor.Free` and the other handles: the graph, the optimizer and the gradients
  hold references of their own (`IntrusivePtr`), so only the Go program itself can
  use what it freed.
* `outstanding_tasks_` and the counters are unbounded integers; they are 64-bit
  or bounded by the size of the graph in the code.
* Memory order: atomics are taken as sequentially consistent, which is what the
  code asks for, except for one release fence before a mutex.
* Most of the repository's 1.2 million lines by count: numerical kernels and the
  generated operator tables under `aten/`, the JIT, the Python bindings and
  dynamo, the distributed packages, and code generators. Kernels are arithmetic
  on floating-point buffers, which TLC cannot evaluate to any purpose; the rest is
  reached by no GoTorch call. The models cover the stateful and concurrent code
  between `gotorch.go` and the kernels.
* Components marked `not_modelled` in `PROJECT.json`, with the reason there.
