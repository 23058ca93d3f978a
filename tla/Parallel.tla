------------------------------ MODULE Parallel ------------------------------
(***************************************************************************)
(* at::parallel_for, intraop_launch and intraop_launch_future on the        *)
(* intra-op pool (ParallelNative.cpp), with the futures the launched        *)
(* functions complete.  The program is what the threads of Mains call.      *)
(*                                                                          *)
(* A job is one call of parallel_for, Range(j) its indices counted from     *)
(* begin.  Body[x] is what the function of job or future x calls in turn    *)
(* (in a job, the function on the first chunk).  A function that throws is  *)
(* caught by the chunk or by the pool task it runs in.                      *)
(***************************************************************************)
EXTENDS Future

CONSTANTS
    Jobs,
    Size,       \* Size[j]: end - begin
    Grain,      \* Grain[j]: grain_size
    Body,       \* Body[x]: the steps of the function of a job or a launch
    MayThrow,   \* the jobs and launches whose function may throw
    Programs    \* what the mains may call: a set of [Mains -> Seq of steps]

Launched == {f \in Futures : Kind[f] = "launch"}

(* What a function or the program may call *)
CallSteps ==
    ({"for"} \X Jobs) \cup ({"launch"} \X Launched) \cup ({"wait"} \X Futures)
        \cup ({"make"} \X {f \in Futures : Kind[f] \in {"then", "all"}})
        \cup ({"fulfil"} \X {f \in Futures : Kind[f] = "promise"})
        \cup {<<"complete">>, <<"destroy">>}

Once == {"for", "launch", "make", "fulfil"}

ASSUME ParallelAssumption ==
    /\ Size \in [Jobs -> Nat] /\ Grain \in [Jobs -> Nat]
    /\ Body \in [Jobs \cup Launched -> Seq(CallSteps)]
    /\ Programs \subseteq [Mains -> Seq(CallSteps)]
    \* a job or a future is one call: no two calls in the text have the same name
    /\ Jobs \cap Futures = {}
    /\ \A x, y \in DOMAIN Body : \A n \in DOMAIN Body[x], k \in DOMAIN Body[y] :
          Body[x][n] = Body[y][k] /\ Body[x][n][1] \in Once => x = y /\ n = k
    /\ \A p \in Programs : \A m \in Mains : \A n \in DOMAIN p[m] : p[m][n][1] \in Once =>
          /\ \A l \in Mains : \A k \in DOMAIN p[l] : p[l][k] = p[m][n] => l = m /\ k = n
          /\ \A x \in DOMAIN Body : \A k \in DOMAIN Body[x] : Body[x][k] # p[m][n]

VARIABLES
    left,       \* left[j]: state.remaining
    eptr,       \* the jobs whose function threw: parallel_for rethrows
    ran,        \* ran[j][i]: how often the function was called on index i
    returned,   \* the jobs whose parallel_for returned or threw
    early,      \* the jobs whose cv.wait returned before the last chunk
    lost        \* the launched futures whose function threw

jobState == <<left, eptr, ran, returned, early, lost>>
vars == <<poolState, futureState, todo, asleep, jobState>>

-----------------------------------------------------------------------------
get_num_threads == Cardinality(Workers) + 1

(* Mutant: a task of the pool is not taken for a parallel region *)
FlagOnly(t) == t \in Mains /\ \E n \in DOMAIN todo[t] : todo[t][n][1] = "sub"

(* in_parallel_region: the flag of ParallelRegionGuard is set while the     *)
(* function runs on a chunk, or the thread is one of the pool's             *)
in_parallel_region(t) ==
    \/ t \in Workers
    \/ \E n \in DOMAIN todo[t] : todo[t][n][1] = "sub"

divup(x, y) == (x + y - 1) \div y
AtLeast(x, y) == IF x > y THEN x ELSE y
AtMost(x, y) == IF x < y THEN x ELSE y

(* calc_num_tasks_and_chunk_size *)
ChunkSize(j) ==
    IF Size[j] < Grain[j] THEN Size[j] ELSE AtLeast(Grain[j], divup(Size[j], get_num_threads))
NumTasks(j) == IF Size[j] < Grain[j] THEN 1 ELSE divup(Size[j], ChunkSize(j))

(* The indices from local_start to local_end of task i *)
Chunk(j, i) ==
    i * ChunkSize(j) .. AtMost(Size[j], (i + 1) * ChunkSize(j)) - 1

CountRun(j, indices) ==
    ran' = [ran EXCEPT ![j] = [x \in DOMAIN @ |-> IF x \in indices THEN @[x] + 1 ELSE @[x]]]

-----------------------------------------------------------------------------
(* What is left of the steps when the function at the head throws: the      *)
(* catch of invoke_parallel's task, the catch of main_loop, or the next     *)
(* call of the program                                                      *)
Unwound(steps) ==
    LET catches == {n \in DOMAIN steps : steps[n][1] \in {"sub", "finish"}}
    IN  IF catches = {} THEN Tail(steps)
        ELSE SubSeq(steps, CHOOSE n \in catches : \A k \in catches : n <= k, Len(steps))

Unmarked(steps) ==
    {steps[n][2] : n \in {k \in DOMAIN steps : steps[k][1] = "mark"}}

(* The function of x, called by the step at the head of todo[t], throws *)
Throws(t, x) ==
    LET rest == Unwound(todo[t])
    IN  /\ x \in MayThrow
        /\ todo' = [todo EXCEPT ![t] = rest]
        /\ lost' = lost \cup (Unmarked(todo[t]) \ Unmarked(rest))
        /\ eptr' = eptr \cup ({x} \cap Jobs)
                        \cup {j \in Jobs : rest # <<>> /\ Head(rest)[1] = "sub" /\ Head(rest)[2] = j}

(* parallel_for: nothing to do, the function on this thread, or the pool *)
ParallelFor(t) ==
    /\ At(t, "for")
    /\ LET j == Arg(t)
           use_parallel == /\ Size[j] > Grain[j] /\ Size[j] > 1
                           /\ ~in_parallel_region(t) /\ get_num_threads > 1
           task(i) == <<"enqueue", j, i>>
       IN  IF Size[j] = 0
             THEN /\ Continue(t, <<>>)
                  /\ returned' = returned \cup {j}
                  /\ UNCHANGED left
           ELSE IF ~use_parallel
             THEN Continue(t, <<<<"inline", j>>>>) /\ UNCHANGED <<left, returned>>
           ELSE /\ left' = [left EXCEPT ![j] = NumTasks(j)]
                /\ Continue(t, [i \in 1 .. NumTasks(j) - 1 |-> task(i)]
                                 \o <<<<"chunk", j, 0>>, <<"join", j>>, <<"return", j>>>>)
                /\ UNCHANGED returned
    /\ UNCHANGED <<poolState, asleep, futureState, eptr, ran, early, lost>>

(* use_parallel is false *)
RunInline(t) ==
    /\ At(t, "inline")
    /\ returned' = returned \cup {Arg(t)}
    /\ \/ /\ CountRun(Arg(t), 0 .. Size[Arg(t)] - 1)
          /\ Continue(t, Body[Arg(t)])
          /\ UNCHANGED <<eptr, lost>>
       \/ Throws(t, Arg(t)) /\ UNCHANGED ran
    /\ UNCHANGED <<poolState, asleep, futureState, left, early>>

(* _run_with_pool gives chunk i to the pool *)
Enqueue(t) ==
    /\ At(t, "enqueue")
    /\ Run(<<<<"chunk", Arg(t), Head(todo[t])[3]>>>>)
    /\ Continue(t, <<>>)
    /\ UNCHANGED <<futureState, jobState>>

(* The task of invoke_parallel, up to its critical section *)
RunChunk(t) ==
    /\ At(t, "chunk")
    /\ LET j == Arg(t)
           i == Head(todo[t])[3]
           calls == IF i = 0 THEN Body[j] ELSE <<>>
       IN  IF Chunk(j, i) = {}
             THEN Continue(t, <<<<"sub", j, i>>>>) /\ UNCHANGED <<ran, eptr>>
           ELSE \/ /\ CountRun(j, Chunk(j, i))
                   /\ Continue(t, calls \o <<<<"sub", j, i>>>>)
                   /\ UNCHANGED eptr
                \/ /\ j \in MayThrow
                   /\ Continue(t, <<<<"sub", j, i>>>>)
                   /\ eptr' = eptr \cup {j}
                   /\ UNCHANGED ran
    /\ UNCHANGED <<poolState, asleep, futureState, left, returned, early, lost>>

(* The critical section at its end; once parallel_for returned, state is    *)
(* gone and what is read and written is undefined                           *)
ChunkDone(t) ==
    /\ At(t, "sub")
    /\ LET j == Arg(t)
       IN  IF j \in returned
             THEN UNCHANGED <<left, asleep>>
             ELSE /\ left' = [left EXCEPT ![j] = @ - 1]
                  /\ IF left[j] = 1 THEN NotifyOne(<<"joined", j>>) ELSE UNCHANGED asleep
    /\ Continue(t, <<>>)
    /\ UNCHANGED <<poolState, futureState, eptr, ran, returned, early, lost>>

(* Mutant: the chunks of the other threads are not waited for *)
JoinsNothing(t) ==
    /\ At(t, "join")
    /\ Continue(t, <<>>)
    /\ UNCHANGED <<poolState, asleep, futureState, jobState>>

(* "Wait for all tasks to finish": the condition is looked at once *)
Join(t) ==
    /\ At(t, "join")
    /\ IF left[Arg(t)] = 0
         THEN Continue(t, <<>>) /\ UNCHANGED asleep
         ELSE asleep' = asleep \cup {t} /\ Continue(t, <<<<"joined", Arg(t)>>>>)
    /\ UNCHANGED <<poolState, futureState, jobState>>

Joined(t) ==
    /\ At(t, "joined")
    /\ Continue(t, <<>>)
    /\ UNCHANGED <<poolState, asleep, futureState, jobState>>

(* cv.wait may return without a notification; nothing looks at remaining    *)
(* again (the other waits have a predicate and go back to sleep)            *)
SpuriousWakeUp(t) ==
    /\ t \in asleep /\ todo[t] # <<>> /\ Head(todo[t])[1] = "joined"
    /\ asleep' = asleep \ {t}
    /\ early' = early \cup {Arg(t)}
    /\ UNCHANGED <<poolState, todo, futureState, left, eptr, ran, returned, lost>>

(* parallel_for returns, or rethrows eptr to the program *)
Return(t) ==
    /\ At(t, "return")
    /\ returned' = returned \cup {Arg(t)}
    /\ Continue(t, <<>>)
    /\ UNCHANGED <<poolState, asleep, futureState, left, eptr, ran, early, lost>>

-----------------------------------------------------------------------------
(* intraop_launch_future: the pool runs the function and completes the      *)
(* future, or this thread does                                              *)
Launch(t) ==
    /\ At(t, "launch")
    /\ LET f == Arg(t)
           task == <<<<"func", f>>, <<"mark", f, "value">>>>
       IN  /\ IF in_parallel_region(t) \/ get_num_threads = 1
                THEN Continue(t, task) /\ UNCHANGED <<poolState, asleep>>
                ELSE Run(task) /\ Continue(t, <<>>)
           /\ made' = made \cup {f}
    /\ UNCHANGED <<result, callbacks, remaining, misuse, jobState>>

CallFunc(t) ==
    /\ At(t, "func")
    /\ \/ Continue(t, Body[Arg(t)]) /\ UNCHANGED <<eptr, lost>>
       \/ Throws(t, Arg(t))
    /\ UNCHANGED <<poolState, asleep, futureState, left, ran, returned, early>>

(* A main completes a future of its own, with a value or an error *)
Fulfil(t) ==
    /\ At(t, "fulfil")
    /\ \E res \in {"value", "error"} : Continue(t, <<<<"mark", Arg(t), res>>>>)
    /\ UNCHANGED <<poolState, asleep, futureState, jobState>>

-----------------------------------------------------------------------------
Init ==
    /\ PoolInit /\ FutureInit
    /\ \E p \in Programs : todo = [t \in Threads |-> IF t \in Mains THEN p[t] ELSE <<>>]
    /\ left = [j \in Jobs |-> 0]
    /\ eptr = {} /\ returned = {} /\ early = {} /\ lost = {}
    /\ ran = [j \in Jobs |-> [x \in 0 .. Size[j] - 1 |-> 0]]

Step(t) ==
    \/ (PoolStep(t) /\ UNCHANGED <<futureState, jobState>>)
    \/ (FutureStep(t) /\ UNCHANGED jobState)
    \/ ParallelFor(t) \/ RunInline(t) \/ Enqueue(t) \/ RunChunk(t) \/ ChunkDone(t)
    \/ Join(t) \/ Joined(t) \/ Return(t)
    \/ Launch(t) \/ CallFunc(t) \/ Fulfil(t)

Wake(w) == WorkerWakes(w) /\ UNCHANGED <<futureState, jobState>>

Next ==
    \/ \E t \in Threads : Step(t)
    \/ \E w \in Workers : Wake(w)
    \/ \E t \in Mains : SpuriousWakeUp(t)

(* Threads that can run are run *)
Fairness ==
    /\ \A t \in Threads : WF_vars(Step(t))
    /\ \A w \in Workers : WF_vars(Wake(w))

Spec == Init /\ [][Next]_vars /\ Fairness

-----------------------------------------------------------------------------
(* A chunk of job j is in the queue or on a thread *)
Pending(j) ==
    \/ \E n \in DOMAIN tasks : \E k \in DOMAIN tasks[n] : tasks[n][k][1] = "chunk" /\ tasks[n][k][2] = j
    \/ \E t \in Threads : \E n \in DOMAIN todo[t] :
          todo[t][n][1] \in {"enqueue", "chunk", "sub"} /\ todo[t][n][2] = j

(* parallel_for calls the function at most once on every index, whatever    *)
(* the number of threads, the grain and the nesting.  As long as its wait   *)
(* was not woken spuriously, no chunk, which refers to the caller's stack,  *)
(* is queued or running when it returns ("Wait for all tasks to finish",    *)
(* invoke_parallel), and if it returns normally every index was done        *)
EveryIndexOnce ==
    \A j \in Jobs :
        /\ \A x \in DOMAIN ran[j] : ran[j][x] <= 1
        /\ j \in returned \ early => ~Pending(j)
        /\ j \in returned \ (early \cup eptr) => \A x \in DOMAIN ran[j] : ran[j][x] = 1

(* ThreadPool::complete_, kept by run and main_loop, is true exactly when   *)
(* no task is queued or running, so waitWorkComplete neither returns early  *)
(* nor waits for a notification that does not come                          *)
CompleteIsExact ==
    complete <=> tasks = <<>> /\ \A w \in Workers : todo[w] = <<>>

(* collectAll: the future has a value only when every source has one, an    *)
(* error only when a source has one, and however the callbacks of its       *)
(* sources interleave nobody completes a future twice (markCompleted's and  *)
(* setError's checks throw)                                                 *)
CollectAllIsRight ==
    /\ ~misuse
    /\ \A a \in {f \in Futures : Kind[f] = "all"} :
          /\ result[a] = "value" =>
                \A i \in DOMAIN Sources[a] : result[Sources[a][i]] = "value"
          /\ result[a] = "error" =>
                \E i \in DOMAIN Sources[a] : result[Sources[a][i]] = "error"

(* Every call of the program returns: parallel_for nested in a task of the  *)
(* pool or in a chunk does not wait for the pool it runs on, no wake-up of  *)
(* a future, of waitWorkComplete or of a join is lost, and the pool's       *)
(* destructor ends every worker; unless a launched function threw, whose    *)
(* future nobody completes                                                  *)
EveryCallReturns == <>(lost # {} \/ \A m \in Mains : todo[m] = <<>>)
=============================================================================
