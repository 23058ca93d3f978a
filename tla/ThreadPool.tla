----------------------------- MODULE ThreadPool -----------------------------
(***************************************************************************)
(* c10::ThreadPool, and the threads that run on it and wait for it.         *)
(*                                                                          *)
(* What a thread still has to do is a sequence of steps, todo[t]: a call    *)
(* replaces itself by the steps of its body, and a step that blocks stays   *)
(* at the head while the thread is in asleep.  A task of the pool is such a *)
(* sequence.  One critical section is one step.  A condition variable is    *)
(* named by the step that waits on it; a worker without a task waits on     *)
(* condition_.                                                              *)
(***************************************************************************)
EXTENDS Integers, Sequences, FiniteSets

CONSTANTS
    Mains,      \* the threads of the program
    Workers     \* threads_, the threads of the pool

ASSUME ThreadPoolAssumption == IsFiniteSet(Workers) /\ Mains \cap Workers = {}

Threads == Mains \cup Workers

VARIABLES
    tasks, running, complete, available,    \* tasks_, running_, complete_, available_
    exited,     \* the workers that left main_loop
    todo, asleep

poolState == <<tasks, running, complete, available, exited>>

-----------------------------------------------------------------------------
(* Thread t is about to do a step of this kind, and its argument *)
At(t, kind) == t \notin asleep /\ todo[t] # <<>> /\ Head(todo[t])[1] = kind
Arg(t) == Head(todo[t])[2]

(* The step at the head is over, and these steps come next *)
Continue(t, steps) == todo' = [todo EXCEPT ![t] = steps \o Tail(@)]

condition == <<"condition">>    \* condition_
completed == <<"complete">>     \* completed_

Waiting(cv) == {t \in asleep : (IF todo[t] = <<>> THEN condition ELSE Head(todo[t])) = cv}

(* The sets of threads that notify_one may wake up *)
OneOf(cv) == IF Waiting(cv) = {} THEN {{}} ELSE {{t} : t \in Waiting(cv)}

NotifyOne(cv) == \E woken \in OneOf(cv) : asleep' = asleep \ woken
NotifyAll(cv) == asleep' = asleep \ Waiting(cv)

Sleep(t) == asleep' = asleep \cup {t} /\ UNCHANGED todo

-----------------------------------------------------------------------------
(* ThreadPool::run *)
Run(task) ==
    /\ tasks' = Append(tasks, task)
    /\ complete' = FALSE
    /\ NotifyOne(condition)
    /\ UNCHANGED <<running, available, exited>>

(* main_loop from the loop condition, with the lock held, to the next task  *)
(* or to the wait; avail and awaited are available_ and the sleeping        *)
(* threads at that point                                                    *)
LoopHead(w, avail, awaited) ==
    IF ~running
      THEN /\ exited' = exited \cup {w}
           /\ todo' = [todo EXCEPT ![w] = <<>>]
           /\ asleep' = awaited /\ available' = avail
           /\ UNCHANGED tasks
    ELSE IF tasks = <<>>
      THEN /\ asleep' = awaited \cup {w}
           /\ todo' = [todo EXCEPT ![w] = <<>>]
           /\ available' = avail
           /\ UNCHANGED <<tasks, exited>>
    ELSE   /\ tasks' = Tail(tasks)
           /\ todo' = [todo EXCEPT ![w] = Append(Head(tasks), <<"finish">>)]
           /\ asleep' = awaited /\ available' = avail - 1
           /\ UNCHANGED exited

(* A worker starts, or wakes up on condition_ *)
WorkerWakes(w) ==
    /\ todo[w] = <<>> /\ w \notin asleep \cup exited
    /\ LoopHead(w, available, asleep)
    /\ UNCHANGED <<running, complete>>

(* Mutant: another worker may still be running its task *)
QueueIsEmpty(avail) == tasks = <<>>

AllDone(avail) == tasks = <<>> /\ avail = Cardinality(Workers)

(* After a task; the lock is held on the back edge *)
FinishTask(w) ==
    /\ At(w, "finish")
    /\ LET avail == available + 1
       IN  /\ complete' = (complete \/ AllDone(avail))
           /\ \E woken \in (IF AllDone(avail) THEN OneOf(completed) ELSE {{}}) :
                 LoopHead(w, avail, asleep \ woken)
    /\ UNCHANGED running

WaitWorkComplete(t) ==
    /\ At(t, "complete")
    /\ IF complete THEN Continue(t, <<>>) /\ UNCHANGED asleep ELSE Sleep(t)
    /\ UNCHANGED poolState

(* ThreadPool::~ThreadPool at the end of the program: tasks still queued    *)
(* are dropped, the workers are woken up and joined                         *)
Destroy(t) ==
    /\ At(t, "destroy")
    /\ \A m \in Mains \ {t} : todo[m] = <<>>
    /\ running' = FALSE
    /\ NotifyAll(condition)
    /\ Continue(t, <<<<"join_workers">>>>)
    /\ UNCHANGED <<tasks, complete, available, exited>>

JoinWorkers(t) ==
    /\ At(t, "join_workers") /\ exited = Workers
    /\ Continue(t, <<>>)
    /\ UNCHANGED <<poolState, asleep>>

PoolInit ==
    /\ tasks = <<>> /\ running = TRUE /\ complete = TRUE
    /\ available = Cardinality(Workers)
    /\ exited = {} /\ asleep = {}

PoolStep(t) == FinishTask(t) \/ WaitWorkComplete(t) \/ Destroy(t) \/ JoinWorkers(t)
=============================================================================
