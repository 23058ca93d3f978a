------------------------------- MODULE Future -------------------------------
(***************************************************************************)
(* c10::ivalue::Future: wait, markCompleted, setError, addCallback, then,   *)
(* and collectAll.  A callback is named <<f, i>>: f is the future it        *)
(* completes, a child made by then() or the destination of collectAll, and  *)
(* it is added to the i-th source of f.  Callbacks run on the thread that   *)
(* completes the source, or, added too late, on the thread that adds them.  *)
(* Values are left out; so are the devices and events of a future with      *)
(* tensors of an accelerator.                                               *)
(***************************************************************************)
EXTENDS ThreadPool

CONSTANTS
    Futures,
    Kind,       \* Kind[f]: "launch", "promise", "then" or "all"
    Sources     \* Sources[f]: the futures a "then" or an "all" is made of

ASSUME FutureAssumption ==
    /\ Kind \in [Futures -> {"launch", "promise", "then", "all"}]
    /\ Sources \in [Futures -> Seq(Futures)]
    /\ \A f \in Futures : Kind[f] = "then" => Len(Sources[f]) = 1

VARIABLES
    made,       \* the futures that exist
    result,     \* result[f]: "none" until completed_, then "value" or "error"
    callbacks,  \* callbacks_, by name
    remaining,  \* remaining of collectAll's Ctx
    misuse      \* a completed future was to be completed again

futureState == <<made, result, callbacks, remaining, misuse>>

-----------------------------------------------------------------------------
(* wait, on a future some thread made and handed over; the condition is     *)
(* checked with the lock held                                               *)
FutureWait(t) ==
    /\ At(t, "wait") /\ Arg(t) \in made
    /\ IF result[Arg(t)] # "none" THEN Continue(t, <<>>) /\ UNCHANGED asleep ELSE Sleep(t)
    /\ UNCHANGED <<poolState, futureState>>

Calls(f) == [i \in 1 .. Len(callbacks[f]) |-> <<"call", callbacks[f][i]>>]

(* The end of markCompleted and of setErrorInternal: the callbacks are      *)
(* taken with the lock held and called after the waiting threads are woken  *)
TakeCallbacks(t, f) ==
    /\ callbacks' = [callbacks EXCEPT ![f] = <<>>]
    /\ Continue(t, <<<<"notify", f>>>> \o Calls(f))

(* markCompleted and setError *)
Mark(t) ==
    /\ At(t, "mark")
    /\ LET f == Arg(t)
           res == Head(todo[t])[3]
       IN  IF result[f] # "none"
             THEN misuse' = TRUE /\ Continue(t, <<>>) /\ UNCHANGED <<result, callbacks>>
             ELSE /\ result' = [result EXCEPT ![f] = res]
                  /\ TakeCallbacks(t, f)
                  /\ UNCHANGED misuse
    /\ UNCHANGED <<poolState, asleep, made, remaining>>

SetErrorIfNeeded(t) ==
    /\ At(t, "error_if_needed")
    /\ LET f == Arg(t)
       IN  IF result[f] # "none" THEN Continue(t, <<>>) /\ UNCHANGED <<result, callbacks>>
           ELSE result' = [result EXCEPT ![f] = "error"] /\ TakeCallbacks(t, f)
    /\ UNCHANGED <<poolState, asleep, made, remaining, misuse>>

WakeWaiting(f) == NotifyAll(<<"wait", f>>)

Notify(t) ==
    /\ At(t, "notify")
    /\ WakeWaiting(Arg(t))
    /\ Continue(t, <<>>)
    /\ UNCHANGED <<poolState, futureState>>

(* The future a callback is added to *)
Source(callback) == Sources[callback[1]][callback[2]]

AddCallback(t) ==
    /\ At(t, "add")
    /\ LET f == Source(Arg(t))
       IN  IF result[f] # "none"
             THEN Continue(t, <<<<"call", Arg(t)>>>>) /\ UNCHANGED callbacks
             ELSE /\ callbacks' = [callbacks EXCEPT ![f] = Append(@, Arg(t))]
                  /\ Continue(t, <<>>)
    /\ UNCHANGED <<poolState, asleep, made, result, remaining, misuse>>

(* then()'s callback: the function returns a value or throws *)
CallThen(t) ==
    /\ At(t, "call") /\ Kind[Arg(t)[1]] = "then"
    /\ \E res \in {"value", "error"} : Continue(t, <<<<"mark", Arg(t)[1], res>>>>)
    /\ UNCHANGED <<poolState, asleep, futureState>>

(* Mutant: a failed source counts as well *)
CountsErrors(f) == TRUE

Counts(f) == result[f] # "error"

(* collectAll's callback: hasError, then the decrement of remaining, then   *)
(* completed() and markCompleted                                            *)
CallAll(t) ==
    /\ At(t, "call") /\ Kind[Arg(t)[1]] = "all"
    /\ LET dst == Arg(t)[1]
       IN  IF ~Counts(Source(Arg(t)))
             THEN Continue(t, <<<<"error_if_needed", dst>>>>) /\ UNCHANGED remaining
             ELSE /\ remaining' = [remaining EXCEPT ![dst] = @ - 1]
                  /\ Continue(t, IF remaining[dst] = 1 THEN <<<<"check", dst>>>> ELSE <<>>)
    /\ UNCHANGED <<poolState, asleep, made, result, callbacks, misuse>>

CheckCompleted(t) ==
    /\ At(t, "check")
    /\ Continue(t, IF result[Arg(t)] = "none" THEN <<<<"mark", Arg(t), "value">>>> ELSE <<>>)
    /\ UNCHANGED <<poolState, asleep, futureState>>

(* then() and collectAll: the new future, and its callback added to every   *)
(* source in turn; without a source collectAll's future is complete         *)
Adds(f) == [i \in 1 .. Len(Sources[f]) |-> <<"add", <<f, i>>>>]

MakeDependent(t) ==
    /\ At(t, "make")
    /\ \A i \in 1 .. Len(Sources[Arg(t)]) : Sources[Arg(t)][i] \in made
    /\ made' = made \cup {Arg(t)}
    /\ Continue(t, IF Sources[Arg(t)] = <<>> THEN <<<<"mark", Arg(t), "value">>>> ELSE Adds(Arg(t)))
    /\ UNCHANGED <<poolState, asleep, result, callbacks, remaining, misuse>>

FutureInit ==
    /\ made = {f \in Futures : Kind[f] = "promise"}
    /\ result = [f \in Futures |-> "none"]
    /\ callbacks = [f \in Futures |-> <<>>]
    /\ remaining = [f \in Futures |-> Len(Sources[f])]
    /\ misuse = FALSE

FutureStep(t) ==
    \/ FutureWait(t) \/ Mark(t) \/ SetErrorIfNeeded(t) \/ Notify(t) \/ AddCallback(t)
    \/ CallThen(t) \/ CallAll(t) \/ CheckCompleted(t) \/ MakeDependent(t)
=============================================================================
