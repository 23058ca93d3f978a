------------------------------ MODULE GradMode ------------------------------
(***************************************************************************)
(* GoTorch's NoGrad, EnableGrad and WithNoGrad over libtorch's grad mode.   *)
(*                                                                          *)
(* libtorch keeps the grad mode in thread-local storage; Go code runs in    *)
(* goroutines, and the Go scheduler may move a goroutine to another OS      *)
(* thread between any two cgo calls unless the goroutine called             *)
(* runtime.LockOSThread.  Each call of the C API is one step, on the thread *)
(* the goroutine happens to run on.                                         *)
(***************************************************************************)
EXTENDS Integers, Sequences, FiniteSets

CONSTANTS
    Goroutines, OSThreads,
    None,           \* not running
    Locked,         \* the goroutines that called runtime.LockOSThread
    MaxNesting      \* bound on nested calls of WithNoGrad

ASSUME GradModeAssumption ==
    /\ Locked \subseteq Goroutines /\ None \notin OSThreads
    /\ IsFiniteSet(Goroutines) /\ IsFiniteSet(OSThreads) /\ MaxNesting \in Nat

VARIABLES
    grad_mode,  \* grad_mode[t]: AutogradState's grad_mode of thread t
    on,         \* on[g]: the thread goroutine g runs on, or None
    home,       \* home[g]: the thread g is locked to, or None
    pc,         \* "user", "enter" (was is read), "body" or "unwind" (a panic)
    was,        \* was[g]: the saved modes of the WithNoGrad calls g is in
    wanted,     \* history: wanted[g], the mode g last chose outside WithNoGrad
    turnedOn    \* history: turnedOn[g], for the code outside WithNoGrad and each function
                \* g is in, whether gradients were switched on inside a WithNoGrad there

vars == <<grad_mode, on, home, pc, was, wanted, turnedOn>>

-----------------------------------------------------------------------------
(* The Go scheduler.  A locked goroutine has its thread for itself. *)
Schedule(g, t) ==
    /\ on[g] = None
    /\ \A h \in Goroutines \ {g} : on[h] # t /\ home[h] # t
    /\ home[g] \in {None, t}
    /\ on' = [on EXCEPT ![g] = t]
    /\ home' = [home EXCEPT ![g] = IF g \in Locked THEN t ELSE None]
    /\ wanted' = [wanted EXCEPT
          ![g] = IF g \in Locked /\ home[g] = None THEN grad_mode[t] ELSE @]
    /\ UNCHANGED <<grad_mode, pc, was, turnedOn>>

Preempt(g) ==
    /\ on[g] # None
    /\ on' = [on EXCEPT ![g] = None]
    /\ UNCHANGED <<grad_mode, home, pc, was, wanted, turnedOn>>

Running(g) == on[g] # None

IsGradEnabled(g) == grad_mode[on[g]]

set_grad_enabled(g, enabled) == grad_mode' = [grad_mode EXCEPT ![on[g]] = enabled]

Inside(g) == turnedOn[g][Len(turnedOn[g])]

(* NoGrad() and EnableGrad(): outside WithNoGrad, in the function given to  *)
(* it, and in a deferred call of that function while it panics              *)
Choose(g, b) ==
    /\ Running(g) /\ pc[g] # "enter"
    /\ set_grad_enabled(g, b)
    /\ wanted' = [wanted EXCEPT ![g] = IF pc[g] = "user" THEN b ELSE @]
    /\ turnedOn' = [turnedOn EXCEPT ![g][Len(turnedOn[g])] = b /\ pc[g] # "user"]
    /\ UNCHANGED <<on, home, pc, was>>

NoGrad(g) == Choose(g, FALSE)
EnableGrad(g) == Choose(g, TRUE)

(* WithNoGrad(fn): was := IsGradEnabled(); also from inside fn *)
WithNoGrad(g) ==
    /\ Running(g) /\ pc[g] \in {"user", "body"}
    /\ Len(was[g]) < MaxNesting
    /\ was' = [was EXCEPT ![g] = Append(@, IsGradEnabled(g))]
    /\ turnedOn' = [turnedOn EXCEPT ![g] = Append(@, FALSE)]
    /\ pc' = [pc EXCEPT ![g] = "enter"]
    /\ UNCHANGED <<grad_mode, on, home, wanted>>

(* ... NoGrad(), and fn starts *)
Disable(g) ==
    /\ Running(g) /\ pc[g] = "enter"
    /\ set_grad_enabled(g, FALSE)
    /\ pc' = [pc EXCEPT ![g] = "body"]
    /\ UNCHANGED <<on, home, was, wanted, turnedOn>>

(* fn panics: the deferred functions run, innermost first; whoever called   *)
(* the outermost WithNoGrad recovers, if no function in between does        *)
Panic(g) ==
    /\ Running(g) /\ pc[g] = "body"
    /\ pc' = [pc EXCEPT ![g] = "unwind"]
    /\ UNCHANGED <<grad_mode, on, home, was, wanted, turnedOn>>

Recover(g) ==
    /\ Running(g) /\ pc[g] = "unwind"
    /\ pc' = [pc EXCEPT ![g] = "body"]
    /\ UNCHANGED <<grad_mode, on, home, was, wanted, turnedOn>>

(* Mutant: the mode is always switched on again *)
RestoresAlways(saved) == TRUE

(* if was { EnableGrad() } *)
Restores(saved) == saved

(* Mutant: not deferred, so a panic skips it *)
RestoreIfReturned(g) == pc[g] = "body"

(* defer: on return and on panic *)
Deferred(g) == pc[g] \in {"body", "unwind"}

(* A function that leaves gradients on leaves them on for whoever called    *)
(* WithNoGrad, also where they were off before: nothing switches them off   *)
Restore(g) ==
    LET n == Len(was[g])
        saved == was[g][n]
        outer == SubSeq(was[g], 1, n - 1)
    IN  /\ Running(g) /\ pc[g] \in {"body", "unwind"}
        /\ was' = [was EXCEPT ![g] = outer]
        /\ turnedOn' = [turnedOn EXCEPT
              ![g] = [i \in 1 .. n |-> @[i] \/ (i = n /\ @[n + 1])]]
        /\ pc' = [pc EXCEPT ![g] = IF outer = <<>> THEN "user" ELSE @]
        /\ IF Deferred(g) /\ Restores(saved)
             THEN set_grad_enabled(g, TRUE) ELSE UNCHANGED grad_mode
        /\ UNCHANGED <<on, home, wanted>>

-----------------------------------------------------------------------------
Init ==
    /\ grad_mode = [t \in OSThreads |-> TRUE]
    /\ on = [g \in Goroutines |-> None]
    /\ home = [g \in Goroutines |-> None]
    /\ pc = [g \in Goroutines |-> "user"]
    /\ was = [g \in Goroutines |-> <<>>]
    /\ wanted = [g \in Goroutines |-> TRUE]
    /\ turnedOn = [g \in Goroutines |-> <<FALSE>>]

Next ==
    \E g \in Goroutines :
        \/ \E t \in OSThreads : Schedule(g, t)
        \/ Preempt(g) \/ NoGrad(g) \/ EnableGrad(g)
        \/ WithNoGrad(g) \/ Disable(g) \/ Panic(g) \/ Recover(g) \/ Restore(g)

Spec == Init /\ [][Next]_vars

-----------------------------------------------------------------------------
(* Inside the function given to WithNoGrad the grad mode is off, at every   *)
(* operation it calls, unless it switched the mode on itself, or left it on *)
(* in a WithNoGrad of its own.                                              *)
OffInside(g) == Running(g) /\ pc[g] = "body" /\ IsGradEnabled(g) => Inside(g)

(* After WithNoGrad the mode is what it was before: outside, the one that   *)
(* was chosen there, and in a function that calls WithNoGrad again the one  *)
(* it chose.  There is one exception, which torch.no_grad() does not have:  *)
(* if the mode was off before and the function given to WithNoGrad left it  *)
(* on, it stays on.                                                         *)
Restored(g) ==
    /\ Running(g) /\ pc[g] = "user" => IsGradEnabled(g) = (wanted[g] \/ turnedOn[g][1])
    /\ Running(g) /\ pc[g] = "body" /\ Inside(g) => IsGradEnabled(g)

(* A goroutine locked to its OS thread gets this from WithNoGrad, whatever  *)
(* goroutines that are not locked do: with nested calls, panics, and calls  *)
(* of NoGrad and EnableGrad inside the function.                            *)
LockedIsOffInside == \A g \in Locked : OffInside(g)
LockedIsRestored == \A g \in Locked : Restored(g)

(* What the test of WithNoGrad says of every goroutine: "grad should be     *)
(* disabled inside WithNoGrad".                                             *)
AlwaysOffInside == \A g \in Goroutines : OffInside(g)
=============================================================================
