---------------------------- MODULE IntrusivePtr ----------------------------
(***************************************************************************)
(* c10::intrusive_ptr and weak_intrusive_ptr: the two reference counts in   *)
(* one atomic word by which every tensor, storage and future is freed.      *)
(*                                                                          *)
(* One object, the pointer variables (Refs) of a program that may refer to  *)
(* it, and the threads that copy, lock and reset them.  Every access to the *)
(* atomic word is one step.  A program does not touch a pointer variable    *)
(* while another thread writes it; a variable handed from one thread to     *)
(* another (a move, release and reclaim) keeps its count, so any thread may *)
(* work on any variable nobody else works on.                               *)
(*                                                                          *)
(* The halves of the word do not overflow into each other below 2^32        *)
(* references and are two variables here.  The PyObject bit is left out.    *)
(***************************************************************************)
EXTENDS Integers, FiniteSets

CONSTANTS Threads, Refs, None

ASSUME RefsAssumption == IsFiniteSet(Refs) /\ Refs # {} /\ None \notin Refs

VARIABLES
    refcount, weakcount,    \* combined_refcount_
    kind,       \* kind[r]: what pointer variable r is, "null", "strong" or "weak"
    pc,         \* pc[t]: "idle", or what the thread does next to the word or the object
    op,         \* op[t]: the pointer variable the thread works on, or None
    seen,       \* seen[t]: the word lock() loaded
    released,   \* release_resources() was called
    deleted     \* the object was deleted

counts == <<refcount, weakcount>>
vars == <<counts, kind, pc, op, seen, released, deleted>>

Holding(k) == {r \in Refs : kind[r] = k}
InUse(r) == \E t \in Threads : op[t] = r
Word == [refcount |-> refcount, weakcount |-> weakcount]

(* Thread t goes on with step p of its work on variable r *)
Goto(t, p, r) == pc' = [pc EXCEPT ![t] = p] /\ op' = [op EXCEPT ![t] = r]

-----------------------------------------------------------------------------
(* The copy constructors, which call retain_: `from` may be in use by a     *)
(* lock(), which only reads it, but not by a reset.                         *)
Readable(r) == \A t \in Threads : op[t] = r => pc[t] = "cas"

Empty(r) == kind[r] = "null" /\ ~InUse(r)

CopyStrong(t, from, to) ==
    /\ pc[t] = "idle" /\ kind[from] = "strong" /\ Readable(from) /\ Empty(to)
    /\ refcount' = refcount + 1
    /\ kind' = [kind EXCEPT ![to] = "strong"]
    /\ UNCHANGED <<weakcount, pc, op, seen, released, deleted>>

(* A weak pointer is made from a strong or from another weak one *)
MakeWeak(t, from, to) ==
    /\ pc[t] = "idle" /\ kind[from] # "null" /\ Readable(from) /\ Empty(to)
    /\ weakcount' = weakcount + 1
    /\ kind' = [kind EXCEPT ![to] = "weak"]
    /\ UNCHANGED <<refcount, pc, op, seen, released, deleted>>

-----------------------------------------------------------------------------
(* Mutant: weak references are not looked at *)
is_last_strong == refcount = 1

is_uniquely_owned == refcount = 1 /\ weakcount = 1

(* intrusive_ptr::reset_not_null_, from the load to the choice it makes *)
Reset(t, r) ==
    /\ pc[t] = "idle" /\ kind[r] = "strong" /\ ~InUse(r)
    /\ Goto(t, IF is_uniquely_owned THEN "store" ELSE "sub", r)
    /\ UNCHANGED <<counts, kind, seen, released, deleted>>

(* The only reference: the word is overwritten, then the object deleted *)
StoreZero(t) ==
    /\ pc[t] = "store"
    /\ refcount' = 0 /\ weakcount' = 0
    /\ kind' = [kind EXCEPT ![op[t]] = "null"]
    /\ Goto(t, "delete", None)
    /\ UNCHANGED <<seen, released, deleted>>

(* Where reset_not_null_ goes when fetch_sub left rc and wc *)
AfterSub(rc, wc) ==
    IF rc # 0 THEN "idle" ELSE IF wc = 1 THEN "delete" ELSE "release"

Decrement(t) ==
    /\ pc[t] = "sub"
    /\ refcount' = refcount - 1
    /\ kind' = [kind EXCEPT ![op[t]] = "null"]
    /\ Goto(t, AfterSub(refcount - 1, weakcount), None)
    /\ UNCHANGED <<weakcount, seen, released, deleted>>

ReleaseResources(t) ==
    /\ pc[t] = "release"
    /\ released' = TRUE
    /\ Goto(t, "weaksub", None)
    /\ UNCHANGED <<counts, kind, seen, deleted>>

(* Mutant: the count is compared before it is decremented *)
AfterWeakSubLate(wc) == IF wc + 1 = 0 THEN "delete" ELSE "idle"

AfterWeakSub(wc) == IF wc = 0 THEN "delete" ELSE "idle"

DecrementWeak(t) ==
    /\ pc[t] = "weaksub"
    /\ weakcount' = weakcount - 1
    /\ Goto(t, AfterWeakSub(weakcount - 1), None)
    /\ UNCHANGED <<refcount, kind, seen, released, deleted>>

(* weak_intrusive_ptr::reset_ *)
ResetWeak(t, r) ==
    /\ pc[t] = "idle" /\ kind[r] = "weak" /\ ~InUse(r)
    /\ weakcount' = weakcount - 1
    /\ kind' = [kind EXCEPT ![r] = "null"]
    /\ Goto(t, AfterWeakSub(weakcount - 1), None)
    /\ UNCHANGED <<refcount, seen, released, deleted>>

Delete(t) ==
    /\ pc[t] = "delete"
    /\ deleted' = TRUE
    /\ Goto(t, "idle", None)
    /\ UNCHANGED <<counts, kind, seen, released>>

-----------------------------------------------------------------------------
(* weak_intrusive_ptr::lock: the loop, at its head with the word just read, *)
(* returns nothing if no strong reference is left                           *)
LoopHead(t, r) ==
    /\ seen' = [seen EXCEPT ![t] = Word]
    /\ IF refcount = 0 THEN Goto(t, "idle", None) ELSE Goto(t, "cas", r)

Lock(t, r) ==
    /\ pc[t] = "idle" /\ kind[r] = "weak" /\ Readable(r)
    /\ LoopHead(t, r)
    /\ UNCHANGED <<counts, kind, released, deleted>>

(* Mutant: a plain store *)
AnyWord(t) == TRUE

Unchanged(t) == seen[t] = Word

CompareExchange(t, to) ==
    /\ pc[t] = "cas" /\ Unchanged(t) /\ Empty(to)
    /\ refcount' = seen[t].refcount + 1 /\ weakcount' = seen[t].weakcount
    /\ kind' = [kind EXCEPT ![to] = "strong"]
    /\ Goto(t, "idle", None)
    /\ UNCHANGED <<seen, released, deleted>>

(* compare_exchange_weak may also fail when the word did not change *)
CompareExchangeFails(t) ==
    /\ pc[t] = "cas"
    /\ LoopHead(t, op[t])
    /\ UNCHANGED <<counts, kind, released, deleted>>

-----------------------------------------------------------------------------
(* make_intrusive: one strong reference, and kUniqueRef in the word *)
Init ==
    /\ refcount = 1 /\ weakcount = 1
    /\ \E r \in Refs : kind = [s \in Refs |-> IF s = r THEN "strong" ELSE "null"]
    /\ pc = [t \in Threads |-> "idle"]
    /\ op = [t \in Threads |-> None]
    /\ seen = [t \in Threads |-> Word]
    /\ released = FALSE /\ deleted = FALSE

Call(t) ==
    \/ \E r, s \in Refs : CopyStrong(t, r, s) \/ MakeWeak(t, r, s)
    \/ \E r \in Refs : Reset(t, r) \/ ResetWeak(t, r) \/ Lock(t, r)

Continue(t) ==
    \/ StoreZero(t) \/ Decrement(t) \/ ReleaseResources(t) \/ DecrementWeak(t) \/ Delete(t)
    \/ CompareExchangeFails(t) \/ \E r \in Refs : CompareExchange(t, r)

Terminating == deleted /\ UNCHANGED vars

Next == (\E t \in Threads : Call(t) \/ Continue(t)) \/ Terminating

Spec == Init /\ [][Next]_vars

-----------------------------------------------------------------------------
(* Threads that dropped the last strong reference and still owe the word    *)
(* the weak reference that all strong ones share                            *)
Owing == {t \in Threads : pc[t] \in {"release", "weaksub"}}

Gone == deleted \/ \E t \in Threads : pc[t] = "delete"

(* Note [Weak references for intrusive refcounting], for every interleaving *)
(* of copies, resets and locks: refcount is the number of strong            *)
(* references, weakcount that of the weak ones plus one as long as there    *)
(* is a strong reference or a thread is still releasing the resources.      *)
CountsAreExact ==
    /\ refcount = Cardinality(Holding("strong"))
    /\ ~Gone => weakcount = Cardinality(Holding("weak"))
                            + (IF refcount > 0 THEN 1 ELSE Cardinality(Owing))

(* Nothing is used after it was freed: while there is a pointer to the      *)
(* object, or a thread about to touch it, the object is there, and while    *)
(* there is a strong one its resources are too; one thread deletes it, and  *)
(* lock() never brings a dead object back.                                  *)
NoUseAfterFree ==
    /\ \A r \in Refs : kind[r] # "null" => ~Gone
    /\ \A r \in Refs : kind[r] = "strong" => ~released /\ Owing = {}
    /\ \A t \in Threads : pc[t] # "idle" => ~deleted
    /\ \A t, u \in Threads : pc[t] = "delete" /\ pc[u] # "idle" => t = u

(* Nothing leaks: when the last pointer is gone and no thread is in the     *)
(* middle of a reset, the object was deleted.                               *)
NothingLeaks ==
    (\A r \in Refs : kind[r] = "null") /\ (\A t \in Threads : pc[t] = "idle") => deleted
=============================================================================
