------------------------- MODULE IntrusivePtrProofs -------------------------
(***************************************************************************)
(* Proofs about module IntrusivePtr, for every set of threads and every     *)
(* finite set of pointer variables: the counts are exact, nothing is used   *)
(* after it was freed, and nothing leaks.                                   *)
(***************************************************************************)
EXTENDS IntrusivePtr, FiniteSetTheorems, TLAPS

Strong == Holding("strong")
Weak == Holding("weak")

PCs == {"idle", "store", "sub", "release", "weaksub", "delete", "cas"}

TypeOK ==
    /\ refcount \in Int /\ weakcount \in Int
    /\ kind \in [Refs -> {"null", "strong", "weak"}]
    /\ pc \in [Threads -> PCs]
    /\ op \in [Threads -> Refs \cup {None}]
    /\ seen \in [Threads -> [refcount : Int, weakcount : Int]]
    /\ released \in BOOLEAN /\ deleted \in BOOLEAN

(* The counts, with the shared weak reference as a condition *)
Exact ==
    /\ refcount = Cardinality(Strong)
    /\ ~Gone => weakcount = Cardinality(Weak) + (IF Strong # {} \/ Owing # {} THEN 1 ELSE 0)

(* A reset has its strong pointer for itself, a lock() works on a weak one  *)
(* and saw a strong reference                                               *)
Working ==
    \A t \in Threads :
        /\ pc[t] \in {"store", "sub"} =>
              /\ op[t] \in Strong
              /\ \A u \in Threads : u # t => op[u] # op[t]
        /\ pc[t] = "cas" => op[t] \in Weak /\ seen[t].refcount > 0
        /\ pc[t] \notin {"store", "sub", "cas"} => op[t] = None

(* The thread that found the object uniquely owned has the only pointer *)
Unique == \A t \in Threads : pc[t] = "store" => Strong = {op[t]} /\ Weak = {}

(* One thread releases the resources, when no strong reference is left *)
Releasing ==
    /\ released \/ Owing # {} => Strong = {}
    /\ \A t, u \in Owing : t = u

(* One thread deletes, when no reference is left and everybody else is done *)
Deleting ==
    /\ Gone => Strong = {} /\ Weak = {}
    /\ deleted => \A t \in Threads : pc[t] = "idle"
    /\ \A t, u \in Threads : pc[t] = "delete" /\ u # t => pc[u] = "idle"
    /\ ~Gone => Strong \cup Weak # {} \/ Owing # {}

IInv == TypeOK /\ Exact /\ Working /\ Unique /\ Releasing /\ Deleting

-----------------------------------------------------------------------------
(* Counting *)

(* The set of pointers of a kind has a size. *)
LEMMA FiniteHoldings == IsFiniteSet(Strong) /\ IsFiniteSet(Weak)
  <1>1. Strong \in SUBSET Refs /\ Weak \in SUBSET Refs
    BY DEF Strong, Weak, Holding
  <1> QED BY <1>1, FS_Subset, RefsAssumption

(* A pointer more, a pointer less, none and one. *)
LEMMA Counting ==
  ASSUME NEW S, IsFiniteSet(S)
  PROVE  /\ Cardinality(S) \in Nat
         /\ \A x : x \notin S => Cardinality(S \cup {x}) = Cardinality(S) + 1
         /\ \A x \in S : Cardinality(S \ {x}) = Cardinality(S) - 1
         /\ Cardinality(S) = 0 <=> S = {}
         /\ \A x \in S : Cardinality(S) = 1 => S = {x}
  <1>1. Cardinality(S) \in Nat
    BY FS_CardinalityType
  <1>2. \A x : x \notin S => Cardinality(S \cup {x}) = Cardinality(S) + 1
    BY FS_AddElement
  <1>3. \A x \in S : Cardinality(S \ {x}) = Cardinality(S) - 1
    BY FS_RemoveElement
  <1>4. Cardinality(S) = 0 <=> S = {}
    BY FS_EmptySet
  <1>5. \A x \in S : Cardinality(S) = 1 => S = {x}
    BY FS_Singleton
  <1> QED BY <1>1, <1>2, <1>3, <1>4, <1>5

LEMMA CountingPointers ==
  /\ Cardinality(Strong) \in Nat /\ Cardinality(Weak) \in Nat
  /\ \A x : x \notin Strong => Cardinality(Strong \cup {x}) = Cardinality(Strong) + 1
  /\ \A x \in Strong : Cardinality(Strong \ {x}) = Cardinality(Strong) - 1
  /\ Cardinality(Strong) = 0 <=> Strong = {}
  /\ \A x \in Strong : Cardinality(Strong) = 1 => Strong = {x}
  /\ \A x : x \notin Weak => Cardinality(Weak \cup {x}) = Cardinality(Weak) + 1
  /\ \A x \in Weak : Cardinality(Weak \ {x}) = Cardinality(Weak) - 1
  /\ Cardinality(Weak) = 0 <=> Weak = {}
  /\ \A x \in Weak : Cardinality(Weak) = 1 => Weak = {x}
  BY FiniteHoldings, Counting

(* What an assignment to a pointer variable does to the sets of pointers. *)
LEMMA SetStrong ==
  ASSUME TypeOK, NEW r \in Refs, r \notin Weak, kind' = [kind EXCEPT ![r] = "strong"]
  PROVE  Strong' = Strong \cup {r} /\ Weak' = Weak
  BY DEF TypeOK, Strong, Weak, Holding

LEMMA SetWeak ==
  ASSUME TypeOK, NEW r \in Refs, r \notin Strong, kind' = [kind EXCEPT ![r] = "weak"]
  PROVE  Strong' = Strong /\ Weak' = Weak \cup {r}
  BY DEF TypeOK, Strong, Weak, Holding

LEMMA SetNull ==
  ASSUME TypeOK, NEW r \in Refs, kind' = [kind EXCEPT ![r] = "null"]
  PROVE  Strong' = Strong \ {r} /\ Weak' = Weak \ {r}
  BY DEF TypeOK, Strong, Weak, Holding

LEMMA SameKind ==
  ASSUME kind' = kind
  PROVE  Strong' = Strong /\ Weak' = Weak
  BY DEF Strong, Weak, Holding

LEMMA KindOf ==
  ASSUME TypeOK, NEW r \in Refs
  PROVE  /\ kind[r] = "strong" <=> r \in Strong
         /\ kind[r] = "weak" <=> r \in Weak
         /\ kind[r] = "null" <=> r \notin Strong \cup Weak
  BY DEF TypeOK, Strong, Weak, Holding

LEMMA GotoType ==
  ASSUME TypeOK, NEW t \in Threads, NEW p \in PCs, NEW r \in Refs \cup {None}, Goto(t, p, r)
  PROVE  pc' \in [Threads -> PCs] /\ op' \in [Threads -> Refs \cup {None}]
  BY DEF TypeOK, Goto

-----------------------------------------------------------------------------
LEMMA InitIInv == Init => IInv
  <1> SUFFICES ASSUME Init PROVE IInv
    OBVIOUS
  <1>0. PICK r \in Refs : kind = [s \in Refs |-> IF s = r THEN "strong" ELSE "null"]
    BY DEF Init
  <1>1. TypeOK
    <2>1. kind \in [Refs -> {"null", "strong", "weak"}]
      BY <1>0
    <2>2. pc \in [Threads -> PCs] /\ op \in [Threads -> Refs \cup {None}]
      BY DEF Init, PCs
    <2>3. seen \in [Threads -> [refcount : Int, weakcount : Int]]
      BY DEF Init, Word
    <2>4. refcount \in Int /\ weakcount \in Int
      BY DEF Init
    <2>5. released \in BOOLEAN /\ deleted \in BOOLEAN
      BY Zenon DEF Init
    <2> QED BY <2>1, <2>2, <2>3, <2>4, <2>5 DEF TypeOK
  <1>2. Strong = {r} /\ Weak = {} /\ Owing = {} /\ ~Gone
    BY <1>0 DEF Init, Strong, Weak, Holding, Owing, Gone
  <1>3. Exact
    BY <1>2, FS_Singleton, FS_EmptySet DEF Init, Exact
  <1>4. Working /\ Unique
    BY DEF Init, Working, Unique
  <1>5. Releasing /\ Deleting
    BY <1>2 DEF Init, Releasing, Deleting
  <1> QED BY <1>1, <1>3, <1>4, <1>5 DEF IInv

(* A copy of a strong pointer. *)
LEMMA CopyStrongIInv ==
  ASSUME IInv, NEW t \in Threads, NEW from \in Refs, NEW to \in Refs, CopyStrong(t, from, to)
  PROVE  IInv'
  <1> USE DEF IInv
  <1>1. from \in Strong /\ to \notin Strong \cup Weak
    BY KindOf DEF CopyStrong, Empty
  <1>2. Strong' = Strong \cup {to} /\ Weak' = Weak
    BY <1>1, SetStrong DEF CopyStrong
  <1>3. Owing' = Owing /\ Gone' = Gone /\ Owing = {} /\ ~Gone
    BY <1>1 DEF CopyStrong, Owing, Gone, Releasing, Deleting
  <1>4. TypeOK'
    BY DEF CopyStrong, TypeOK
  <1>5. Exact'
    BY <1>1, <1>2, <1>3, CountingPointers DEF CopyStrong, Exact
  <1>6. Working'
    BY <1>2 DEF CopyStrong, Working
  <1>7. \A u \in Threads : pc[u] # "store"
    BY <1>1 DEF CopyStrong, Unique, Readable
  <1>8. Unique'
    BY <1>7 DEF CopyStrong, Unique
  <1>9. Releasing' /\ Deleting'
    BY <1>1, <1>2, <1>3 DEF CopyStrong, Releasing, Deleting
  <1> QED BY <1>4, <1>5, <1>6, <1>8, <1>9

(* A new weak pointer. *)
LEMMA MakeWeakIInv ==
  ASSUME IInv, NEW t \in Threads, NEW from \in Refs, NEW to \in Refs, MakeWeak(t, from, to)
  PROVE  IInv'
  <1> USE DEF IInv
  <1>1. from \in Strong \cup Weak /\ to \notin Strong \cup Weak
    BY KindOf DEF MakeWeak, Empty
  <1>2. Strong' = Strong /\ Weak' = Weak \cup {to}
    BY <1>1, SetWeak DEF MakeWeak
  <1>3. Owing' = Owing /\ Gone' = Gone /\ ~Gone
    BY <1>1 DEF MakeWeak, Owing, Gone, Deleting
  <1>4. TypeOK'
    BY DEF MakeWeak, TypeOK
  <1>5. Exact'
    BY <1>1, <1>2, <1>3, CountingPointers DEF MakeWeak, Exact, TypeOK
  <1>6. Working'
    BY <1>2 DEF MakeWeak, Working
  <1>7. \A u \in Threads : pc[u] # "store"
    BY <1>1 DEF MakeWeak, Unique, Readable
  <1>8. Unique'
    BY <1>7 DEF MakeWeak, Unique
  <1>9. Releasing' /\ Deleting'
    BY <1>1, <1>2, <1>3 DEF MakeWeak, Releasing, Deleting
  <1> QED BY <1>4, <1>5, <1>6, <1>8, <1>9

(* The load of reset_not_null_: who finds both counts at 1 is alone. *)
LEMMA ResetIInv ==
  ASSUME IInv, NEW t \in Threads, NEW r \in Refs, Reset(t, r)
  PROVE  IInv'
  <1> USE DEF IInv
  <1> DEFINE p == IF is_uniquely_owned THEN "store" ELSE "sub"
  <1>1. r \in Strong /\ \A u \in Threads : op[u] # r
    BY KindOf DEF Reset, InUse
  <1>2. Strong' = Strong /\ Weak' = Weak
    BY SameKind DEF Reset
  <1>3. Owing = {} /\ ~Gone /\ Owing' = {} /\ ~Gone'
    <2>1. Owing = {} /\ ~Gone
      BY <1>1 DEF Releasing, Deleting
    <2> QED BY <2>1 DEF Reset, Goto, TypeOK, Owing, Gone
  <1>4. TypeOK'
    <2>1. pc' \in [Threads -> PCs] /\ op' \in [Threads -> Refs \cup {None}]
      BY GotoType DEF Reset, PCs
    <2> QED BY <2>1 DEF Reset, counts, TypeOK
  <1>5. Exact'
    BY <1>2, <1>3 DEF Reset, counts, Exact
  <1>6. Working'
    BY <1>1, <1>2 DEF Reset, Goto, Working, TypeOK
  <1>7. Unique'
    <2>1. is_uniquely_owned => Strong = {r} /\ Weak = {}
      BY <1>1, <1>3, CountingPointers DEF is_uniquely_owned, Exact
    <2> QED BY <1>2, <2>1 DEF Reset, Goto, Unique, TypeOK
  <1>8. Releasing' /\ Deleting'
    BY <1>1, <1>2, <1>3 DEF Reset, Goto, Releasing, Deleting, TypeOK, Gone
  <1> QED BY <1>4, <1>5, <1>6, <1>7, <1>8

(* The thread that overwrites the word is the only one at work. *)
LEMMA StoreZeroIInv ==
  ASSUME IInv, NEW t \in Threads, StoreZero(t)
  PROVE  IInv'
  <1> USE DEF IInv
  <1>1. op[t] \in Strong /\ Strong = {op[t]} /\ Weak = {} /\ op[t] \in Refs
    BY DEF StoreZero, Working, Unique, Strong, Holding
  <1>2. Owing = {} /\ ~Gone
    BY <1>1 DEF Releasing, Deleting
  <1>3. \A u \in Threads : u # t => pc[u] = "idle"
    BY <1>1, <1>2 DEF TypeOK, PCs, Working, Owing, Gone
  <1>4. Strong' = {} /\ Weak' = {}
    BY <1>1, SetNull DEF StoreZero
  <1>5. Owing' = {} /\ Gone'
    BY <1>2, <1>3 DEF StoreZero, Goto, TypeOK, Owing, Gone
  <1>6. TypeOK'
    <2>1. pc' \in [Threads -> PCs] /\ op' \in [Threads -> Refs \cup {None}]
      BY GotoType DEF StoreZero, PCs
    <2>2. kind' \in [Refs -> {"null", "strong", "weak"}]
      BY DEF StoreZero, TypeOK
    <2> QED BY <2>1, <2>2 DEF StoreZero, TypeOK
  <1>7. Exact'
    BY <1>4, <1>5, FS_EmptySet DEF StoreZero, Exact
  <1>8. Working' /\ Unique'
    BY <1>3 DEF StoreZero, Goto, TypeOK, Working, Unique
  <1>9. Releasing'
    BY <1>4, <1>5 DEF Releasing
  <1>10. Deleting'
    BY <1>2, <1>3, <1>4, <1>5 DEF StoreZero, Goto, TypeOK, Deleting, Gone
  <1> QED BY <1>6, <1>7, <1>8, <1>9, <1>10

(* The decrement of a strong reference: who takes it to zero owes the weak  *)
(* reference of the strong ones, or deletes when that is the only one.      *)
LEMMA DecrementIInv ==
  ASSUME IInv, NEW t \in Threads, Decrement(t)
  PROVE  IInv'
  <1> USE DEF IInv
  <1> DEFINE p == AfterSub(refcount - 1, weakcount)
  <1>1. op[t] \in Strong /\ op[t] \in Refs /\ op[t] \notin Weak
    BY DEF Decrement, Working, Strong, Weak, Holding
  <1>2. Owing = {} /\ ~Gone
    BY <1>1 DEF Releasing, Deleting
  <1>3. \A u \in Threads : u # t => pc[u] \in {"idle", "sub", "cas"}
    BY <1>1, <1>2 DEF TypeOK, PCs, Working, Unique, Owing, Gone
  <1>4. Strong' = Strong \ {op[t]} /\ Weak' = Weak
    BY <1>1, SetNull DEF Decrement
  <1>5. /\ refcount = Cardinality(Strong) /\ weakcount = Cardinality(Weak) + 1
        /\ Cardinality(Strong) \in Nat /\ Cardinality(Weak) \in Nat
        /\ refcount - 1 = Cardinality(Strong')
    BY <1>1, <1>2, <1>4, CountingPointers DEF Exact
  <1>6. /\ refcount - 1 = 0 <=> Strong' = {}
        /\ weakcount = 1 <=> Weak = {}
    <2>1. Strong' = {} => Cardinality(Strong') = 0
      BY FS_EmptySet
    <2>2. Cardinality(Strong) = 1 => Strong = {op[t]}
      BY <1>1, CountingPointers
    <2>3. Cardinality(Weak) = 0 <=> Weak = {}
      BY CountingPointers
    <2> QED BY <1>4, <1>5, <2>1, <2>2, <2>3
  <1>7. p \in {"idle", "release", "delete"}
    BY DEF AfterSub
  <1>8. /\ p = "idle" <=> Strong' # {}
        /\ p = "delete" <=> Strong' = {} /\ Weak = {}
        /\ p = "release" <=> Strong' = {} /\ Weak # {}
    BY <1>6 DEF AfterSub
  <1>9. pc' = [pc EXCEPT ![t] = p] /\ op' = [op EXCEPT ![t] = None]
    BY DEF Decrement, Goto
  <1>10. Strong' = {} => \A u \in Threads : u # t => pc[u] \in {"idle", "cas"}
    BY <1>3, <1>4 DEF Working
  <1>11. p = "delete" => \A u \in Threads : u # t => pc[u] = "idle"
    BY <1>3, <1>8, <1>10 DEF Working
  <1> HIDE DEF p
  <1>12. /\ Owing' = IF p = "release" THEN {t} ELSE {}
         /\ Gone' <=> p = "delete"
    BY <1>2, <1>3, <1>7, <1>9 DEF Decrement, TypeOK, Owing, Gone
  <1>13. TypeOK'
    <2>1. pc' \in [Threads -> PCs]
      BY <1>7, <1>9 DEF TypeOK, PCs
    <2>2. kind' \in [Refs -> {"null", "strong", "weak"}]
      BY DEF Decrement, TypeOK
    <2>3. op' \in [Threads -> Refs \cup {None}]
      BY <1>9 DEF TypeOK
    <2> QED BY <2>1, <2>2, <2>3 DEF Decrement, TypeOK
  <1>14. Exact'
    BY <1>4, <1>5, <1>7, <1>8, <1>12 DEF Decrement, Exact
  <1>15. Working'
    <2> SUFFICES ASSUME NEW u \in Threads
                 PROVE  /\ pc'[u] \in {"store", "sub"} =>
                              /\ op'[u] \in Strong'
                              /\ \A v \in Threads : v # u => op'[v] # op'[u]
                        /\ pc'[u] = "cas" => op'[u] \in Weak' /\ seen'[u].refcount > 0
                        /\ pc'[u] \notin {"store", "sub", "cas"} => op'[u] = None
      BY DEF Working
    <2>1. CASE u = t
      BY <1>7, <1>9, <2>1 DEF TypeOK
    <2>2. CASE u # t
      <3>1. pc'[u] = pc[u] /\ op'[u] = op[u] /\ seen'[u] = seen[u]
        BY <1>9, <2>2 DEF Decrement, TypeOK
      <3>2. pc[u] \in {"store", "sub"} => op[u] \in Strong /\ op[u] # op[t] /\ op[u] \in Refs
        BY <2>2 DEF Working, Strong, Holding
      <3>3. pc[u] \in {"store", "sub"} => \A v \in Threads : v # u => op'[v] # op[u]
        BY <1>9, <3>2, RefsAssumption DEF Working, TypeOK
      <3> QED BY <1>4, <3>1, <3>2, <3>3 DEF Working
    <2> QED BY <2>1, <2>2
  <1>16. Unique'
    BY <1>3, <1>7, <1>9 DEF Unique, TypeOK
  <1>17. Releasing'
    <2>1. ~released
      BY <1>1 DEF Releasing
    <2> QED BY <1>8, <1>12, <2>1 DEF Decrement, Releasing
  <1>18. Deleting'
    <2>1. ~deleted /\ ~deleted'
      BY <1>2 DEF Decrement, Gone
    <2>2. \A u, v \in Threads : pc'[u] = "delete" /\ v # u => pc'[v] = "idle"
      BY <1>3, <1>7, <1>9, <1>11 DEF TypeOK
    <2> QED BY <1>4, <1>7, <1>8, <1>12, <2>1, <2>2 DEF Deleting
  <1> QED BY <1>13, <1>14, <1>15, <1>16, <1>17, <1>18

LEMMA ReleaseResourcesIInv ==
  ASSUME IInv, NEW t \in Threads, ReleaseResources(t)
  PROVE  IInv'
  <1> USE DEF IInv
  <1>1. t \in Owing /\ Strong = {}
    BY DEF ReleaseResources, Owing, Releasing
  <1>2. Strong' = Strong /\ Weak' = Weak
    BY SameKind DEF ReleaseResources
  <1>3. Owing' = Owing /\ Gone' = Gone
    BY <1>1 DEF ReleaseResources, Goto, TypeOK, Owing, Gone
  <1>4. TypeOK'
    <2>1. pc' \in [Threads -> PCs] /\ op' \in [Threads -> Refs \cup {None}]
      BY GotoType DEF ReleaseResources, PCs
    <2> QED BY <2>1 DEF ReleaseResources, counts, TypeOK
  <1>5. Exact'
    BY <1>2, <1>3 DEF ReleaseResources, counts, Exact
  <1>6. Working' /\ Unique'
    BY <1>2 DEF ReleaseResources, Goto, TypeOK, Working, Unique
  <1>7. Releasing'
    BY <1>1, <1>2, <1>3 DEF Releasing
  <1>8. Deleting'
    BY <1>1, <1>2, <1>3 DEF ReleaseResources, Goto, TypeOK, Deleting, Owing
  <1> QED BY <1>4, <1>5, <1>6, <1>7, <1>8

(* The shared weak reference is given back: by then the weak pointers are   *)
(* all that is counted.                                                     *)
LEMMA DecrementWeakIInv ==
  ASSUME IInv, NEW t \in Threads, DecrementWeak(t)
  PROVE  IInv'
  <1> USE DEF IInv
  <1> DEFINE p == AfterWeakSub(weakcount - 1)
  <1>1. t \in Owing /\ Strong = {} /\ Owing = {t}
    BY DEF DecrementWeak, Owing, Releasing
  <1>2. ~Gone
    BY <1>1 DEF DecrementWeak, Deleting, Gone
  <1>3. Strong' = {} /\ Weak' = Weak
    BY <1>1, SameKind DEF DecrementWeak
  <1>4. weakcount - 1 = Cardinality(Weak) /\ (weakcount - 1 = 0 <=> Weak = {})
    BY <1>1, <1>2, CountingPointers DEF Exact
  <1>5. p \in {"idle", "delete"} /\ (p = "delete" <=> Weak = {})
    BY <1>4 DEF AfterWeakSub
  <1>6. pc' = [pc EXCEPT ![t] = p] /\ op' = [op EXCEPT ![t] = None]
    BY DEF DecrementWeak, Goto
  <1>7. \A u \in Threads : u # t => pc[u] \in {"idle", "cas"}
    BY <1>1, <1>2 DEF TypeOK, PCs, Working, Owing, Gone
  <1>8. Weak = {} => \A u \in Threads : u # t => pc[u] = "idle"
    BY <1>7 DEF Working
  <1> HIDE DEF p
  <1>9. Owing' = {} /\ (Gone' <=> p = "delete")
    BY <1>2, <1>5, <1>6, <1>7 DEF DecrementWeak, TypeOK, Owing, Gone
  <1>10. TypeOK'
    <2>1. pc' \in [Threads -> PCs]
      BY <1>5, <1>6 DEF TypeOK, PCs
    <2> QED BY <1>6, <2>1 DEF DecrementWeak, TypeOK
  <1>11. Exact'
    BY <1>1, <1>3, <1>4, <1>9, CountingPointers DEF DecrementWeak, Exact
  <1>12. Working' /\ Unique'
    BY <1>3, <1>5, <1>6, <1>7 DEF DecrementWeak, TypeOK, Working, Unique
  <1>13. Releasing'
    BY <1>3, <1>9 DEF Releasing
  <1>14. Deleting'
    <2>1. ~deleted'
      BY <1>2 DEF DecrementWeak, Gone
    <2>2. \A u, v \in Threads : pc'[u] = "delete" /\ v # u => pc'[v] = "idle"
      BY <1>5, <1>6, <1>7, <1>8 DEF TypeOK
    <2> QED BY <1>3, <1>5, <1>9, <2>1, <2>2 DEF Deleting
  <1> QED BY <1>10, <1>11, <1>12, <1>13, <1>14

(* A weak pointer is dropped: who takes the count to zero finds no strong   *)
(* pointer, no thread that owes, and nobody at work on a weak pointer.      *)
LEMMA ResetWeakIInv ==
  ASSUME IInv, NEW t \in Threads, NEW r \in Refs, ResetWeak(t, r)
  PROVE  IInv'
  <1> USE DEF IInv
  <1> DEFINE p == AfterWeakSub(weakcount - 1)
  <1>1. r \in Weak /\ r \notin Strong /\ \A u \in Threads : op[u] # r
    BY KindOf DEF ResetWeak, InUse, Strong, Weak, Holding
  <1>2. ~Gone /\ pc[t] = "idle"
    BY <1>1 DEF ResetWeak, Deleting
  <1>3. Strong' = Strong /\ Weak' = Weak \ {r}
    BY <1>1, SetNull DEF ResetWeak
  <1>4. /\ weakcount - 1 = Cardinality(Weak') + (IF Strong # {} \/ Owing # {} THEN 1 ELSE 0)
        /\ Cardinality(Weak') \in Nat /\ (Cardinality(Weak') = 0 => Weak' = {})
    <2>1. /\ weakcount = Cardinality(Weak) + (IF Strong # {} \/ Owing # {} THEN 1 ELSE 0)
          /\ Cardinality(Weak') = Cardinality(Weak) - 1 /\ Cardinality(Weak) \in Nat
      BY <1>1, <1>2, <1>3, CountingPointers DEF Exact
    <2>2. Cardinality(Weak) # 0
      BY <1>1, CountingPointers
    <2>3. Cardinality(Weak) = 1 => Weak = {r}
      BY <1>1, CountingPointers
    <2> QED BY <1>3, <2>1, <2>2, <2>3
  <1>5. p \in {"idle", "delete"}
    BY DEF AfterWeakSub
  <1>6. p = "delete" <=> Strong = {} /\ Owing = {} /\ Weak' = {}
    <2>1. Weak' = {} => Cardinality(Weak') = 0
      BY FS_EmptySet
    <2>2. weakcount - 1 = 0 <=> Strong = {} /\ Owing = {} /\ Weak' = {}
      <3>1. CASE Strong # {} \/ Owing # {}
        <4>1. weakcount - 1 = Cardinality(Weak') + 1
          BY <1>4, <3>1
        <4> QED BY <1>4, <3>1, <4>1
      <3>2. CASE Strong = {} /\ Owing = {}
        <4>1. weakcount - 1 = Cardinality(Weak')
          BY <1>4, <3>2
        <4> QED BY <1>4, <2>1, <3>2, <4>1
      <3> QED BY <3>1, <3>2
    <2> QED BY <2>2 DEF AfterWeakSub
  <1>7. pc' = [pc EXCEPT ![t] = p] /\ op' = [op EXCEPT ![t] = None]
    BY DEF ResetWeak, Goto
  <1>8. p = "delete" => \A u \in Threads : u # t => pc[u] = "idle"
    <2>1. p = "delete" => \A u \in Threads : op[u] \notin Strong \cup Weak
      BY <1>1, <1>3, <1>6
    <2> QED BY <1>2, <1>6, <2>1 DEF TypeOK, PCs, Working, Owing, Gone
  <1> HIDE DEF p
  <1>9. Owing' = Owing /\ (Gone' <=> p = "delete")
    BY <1>2, <1>5, <1>7 DEF ResetWeak, TypeOK, Owing, Gone
  <1>10. TypeOK'
    <2>1. pc' \in [Threads -> PCs]
      BY <1>5, <1>7 DEF TypeOK, PCs
    <2>2. kind' \in [Refs -> {"null", "strong", "weak"}]
      BY DEF ResetWeak, TypeOK
    <2> QED BY <1>7, <2>1, <2>2 DEF ResetWeak, TypeOK
  <1>11. Exact'
    BY <1>3, <1>4, <1>9 DEF ResetWeak, Exact
  <1>12. op'[t] = None /\ op[t] = None /\ \A u \in Threads : op'[u] = op[u]
    BY <1>2, <1>7 DEF Working, TypeOK
  <1>13. Working'
    BY <1>1, <1>2, <1>3, <1>5, <1>7, <1>12 DEF ResetWeak, Working, TypeOK
  <1>14. Unique'
    BY <1>1, <1>2, <1>3, <1>5, <1>7, <1>12 DEF Unique, TypeOK
  <1>15. Releasing'
    BY <1>3, <1>9 DEF ResetWeak, Releasing
  <1>16. Deleting'
    <2>1. ~deleted' /\ \A u \in Threads : pc[u] # "delete"
      BY <1>2 DEF ResetWeak, Gone
    <2>2. \A u, v \in Threads : pc'[u] = "delete" /\ v # u => pc'[v] = "idle"
      BY <1>5, <1>7, <1>8, <2>1 DEF TypeOK
    <2> QED BY <1>3, <1>5, <1>6, <1>9, <2>1, <2>2 DEF Deleting
  <1> QED BY <1>10, <1>11, <1>13, <1>14, <1>15, <1>16

LEMMA DeleteIInv ==
  ASSUME IInv, NEW t \in Threads, Delete(t)
  PROVE  IInv'
  <1> USE DEF IInv
  <1>1. Gone /\ \A u \in Threads : u # t => pc[u] = "idle"
    BY DEF Delete, Deleting, Gone
  <1>2. Strong' = {} /\ Weak' = {}
    BY <1>1, SameKind DEF Delete, Deleting
  <1>3. Owing' = {} /\ Gone' /\ \A u \in Threads : pc'[u] = "idle"
    BY <1>1 DEF Delete, Goto, TypeOK, Owing, Gone
  <1>4. TypeOK'
    <2>1. pc' \in [Threads -> PCs] /\ op' \in [Threads -> Refs \cup {None}]
      BY GotoType DEF Delete, PCs
    <2> QED BY <2>1 DEF Delete, counts, TypeOK
  <1>5. Exact'
    BY <1>1, <1>2, <1>3 DEF Delete, counts, Exact, Deleting
  <1>6. Working' /\ Unique'
    BY <1>1, <1>3 DEF Delete, Goto, TypeOK, Working, Unique
  <1>7. Releasing' /\ Deleting'
    BY <1>2, <1>3 DEF Releasing, Deleting
  <1> QED BY <1>4, <1>5, <1>6, <1>7

-----------------------------------------------------------------------------
(* lock() *)

(* The head of the loop, at the first load or after a failed exchange. *)
LEMMA LoopHeadIInv ==
  ASSUME IInv, NEW t \in Threads, NEW r \in Weak, pc[t] \in {"idle", "cas"},
         Readable(r), LoopHead(t, r), UNCHANGED <<counts, kind, released, deleted>>
  PROVE  IInv'
  <1> USE DEF IInv
  <1>0. r \in Refs /\ r \notin Strong
    BY DEF Weak, Strong, Holding
  <1>1. Strong' = Strong /\ Weak' = Weak
    BY SameKind
  <1>2. ~Gone
    BY DEF Deleting
  <1>3. PICK p \in {"idle", "cas"}, q \in {r, None} :
          /\ pc' = [pc EXCEPT ![t] = p] /\ op' = [op EXCEPT ![t] = q]
          /\ p = "cas" => q = r /\ refcount > 0
          /\ p = "idle" => q = None
    <2>1. refcount # 0 => refcount > 0
      BY CountingPointers DEF Exact
    <2> QED BY <2>1 DEF LoopHead, Goto
  <1>4. seen' = [seen EXCEPT ![t] = [refcount |-> refcount, weakcount |-> weakcount]]
    BY DEF LoopHead, Word
  <1>5. Owing' = Owing /\ Gone' = Gone
    BY <1>3 DEF TypeOK, Owing, Gone
  <1>6. TypeOK'
    <2>1. pc' \in [Threads -> PCs]
      BY <1>3 DEF TypeOK, PCs
    <2>2. op' \in [Threads -> Refs \cup {None}]
      BY <1>0, <1>3 DEF TypeOK
    <2>3. seen' \in [Threads -> [refcount : Int, weakcount : Int]]
      BY <1>4 DEF TypeOK
    <2> QED BY <2>1, <2>2, <2>3 DEF TypeOK, counts
  <1>7. Exact'
    BY <1>1, <1>5 DEF counts, Exact
  <1>8. Working'
    <2> SUFFICES ASSUME NEW u \in Threads
                 PROVE  /\ pc'[u] \in {"store", "sub"} =>
                              /\ op'[u] \in Strong'
                              /\ \A v \in Threads : v # u => op'[v] # op'[u]
                        /\ pc'[u] = "cas" => op'[u] \in Weak' /\ seen'[u].refcount > 0
                        /\ pc'[u] \notin {"store", "sub", "cas"} => op'[u] = None
      BY DEF Working
    <2>1. CASE u = t
      BY <1>1, <1>3, <1>4, <2>1 DEF TypeOK
    <2>2. CASE u # t
      <3>1. pc'[u] = pc[u] /\ op'[u] = op[u] /\ seen'[u] = seen[u]
        BY <1>3, <1>4, <2>2 DEF TypeOK
      <3>2. pc[u] \in {"store", "sub"} => op[u] \in Strong /\ op[u] \in Refs
        BY DEF Working, Strong, Holding
      <3>3. pc[u] \in {"store", "sub"} => \A v \in Threads : v # u => op'[v] # op[u]
        BY <1>0, <1>3, <3>2, RefsAssumption DEF Working, TypeOK
      <3> QED BY <1>1, <3>1, <3>2, <3>3 DEF Working
    <2> QED BY <2>1, <2>2
  <1>9. Unique'
    BY <1>1 DEF Unique, TypeOK, LoopHead, Goto
  <1>10. Releasing'
    BY <1>1, <1>5 DEF Releasing
  <1>11. Deleting'
    BY <1>1, <1>2, <1>3, <1>5 DEF Deleting, TypeOK, Gone
  <1> QED BY <1>6, <1>7, <1>8, <1>9, <1>10, <1>11

LEMMA LockIInv ==
  ASSUME IInv, NEW t \in Threads, NEW r \in Refs, Lock(t, r)
  PROVE  IInv'
  <1>1. r \in Weak
    BY KindOf DEF IInv, Lock
  <1> QED BY <1>1, LoopHeadIInv DEF Lock

LEMMA CompareExchangeFailsIInv ==
  ASSUME IInv, NEW t \in Threads, CompareExchangeFails(t)
  PROVE  IInv'
  <1>1. op[t] \in Weak
    BY DEF IInv, Working, CompareExchangeFails
  <1>2. Readable(op[t])
    BY <1>1, RefsAssumption DEF Readable, IInv, Working, Weak, Strong, Holding
  <1> QED BY <1>1, <1>2, LoopHeadIInv DEF CompareExchangeFails

(* The exchange succeeds on the word that lock() saw: a strong reference is *)
(* still there, and no thread is alone with the object.                     *)
LEMMA CompareExchangeIInv ==
  ASSUME IInv, NEW t \in Threads, NEW to \in Refs, CompareExchange(t, to)
  PROVE  IInv'
  <1> USE DEF IInv
  <1>1. op[t] \in Weak /\ to \notin Strong \cup Weak
    BY KindOf DEF CompareExchange, Empty, Working
  <1>2. seen[t].refcount = refcount /\ seen[t].weakcount = weakcount /\ refcount > 0
    BY DEF CompareExchange, Unchanged, Word, Working
  <1>3. Strong # {}
    BY <1>2, CountingPointers DEF Exact
  <1>4. Owing = {} /\ ~Gone /\ ~released
    BY <1>3 DEF Releasing, Deleting
  <1>5. Strong' = Strong \cup {to} /\ Weak' = Weak
    BY <1>1, SetStrong DEF CompareExchange
  <1>6. Owing' = {} /\ ~Gone'
    BY <1>4 DEF CompareExchange, Goto, TypeOK, Owing, Gone
  <1>7. TypeOK'
    <2>1. pc' \in [Threads -> PCs] /\ op' \in [Threads -> Refs \cup {None}]
      BY GotoType DEF CompareExchange, PCs
    <2>2. kind' \in [Refs -> {"null", "strong", "weak"}]
      BY DEF CompareExchange, TypeOK
    <2> QED BY <1>2, <2>1, <2>2 DEF CompareExchange, TypeOK
  <1>8. Exact'
    BY <1>1, <1>2, <1>3, <1>4, <1>5, <1>6, CountingPointers DEF CompareExchange, Exact
  <1>9. Working'
    <2> SUFFICES ASSUME NEW u \in Threads
                 PROVE  /\ pc'[u] \in {"store", "sub"} =>
                              /\ op'[u] \in Strong'
                              /\ \A v \in Threads : v # u => op'[v] # op'[u]
                        /\ pc'[u] = "cas" => op'[u] \in Weak' /\ seen'[u].refcount > 0
                        /\ pc'[u] \notin {"store", "sub", "cas"} => op'[u] = None
      BY DEF Working
    <2>1. CASE u = t
      BY <2>1 DEF CompareExchange, Goto, TypeOK
    <2>2. CASE u # t
      <3>1. pc'[u] = pc[u] /\ op'[u] = op[u] /\ seen'[u] = seen[u]
        BY <2>2 DEF CompareExchange, Goto, TypeOK
      <3>2. pc[u] \in {"store", "sub"} => op[u] \in Strong /\ op[u] \in Refs
        BY DEF Working, Strong, Holding
      <3>3. pc[u] \in {"store", "sub"} => \A v \in Threads : v # u => op'[v] # op[u]
        BY <3>2, RefsAssumption DEF CompareExchange, Goto, Working, TypeOK
      <3> QED BY <1>5, <3>1, <3>2, <3>3 DEF Working
    <2> QED BY <2>1, <2>2
  <1>10. Unique'
    BY <1>1 DEF CompareExchange, Goto, TypeOK, Unique
  <1>11. Releasing'
    BY <1>4, <1>6 DEF CompareExchange, Releasing
  <1>12. Deleting'
    BY <1>1, <1>5, <1>6 DEF Deleting, Gone
  <1> QED BY <1>7, <1>8, <1>9, <1>10, <1>11, <1>12

-----------------------------------------------------------------------------
LEMMA StutterIInv ==
  ASSUME IInv, UNCHANGED vars
  PROVE  IInv'
  <1>1. Strong' = Strong /\ Weak' = Weak /\ Owing' = Owing /\ Gone' = Gone
    BY SameKind DEF vars, Owing, Gone
  <1> QED BY <1>1 DEF vars, counts, IInv, TypeOK, Exact, Working, Unique, Releasing, Deleting

LEMMA NextIInv == IInv /\ [Next]_vars => IInv'
  <1> SUFFICES ASSUME IInv, [Next]_vars PROVE IInv'
    OBVIOUS
  <1>1. ASSUME NEW t \in Threads, Call(t) PROVE IInv'
    BY <1>1, CopyStrongIInv, MakeWeakIInv, ResetIInv, ResetWeakIInv, LockIInv DEF Call
  <1>2. ASSUME NEW t \in Threads, Continue(t) PROVE IInv'
    BY <1>2, StoreZeroIInv, DecrementIInv, ReleaseResourcesIInv, DecrementWeakIInv,
       DeleteIInv, CompareExchangeFailsIInv, CompareExchangeIInv DEF Continue
  <1>3. CASE UNCHANGED vars
    BY <1>3, StutterIInv
  <1> QED BY <1>1, <1>2, <1>3 DEF Next, Terminating

LEMMA Invariance == Spec => []IInv
  BY InitIInv, NextIInv, PTL DEF Spec

(* refcount is the number of strong references and weakcount that of the    *)
(* weak ones, plus the one the strong ones share, whatever copies, resets   *)
(* and locks interleave.                                                    *)
THEOREM CountsAlwaysExact == Spec => []CountsAreExact
  <1>1. IInv => CountsAreExact
    <2> SUFFICES ASSUME IInv PROVE CountsAreExact
      OBVIOUS
    <2> USE DEF IInv
    <2>1. refcount = Cardinality(Strong) /\ (refcount > 0 <=> Strong # {})
      BY CountingPointers DEF Exact
    <2>2. Cardinality(Owing) = IF Owing # {} THEN 1 ELSE 0
      BY FS_EmptySet, FS_Singleton DEF Releasing
    <2> QED BY <2>1, <2>2, CountingPointers DEF CountsAreExact, Exact, Strong, Weak
  <1> QED BY <1>1, Invariance, PTL

(* While there is a pointer to the object, or a thread about to touch it,   *)
(* the object is there; lock() never brings a dead object back.             *)
THEOREM NeverUsedAfterFree == Spec => []NoUseAfterFree
  <1>1. IInv => NoUseAfterFree
    <2> SUFFICES ASSUME IInv PROVE NoUseAfterFree
      OBVIOUS
    <2>1. \A r \in Refs : kind[r] # "null" => ~Gone
      BY KindOf DEF IInv, Deleting
    <2>2. \A r \in Refs : kind[r] = "strong" => ~released /\ Owing = {}
      BY KindOf DEF IInv, Releasing
    <2> QED BY <2>1, <2>2 DEF IInv, Deleting, NoUseAfterFree
  <1> QED BY <1>1, Invariance, PTL

(* When the last pointer is gone and no thread is in the middle of a reset, *)
(* the object was deleted.                                                  *)
THEOREM NeverLeaks == Spec => []NothingLeaks
  <1>1. IInv => NothingLeaks
    BY DEF IInv, Deleting, NothingLeaks, Gone, Owing, Strong, Weak, Holding
  <1> QED BY <1>1, Invariance, PTL
=============================================================================
