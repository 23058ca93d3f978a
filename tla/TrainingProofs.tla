--------------------------- MODULE TrainingProofs ---------------------------
(***************************************************************************)
(* Proofs about module Training, for every model, every dataset and any     *)
(* number of passes under way: gradients share memory only where backward   *)
(* sends two views of one storage, every batch trains every other parameter *)
(* of the optimizer exactly once, and an epoch of the DataLoader visits     *)
(* every item once.                                                         *)
(***************************************************************************)
EXTENDS Training, FiniteSetTheorems, SequenceTheorems, WellFoundedInduction, TLAPS

Stages == {"batch", "forward", "backward", "done"}
Counts == {0, 1, 2}

(* The loader is ahead of the passes, so that every pass is a number of     *)
(* Passes; a pass that is done has reached every parameter.                 *)
Fetched ==
    /\ size \in Nat /\ BatchSize \in Nat \ {0} /\ pos \in 0 .. size
    /\ batches \in Seq(Range(batches))
    /\ stage \in Seq(Stages) /\ owed \in Seq(SUBSET ModelParams)
    /\ Len(owed) = Len(stage) /\ Len(stage) <= pos
    /\ \A g \in DOMAIN stage : stage[g] # "backward" => owed[g] = {}

Made ==
    /\ model \in Seq(DOMAIN LayerParams)
    /\ optimizer \in {{}, Parameters}
    /\ optimizer = {} => /\ Running = {} /\ Done = {} /\ ~stale
                         /\ \A p \in AllParams : store[p] = undefined /\ applied[p] = None

(* The gradient of p is on the storage that pass g sent p, and nobody is    *)
(* still to be given the same tensor.                                       *)
TakenFrom(g, p) ==
    /\ store[p] = Sent(g, p) /\ stage[g] \in {"backward", "done"}
    /\ \A q \in owed[g] : Source[q] # Source[p]

(* The storage of a gradient is its own, unless backward sends views of it. *)
Stored ==
    /\ store = [p \in AllParams |-> store[p]]
    /\ \A p \in AllParams : store[p] # undefined =>
          store[p] = Own(p) \/ (Viewed(p) /\ \E g \in DOMAIN stage : TakenFrom(g, p))
    /\ \A p, q \in AllParams : p # q /\ store[p] # undefined /\ store[p] = store[q] =>
          Source[p] # Source[q]
    /\ DOMAIN content = {store[p] : p \in AllParams} \ {undefined}
    /\ \A s \in DOMAIN content : content[s] \in [Passes -> Counts]

(* Pass g has reached parameter p and no Step has used it *)
Pending(p, g) ==
    /\ g \in DOMAIN stage /\ stage[g] \in {"backward", "done"}
    /\ g \notin stepped /\ p \notin owed[g]

InGradient(p, g) == IF store[p] = undefined THEN 0 ELSE content[store[p]][g]

(* A gradient on a storage of its own is the sum of the passes that are     *)
(* pending, each once; after a Step nothing is pending until the gradients  *)
(* are zeroed.                                                              *)
Summed ==
    /\ stepped \subseteq Done /\ stale \in BOOLEAN
    /\ stale => Running = {} /\ Done = stepped
    /\ ~stale => \A p \in optimizer, g \in Passes :
          ~Viewed(p) => InGradient(p, g) = IF Pending(p, g) THEN 1 ELSE 0

Applied ==
    /\ applied \in [AllParams -> [Passes -> Counts]]
    /\ \A p \in optimizer, g \in Passes :
          ~Viewed(p) => applied[p][g] = IF g \in stepped THEN 1 ELSE 0

TrainInv == Fetched /\ Made /\ Stored /\ Summed /\ Applied
-----------------------------------------------------------------------------
(* Sets of parameters *)

LEMMA ParamFacts ==
  ASSUME model \in Seq(DOMAIN LayerParams)
  PROVE  /\ ModelParams \subseteq AllParams /\ Parameters \subseteq ModelParams
         /\ IsFiniteSet(ModelParams)
  <1>1. \A i \in DOMAIN model : model[i] \in DOMAIN LayerParams
    OBVIOUS
  <1>2. ModelParams \subseteq AllParams
    BY <1>1 DEF ModelParams, AllParams
  <1>3. ASSUME NEW l \in DOMAIN LayerParams PROVE ToSet(LayerParameters(l)) \subseteq ToSet(LayerParams[l])
    <2>1. ToSet(<<>>) = {}
      BY DEF ToSet
    <2> QED BY <2>1 DEF LayerParameters
  <1>4. Parameters \subseteq ModelParams
    BY <1>1, <1>3 DEF Parameters, ModelParams
  <1>5. ASSUME NEW l \in DOMAIN LayerParams PROVE IsFiniteSet(ToSet(LayerParams[l]))
    <2>1. LayerParams[l] \in Seq(Range(LayerParams[l]))
      BY TrainingAssumption
    <2>2. DOMAIN LayerParams[l] = 1 .. Len(LayerParams[l]) /\ Len(LayerParams[l]) \in Nat
      BY <2>1
    <2>3. IsFiniteSet(DOMAIN LayerParams[l])
      BY <2>2, FS_Interval
    <2>4. LayerParams[l] \in Surjection(DOMAIN LayerParams[l], ToSet(LayerParams[l]))
      BY <2>1, <2>2 DEF Surjection, ToSet
    <2> QED BY <2>3, <2>4, FS_Surjection
  <1>6. IsFiniteSet(ModelParams)
    <2> DEFINE T == {ToSet(LayerParams[model[i]]) : i \in DOMAIN model}
    <2>1. DOMAIN model = 1 .. Len(model) /\ Len(model) \in Nat
      OBVIOUS
    <2>2. IsFiniteSet(DOMAIN model)
      BY <2>1, FS_Interval
    <2>3. IsFiniteSet(T)
      <3> DEFINE h == [i \in DOMAIN model |-> ToSet(LayerParams[model[i]])]
      <3>1. h \in Surjection(DOMAIN model, T)
        BY DEF Surjection
      <3> QED BY <2>2, <3>1, FS_Surjection
    <2>4. \A x \in T : IsFiniteSet(x)
      BY <1>1, <1>5
    <2> HIDE DEF T
    <2>5. IsFiniteSet(UNION T)
      BY <2>3, <2>4, FS_UNION
    <2> QED BY <2>5 DEF ModelParams, T
  <1> QED BY <1>2, <1>4, <1>6

(* Bags and storages *)
LEMMA BagFacts ==
  ASSUME NEW a \in [Passes -> Counts], NEW b \in [Passes -> Counts], NEW g \in Passes
  PROVE  /\ None \in [Passes -> Counts] /\ Only(g) \in [Passes -> Counts]
         /\ Plus(a, b) \in [Passes -> Counts]
         /\ \A h \in Passes : /\ None[h] = 0 /\ Only(g)[h] = (IF h = g THEN 1 ELSE 0)
                              /\ a[h] = 0 => Plus(a, b)[h] = b[h]
                              /\ b[h] = 0 => Plus(a, b)[h] = a[h]
  BY DEF None, Only, Plus, Counts

LEMMA OwnFacts ==
  /\ \A p, q : Own(p) = Own(q) => p = q
  /\ \A p : Own(p) # undefined
  /\ \A g, p : Sent(g, p) # undefined
  /\ \A g, p, q : Sent(g, p) = Own(q) => g = 0
  BY DEF Own, Sent, undefined
-----------------------------------------------------------------------------
(* The loader and the passes *)

LEMMA FetchedInit == Init => Fetched
  <1>1. ASSUME Init PROVE Fetched
    <2>1. size \in Nat /\ BatchSize \in Nat \ {0} /\ pos = 0 /\ stage = <<>> /\ owed = <<>> /\ batches = <<>>
      BY <1>1, DataLoaderAssumption DEF Init, NewDataLoader
    <2>2. /\ stage \in Seq(Stages) /\ owed \in Seq(SUBSET ModelParams) /\ batches \in Seq(Range(batches))
          /\ Len(owed) = 0 /\ Len(stage) = 0 /\ DOMAIN stage = {}
      BY <2>1
    <2> QED BY <2>1, <2>2 DEF Fetched
  <1> QED BY <1>1

(* NextBatch: the new pass has a number that pos has reached. *)
LEMMA FetchEffect ==
  ASSUME Fetched, FetchBatch
  PROVE  /\ pos' \in 0 .. size /\ batches' \in Seq(Range(batches'))
         /\ \/ UNCHANGED <<stage, owed>> /\ pos <= pos'
            \/ /\ stage' = Append(stage, "batch") /\ owed' = Append(owed, {})
               /\ pos < pos'
  <1>1. pos' = End /\ End \in 0 .. size /\ pos <= End
    BY DEF FetchBatch, NextBatch, End, Fetched
  <1>2. CASE End <= pos
    <2>1. batches' = batches /\ Len(batches) \in Nat
      BY <1>2 DEF FetchBatch, NextBatch, Fetched
    <2>2. ~(Len(batches') > Len(batches))
      BY <2>1
    <2> QED BY <1>1, <2>1, <2>2 DEF FetchBatch, Fetched
  <1>3. CASE ~(End <= pos)
    <2>1. PICK e : batches' = Append(batches, e)
      BY <1>3 DEF FetchBatch, NextBatch
    <2>2. batches \in Seq(Range(batches) \cup {e})
      BY DEF Fetched
    <2>3. batches' \in Seq(Range(batches) \cup {e})
      BY <2>1, <2>2
    <2>4. batches' \in Seq(Range(batches'))
      BY <2>3 DEF Range
    <2>5. Len(batches') > Len(batches)
      BY <2>1, <2>2
    <2>6. stage' = Append(stage, "batch") /\ owed' = Append(owed, {})
      BY <2>5 DEF FetchBatch
    <2>7. pos < pos'
      BY <1>1, <1>3 DEF Fetched
    <2> QED BY <1>1, <2>4, <2>6, <2>7
  <1> QED BY <1>2, <1>3

LEMMA FetchedStep ==
  ASSUME Fetched, Made, [Next]_vars
  PROVE  Fetched'
  <1> USE DEF Fetched
  <1>0. ASSUME UNCHANGED <<loaderState, model>> PROVE
           /\ UNCHANGED <<size, BatchSize, pos, batches>> /\ ModelParams' = ModelParams
    BY <1>0 DEF loaderState, ModelParams
  <1>1. CASE NewOptimizer
    BY <1>1, <1>0 DEF NewOptimizer
  <1>2. CASE BeginEpoch
    <2>1. /\ UNCHANGED <<size, BatchSize, model>> /\ pos' = 0
          /\ batches' = <<>> /\ stage' = <<>> /\ owed' = <<>>
      BY <1>2 DEF BeginEpoch, Reset
    <2> QED BY <2>1
  <1>3. CASE FetchBatch
    <2>1. UNCHANGED <<size, BatchSize, model>> /\ ModelParams' = ModelParams
      BY <1>3 DEF FetchBatch, NextBatch, ModelParams
    <2>2. CASE UNCHANGED <<stage, owed>> /\ pos <= pos'
      BY <1>3, FetchEffect, <2>1, <2>2
    <2>3. CASE stage' = Append(stage, "batch") /\ owed' = Append(owed, {}) /\ pos < pos'
      <3>1. /\ stage' \in Seq(Stages) /\ Len(stage') = Len(stage) + 1
            /\ owed' \in Seq(SUBSET ModelParams) /\ Len(owed') = Len(owed) + 1
        BY <2>3 DEF Stages
      <3>2. ASSUME NEW g \in DOMAIN stage', stage'[g] # "backward" PROVE owed'[g] = {}
        <4>1. CASE g \in DOMAIN stage
          BY <2>3, <3>2, <4>1
        <4>2. CASE g \notin DOMAIN stage
          <5>1. g = Len(owed) + 1
            BY <2>3, <4>2
          <5> QED BY <2>3, <5>1
        <4> QED BY <4>1, <4>2
      <3>3. pos' \in 0 .. size /\ batches' \in Seq(Range(batches'))
        BY <1>3, FetchEffect
      <3>4. Len(stage') <= pos'
        BY <2>3, <3>1, <3>3
      <3> QED BY <2>1, <3>1, <3>2, <3>3, <3>4
    <2> QED BY <1>3, FetchEffect, <2>2, <2>3
  <1>4. CASE Configure
    <2>1. UNCHANGED <<size, pos, batches, model, stage, owed>> /\ ModelParams' = ModelParams
      BY <1>4 DEF Configure, SetBatchSize, SetShuffle, trainState, ModelParams
    <2>2. BatchSize' \in Nat \ {0}
      BY <1>4, DataLoaderAssumption DEF Configure, SetBatchSize, SetShuffle
    <2> QED BY <2>1, <2>2
  <1>5. ASSUME NEW g \in DOMAIN stage, Forward(g) PROVE Fetched'
    BY <1>5, <1>0 DEF Forward, Stages
  <1>6. ASSUME NEW g \in DOMAIN stage, Backward(g) PROVE Fetched'
    BY <1>6, <1>0 DEF Backward, Stages
  <1>7. ASSUME NEW g \in DOMAIN stage, NEW p \in owed[g], Accumulate(g, p) PROVE Fetched'
    <2>1. CASE owed[g] = {p}
      BY <1>7, <1>0, <2>1 DEF Accumulate, Stages
    <2>2. CASE owed[g] # {p}
      BY <1>7, <1>0, <2>2 DEF Accumulate, Stages
    <2> QED BY <2>1, <2>2
  <1>8. CASE ZeroGrad
    BY <1>8, <1>0 DEF ZeroGrad
  <1>9. CASE ModelZeroGrad
    BY <1>9, <1>0 DEF ModelZeroGrad
  <1>10. CASE Step
    BY <1>10, <1>0 DEF Step
  <1>12. CASE UNCHANGED vars
    BY <1>12, <1>0 DEF vars, trainState
  <1> QED BY <1>1, <1>2, <1>3, <1>4, <1>5, <1>6, <1>7, <1>8, <1>9, <1>10, <1>12 DEF Next

-----------------------------------------------------------------------------
(* The optimizer *)

(* A new pass is neither running nor done. *)
LEMMA FetchKeeps ==
  ASSUME Fetched, FetchBatch
  PROVE  /\ Running' = Running /\ Done' = Done /\ DOMAIN stage \subseteq DOMAIN stage'
         /\ \A g \in DOMAIN stage : stage'[g] = stage[g] /\ owed'[g] = owed[g]
         /\ \A g \in DOMAIN stage' \ DOMAIN stage : stage'[g] = "batch"
  <1>1. CASE UNCHANGED <<stage, owed>>
    BY <1>1 DEF Running, Done
  <1>2. CASE stage' = Append(stage, "batch") /\ owed' = Append(owed, {})
    <2>1. stage \in Seq(Stages) /\ "batch" \in Stages /\ owed \in Seq(SUBSET ModelParams) /\ Len(owed) = Len(stage)
      BY DEF Fetched, Stages
    <2>2. /\ DOMAIN stage' = DOMAIN stage \cup {Len(stage) + 1} /\ stage'[Len(stage) + 1] = "batch"
          /\ \A g \in DOMAIN stage : stage'[g] = stage[g] /\ owed'[g] = owed[g]
      BY <1>2, <2>1
    <2>3. Running' = Running
      BY <2>2 DEF Running
    <2>4. Done' = Done
      BY <2>2 DEF Done
    <2> QED BY <2>2, <2>3, <2>4
  <1> QED BY <1>1, <1>2, FetchEffect

LEMMA MadeStep ==
  ASSUME Fetched, Made, [Next]_vars
  PROVE  Made'
  <1> DEFINE Rest == /\ Running = {} /\ Done = {} /\ ~stale
                     /\ \A p \in AllParams : store[p] = undefined /\ applied[p] = None
  <1>m. model \in Seq(DOMAIN LayerParams) /\ optimizer \in {{}, Parameters} /\ (optimizer = {} => Rest)
    BY DEF Made
  <1>0. ASSUME UNCHANGED <<model, optimizer>>, optimizer = {} => Rest' PROVE Made'
    BY <1>0, <1>m DEF Made, Parameters
  <1>1. CASE NewOptimizer
    BY <1>1, <1>m DEF NewOptimizer, Made, Parameters
  <1>2. CASE BeginEpoch
    <2>1. UNCHANGED <<model, optimizer, store, stale>> /\ None' = None
      BY <1>2 DEF BeginEpoch, Reset, None, Passes
    <2>2. Running' = {} /\ Done' = {}
      BY <1>2 DEF BeginEpoch, Running, Done
    <2>3. \A p \in AllParams : applied'[p] = None
      BY <1>2 DEF BeginEpoch
    <2> QED BY <2>1, <2>2, <2>3, <1>m, <1>0
  <1>3. CASE FetchBatch
    <2>1. UNCHANGED <<model, optimizer, store, stale, applied>> /\ None' = None
      BY <1>3 DEF FetchBatch, NextBatch, None, Passes
    <2> QED BY <2>1, <1>3, FetchKeeps, <1>m, <1>0
  <1>4. ASSUME UNCHANGED <<size, model, optimizer, stage, store, stale, applied>> PROVE Made'
    <2>1. None' = None /\ Running' = Running /\ Done' = Done
      BY <1>4 DEF None, Passes, Running, Done
    <2> QED BY <2>1, <1>4, <1>m, <1>0
  <1>5. CASE Configure
    BY <1>4, <1>5 DEF Configure, SetBatchSize, SetShuffle, trainState
  <1>6. ASSUME NEW g \in DOMAIN stage, Forward(g) PROVE Made'
    <2>1. UNCHANGED <<model, optimizer, store, stale, applied>> /\ None' = None
      BY <1>6 DEF Forward, loaderState, None, Passes
    <2>2. stage' = [stage EXCEPT ![g] = "forward"] /\ stage[g] = "batch"
      BY <1>6 DEF Forward
    <2>3. Running' = Running /\ Done' = Done
      BY <2>2 DEF Running, Done, Fetched
    <2> QED BY <2>1, <2>3, <1>m, <1>0
  <1>7. ASSUME NEW g \in DOMAIN stage, Backward(g) PROVE Made'
    BY <1>7, <1>0 DEF Backward
  <1>8. ASSUME NEW g \in DOMAIN stage, NEW p \in owed[g], Accumulate(g, p) PROVE Made'
    <2>1. g \in Running
      BY <1>8 DEF Accumulate, Running
    <2>2. optimizer # {}
      BY <2>1, <1>m
    <2> QED BY <2>2, <1>8, <1>0 DEF Accumulate
  <1>9. CASE ZeroGrad
    BY <1>9, <1>0 DEF ZeroGrad, MayZero
  <1>10. CASE ModelZeroGrad
    BY <1>10, <1>0 DEF ModelZeroGrad, MayZero
  <1>11. CASE Step
    BY <1>11, <1>0 DEF Step
  <1>13. CASE UNCHANGED vars
    BY <1>13, <1>4 DEF vars, trainState, loaderState
  <1> QED BY <1>1, <1>2, <1>3, <1>5, <1>6, <1>7, <1>8, <1>9, <1>10, <1>11, <1>13 DEF Next

LEMMA MadeInit == Init => Made
  <1>1. ASSUME Init PROVE model \in Seq(DOMAIN LayerParams)
    BY <1>1, TrainingAssumption DEF Init
  <1>2. ASSUME Init PROVE Running = {} /\ Done = {}
    BY <1>2 DEF Init, Running, Done
  <1>3. ASSUME Init PROVE \A p \in AllParams : store[p] = undefined /\ applied[p] = None
    BY <1>3 DEF Init
  <1> QED BY <1>1, <1>2, <1>3 DEF Made, Init

-----------------------------------------------------------------------------
(* The storages of the gradients *)

LEMMA SizeKept ==
  ASSUME [Next]_vars
  PROVE  size' = size /\ Passes' = Passes /\ None' = None
  <1>1. size' = size
    BY DEF Next, vars, trainState, loaderState, NewOptimizer, BeginEpoch, Reset, FetchBatch, NextBatch,
           Configure, SetBatchSize, SetShuffle, Forward, Backward, Accumulate, ZeroGrad, ModelZeroGrad,
           Step
  <1> QED BY <1>1 DEF Passes, None

(* A pass is a number of Passes. *)
LEMMA PassFacts ==
  ASSUME Fetched
  PROVE  DOMAIN stage \subseteq Passes /\ DOMAIN owed = DOMAIN stage /\ \A g \in DOMAIN stage : g # 0
  BY DEF Fetched, Passes

LEMMA NoneIsBag == None \in [Passes -> Counts] /\ \A g \in Passes : None[g] = 0
  BY DEF None, Counts

LEMMA OnlyIsBag ==
  ASSUME NEW g \in Passes
  PROVE  Only(g) \in [Passes -> Counts] /\ \A h \in Passes : Only(g)[h] = IF h = g THEN 1 ELSE 0
  BY DEF None, Only, Counts

LEMMA OwnStorage ==
  ASSUME Fetched, Stored, NEW p \in AllParams, NEW q \in AllParams, store[q] = Own(p)
  PROVE  q = p
  <1>1. store[q] # undefined
    BY OwnFacts
  <1>2. ASSUME NEW g \in DOMAIN stage, TakenFrom(g, q) PROVE FALSE
    BY <1>2, PassFacts, OwnFacts DEF TakenFrom
  <1> QED BY <1>1, <1>2, OwnFacts DEF Stored

(* Two parameters whose tensors are on one storage, and one of them has it. *)
LEMMA SharedStorage ==
  ASSUME Fetched, Stored, NEW g \in DOMAIN stage, NEW p \in AllParams, NEW q \in AllParams,
         store[q] = Sent(g, p)
  PROVE  /\ Viewed(q) /\ TakenFrom(g, q) /\ Base[Source[p]] = Base[Source[q]]
         /\ Viewed(p)
         /\ p \in owed[g] => Views(p, q) /\ Views(q, p)
  <1>1. store[q] # undefined /\ store[q] # Own(q)
    BY PassFacts, OwnFacts
  <1>2. Viewed(q) /\ \E h \in DOMAIN stage : TakenFrom(h, q)
    BY <1>1 DEF Stored
  <1>3. PICK h \in DOMAIN stage : TakenFrom(h, q)
    BY <1>2
  <1>4. h = g /\ Base[Source[p]] = Base[Source[q]]
    BY <1>3 DEF TakenFrom, Sent
  <1>5. Viewed(p)
    <2>1. PICK r \in AllParams : Views(q, r)
      BY <1>2 DEF Viewed
    <2>2. Views(p, q) \/ Views(p, r)
      BY <1>4, <2>1 DEF Views
    <2> QED BY <2>2 DEF Viewed
  <1>6. p \in owed[g] => Source[p] # Source[q]
    BY <1>3, <1>4 DEF TakenFrom
  <1> QED BY <1>2, <1>3, <1>4, <1>5, <1>6 DEF Views

(* What AccumulateGrad does: the gradient is on a storage of its own, and   *)
(* has one more pass in it; or it is on the storage of several views.       *)
AccumulatesOnto(g, p) ==
    LET s == store'[p]
    IN  /\ store' = [store EXCEPT ![p] = s] /\ s # undefined
        /\ store[p] # undefined => s = store[p]
        /\ DOMAIN content' = DOMAIN content \cup {s} /\ content'[s] \in [Passes -> Counts]
        /\ \A x \in DOMAIN content : x # s => content'[x] = content[x]
        /\ store[p] = undefined => \/ s = Own(p)
                                   \/ /\ s = Sent(g, p) /\ Viewed(p)
                                      /\ \A q \in owed[g] \ {p} : Source[q] # Source[p]
        /\ ~Viewed(p) =>
              /\ s = Own(p)
              /\ content'[s] = IF store[p] = undefined THEN Only(g) ELSE Plus(content[Own(p)], Only(g))

LEMMA AccumulateEffect ==
  ASSUME Fetched, Made, Stored, NEW g \in DOMAIN stage, NEW p \in owed[g], Accumulate(g, p)
  PROVE  p \in AllParams /\ AccumulatesOnto(g, p)
  <1>0. owed[g] \subseteq AllParams /\ g \in Passes
    <2>1. owed[g] \subseteq ModelParams
      BY PassFacts DEF Fetched
    <2> QED BY <2>1, ParamFacts, PassFacts DEF Made
  <1>1. p \in AllParams /\ store = [q \in AllParams |-> store[q]]
    BY <1>0 DEF Stored
  <1> DEFINE sent == ContentOf(Sent(g, p), g)
  <1>2. sent \in [Passes -> Counts] /\ (~Viewed(p) => sent = Only(g))
    <2>1. CASE Sent(g, p) \in DOMAIN content
      <3>1. PICK q \in AllParams : store[q] = Sent(g, p)
        BY <2>1 DEF Stored
      <3>2. Viewed(p)
        BY <1>1, <3>1, SharedStorage
      <3> QED BY <2>1, <3>2 DEF Stored, ContentOf
    <2>2. CASE Sent(g, p) \notin DOMAIN content
      BY <1>0, <2>2, OnlyIsBag DEF ContentOf
    <2> QED BY <2>1, <2>2
  <1> HIDE DEF sent
  <1>3. CASE store[p] = undefined
    <2> DEFINE s == IF Stealable(g, p) THEN Stolen(g, p) ELSE Own(p)
    <2>1. store' = [store EXCEPT ![p] = s] /\ SetContent(s, sent)
      BY <1>3 DEF Accumulate, FirstGrad, sent
    <2>2. \/ s = Own(p)
          \/ /\ s = Sent(g, p) /\ Viewed(p)
             /\ \A q \in owed[g] \ {p} : Source[q] # Source[p]
      <3> SUFFICES ASSUME s # Own(p)
                   PROVE  /\ s = Sent(g, p) /\ Viewed(p)
                          /\ \A q \in owed[g] \ {p} : Source[q] # Source[p]
        OBVIOUS
      <3>1. /\ Stealable(g, p) /\ s = Sent(g, p)
            /\ \/ \E q \in AllParams : store[q] = Sent(g, p)
               \/ \E q \in owed[g] \ {p} : Sent(g, q) = Sent(g, p)
        BY DEF Stolen
      <3>2. \A q \in owed[g] \ {p} : Source[q] # Source[p]
        BY <3>1 DEF Stealable
      <3>3. Viewed(p)
        <4>1. CASE \E q \in AllParams : store[q] = Sent(g, p)
          BY <1>1, <4>1, SharedStorage
        <4>2. CASE \E q \in owed[g] \ {p} : Sent(g, q) = Sent(g, p)
          <5>1. PICK q \in owed[g] \ {p} : Sent(g, q) = Sent(g, p)
            BY <4>2
          <5>2. Base[Source[q]] = Base[Source[p]] /\ Source[q] # Source[p] /\ q \in AllParams
            BY <1>0, <3>2, <5>1 DEF Sent
          <5> QED BY <5>2 DEF Viewed, Views
        <4> QED BY <3>1, <4>1, <4>2
      <3> QED BY <3>1, <3>2, <3>3
    <2> HIDE DEF s
    <2>3. s # undefined
      BY <2>2, OwnFacts
    <2>4. store'[p] = s
      BY <1>1, <2>1
    <2>5. /\ DOMAIN content' = DOMAIN content \cup {s} /\ content'[s] = sent
          /\ \A x \in DOMAIN content : x # s => content'[x] = content[x]
      BY <2>1 DEF SetContent
    <2> QED BY <1>1, <1>2, <1>3, <2>1, <2>2, <2>3, <2>4, <2>5 DEF AccumulatesOnto
  <1>4. CASE store[p] # undefined
    <2>1. UNCHANGED store /\ SetContent(store[p], Plus(content[store[p]], sent))
      BY <1>4 DEF Accumulate, InPlaceAdd, sent
    <2>2. store[p] \in DOMAIN content /\ content[store[p]] \in [Passes -> Counts]
      BY <1>1, <1>4 DEF Stored
    <2>3. Plus(content[store[p]], sent) \in [Passes -> Counts]
      BY <1>0, <1>2, <2>2, BagFacts
    <2>4. ~Viewed(p) => store[p] = Own(p)
      BY <1>1, <1>4 DEF Stored
    <2>5. /\ DOMAIN content' = DOMAIN content \cup {store[p]}
          /\ content'[store[p]] = Plus(content[store[p]], sent)
          /\ \A x \in DOMAIN content : x # store[p] => content'[x] = content[x]
      BY <2>1 DEF SetContent
    <2>6. store' = [store EXCEPT ![p] = store'[p]] /\ store'[p] = store[p]
      BY <1>1, <2>1
    <2> QED BY <1>1, <1>2, <1>4, <2>3, <2>4, <2>5, <2>6 DEF AccumulatesOnto
  <1> QED BY <1>3, <1>4

(* A pass gives a tensor away once. *)
LEMMA StaysTaken ==
  ASSUME NEW p \in AllParams, store'[p] = store[p], NEW g \in DOMAIN stage, TakenFrom(g, p),
         g \in DOMAIN stage', stage'[g] \in {"backward", "done"}, owed'[g] \subseteq owed[g]
  PROVE  \E h \in DOMAIN stage' : TakenFrom(h, p)'
  <1>1. TakenFrom(g, p)'
    BY DEF TakenFrom, Sent
  <1> QED BY <1>1

LEMMA StoredStep ==
  ASSUME Fetched, Made, Stored, [Next]_vars
  PROVE  Stored'
  <1> DEFINE Place(p) == store[p] = Own(p) \/ (Viewed(p) /\ \E g \in DOMAIN stage : TakenFrom(g, p))
             Names == {store[p] : p \in AllParams} \ {undefined}
  <1>s. size' = size /\ Passes' = Passes /\ None' = None
    BY SizeKept
  <1>i. /\ store = [p \in AllParams |-> store[p]]
        /\ \A p \in AllParams : store[p] # undefined => Place(p)
        /\ \A p, q \in AllParams : p # q /\ store[p] # undefined /\ store[p] = store[q] =>
              Source[p] # Source[q]
        /\ DOMAIN content = Names
        /\ \A s \in DOMAIN content : content[s] \in [Passes -> Counts]
    BY DEF Stored
  <1>0. ASSUME store' = [p \in AllParams |-> store'[p]],
               \A p \in AllParams : store'[p] # undefined => Place(p)',
               \A p, q \in AllParams : p # q /\ store'[p] # undefined /\ store'[p] = store'[q] =>
                   Source[p] # Source[q],
               DOMAIN content' = Names',
               \A s \in DOMAIN content' : content'[s] \in [Passes -> Counts]
        PROVE  Stored'
    BY <1>0, <1>s DEF Stored
  (* Passes that have given something away only go on *)
  <1>1. ASSUME NEW p \in AllParams, store'[p] = store[p], store[p] # undefined,
               \A g \in DOMAIN stage : stage[g] \in {"backward", "done"} =>
                   g \in DOMAIN stage' /\ stage'[g] \in {"backward", "done"} /\ owed'[g] \subseteq owed[g]
        PROVE  Place(p)'
    <2>1. CASE store[p] = Own(p)
      BY <1>1, <2>1
    <2>2. CASE Viewed(p) /\ \E g \in DOMAIN stage : TakenFrom(g, p)
      <3>1. PICK g \in DOMAIN stage : TakenFrom(g, p)
        BY <2>2
      <3>2. \E h \in DOMAIN stage' : TakenFrom(h, p)'
        BY <1>1, <3>1, StaysTaken DEF TakenFrom
      <3> QED BY <2>2, <3>2
    <2> QED BY <1>1, <1>i, <2>1, <2>2
  <1>2. ASSUME store' = store, DOMAIN content' = DOMAIN content,
               \A s \in DOMAIN content : content'[s] \in {content[s], None},
               \A g \in DOMAIN stage : stage[g] \in {"backward", "done"} =>
                   g \in DOMAIN stage' /\ stage'[g] \in {"backward", "done"} /\ owed'[g] \subseteq owed[g]
        PROVE  Stored'
    <2>1. \A p \in AllParams : store'[p] # undefined => Place(p)'
      BY <1>1, <1>2
    <2>2. \A s \in DOMAIN content' : content'[s] \in [Passes -> Counts]
      BY <1>2, <1>i, NoneIsBag
    <2> HIDE DEF Place
    <2> QED BY <1>0, <1>2, <1>i, <2>1, <2>2
  <1>3. CASE BeginEpoch
    <2>1. /\ UNCHANGED store /\ \A p \in AllParams : store[p] \in {undefined, Own(p)}
          /\ DOMAIN content' = DOMAIN content
          /\ \A s \in DOMAIN content : content'[s] \in {content[s], None}
      BY <1>3 DEF BeginEpoch
    <2>2. \A p \in AllParams : store'[p] # undefined => Place(p)'
      BY <2>1
    <2>3. \A s \in DOMAIN content' : content'[s] \in [Passes -> Counts]
      BY <2>1, <1>i, NoneIsBag
    <2> HIDE DEF Place
    <2> QED BY <1>0, <1>i, <2>1, <2>2, <2>3
  <1>4. CASE ModelZeroGrad
    <2>1. /\ UNCHANGED <<store, stage, owed>> /\ DOMAIN content' = DOMAIN content
          /\ \A s \in DOMAIN content : content'[s] \in {content[s], None}
      BY <1>4 DEF ModelZeroGrad
    <2> QED BY <1>2, <2>1
  <1>5. ASSUME NEW g \in DOMAIN stage, NEW p \in owed[g], Accumulate(g, p) PROVE Stored'
    <2> DEFINE s == store'[p]
    <2>1. p \in AllParams /\ AccumulatesOnto(g, p)
      BY <1>5, AccumulateEffect
    <2>2. /\ store' = [store EXCEPT ![p] = s] /\ s # undefined
          /\ store[p] # undefined => s = store[p]
          /\ DOMAIN content' = DOMAIN content \cup {s} /\ content'[s] \in [Passes -> Counts]
          /\ \A x \in DOMAIN content : x # s => content'[x] = content[x]
          /\ store[p] = undefined => \/ s = Own(p)
                                     \/ /\ s = Sent(g, p) /\ Viewed(p)
                                        /\ \A q \in owed[g] \ {p} : Source[q] # Source[p]
      BY <2>1 DEF AccumulatesOnto
    <2>3. /\ DOMAIN stage' = DOMAIN stage /\ stage'[g] \in {"backward", "done"}
          /\ \A h \in DOMAIN stage : h # g => stage'[h] = stage[h]
          /\ owed'[g] = owed[g] \ {p} /\ \A h \in DOMAIN stage : owed'[h] \subseteq owed[h]
      <3>1. /\ stage[g] = "backward" /\ owed' = [owed EXCEPT ![g] = @ \ {p}]
            /\ stage' \in {stage, [stage EXCEPT ![g] = "done"]}
        BY <1>5 DEF Accumulate
      <3> QED BY <3>1, PassFacts
    <2>4. \A h \in DOMAIN stage : stage[h] \in {"backward", "done"} =>
             h \in DOMAIN stage' /\ stage'[h] \in {"backward", "done"} /\ owed'[h] \subseteq owed[h]
      BY <2>3
    <2>5. ASSUME NEW q \in AllParams, store'[q] # undefined PROVE Place(q)'
      <3>1. CASE store[q] # undefined
        <4>1. store'[q] = store[q]
          <5>1. CASE q = p
            BY <2>2, <3>1, <5>1
          <5>2. CASE q # p
            BY <1>i, <2>2, <5>2
          <5> QED BY <5>1, <5>2
        <4> QED BY <1>1, <2>4, <3>1, <4>1
      <3>2. CASE store[q] = undefined
        <4>1. q = p
          BY <1>i, <2>1, <2>2, <2>5, <3>2
        <4>2. CASE s = Own(p)
          BY <4>1, <4>2
        <4>3. CASE s = Sent(g, p) /\ Viewed(p) /\ \A r \in owed[g] \ {p} : Source[r] # Source[p]
          <5>1. TakenFrom(g, p)'
            BY <2>3, <4>3 DEF TakenFrom, Sent
          <5> QED BY <2>3, <4>1, <4>3, <5>1
        <4> QED BY <2>2, <3>2, <4>1, <4>2, <4>3
      <3> QED BY <3>1, <3>2
    <2>a. ASSUME NEW q \in AllParams, q # p, store'[q] = s PROVE Source[p] # Source[q]
      <3>1. store[q] = s
        BY <1>i, <2>1, <2>2, <2>a
      <3>2. CASE store[p] # undefined
        BY <1>i, <2>1, <2>2, <2>a, <3>1, <3>2
      <3>3. CASE s = Own(p)
        BY <2>1, <2>a, <3>1, <3>3, OwnStorage
      <3>4. CASE s = Sent(g, p)
        BY <2>1, <3>1, <3>4, SharedStorage DEF Views
      <3> QED BY <2>2, <3>2, <3>3, <3>4
    <2>b. \A q, t \in AllParams : q # t /\ store'[q] # undefined /\ store'[q] = store'[t] =>
             Source[q] # Source[t]
      <3>1. \A q \in AllParams : q # p => store'[q] = store[q]
        BY <1>i, <2>1, <2>2
      <3> QED BY <1>i, <2>1, <2>a, <3>1
    <2>6. DOMAIN content' = Names'
      <3>1. \A q \in AllParams : store'[q] = IF q = p THEN s ELSE store[q]
        BY <1>i, <2>1, <2>2
      <3> QED BY <1>i, <2>1, <2>2, <3>1
    <2>7. \A x \in DOMAIN content' : content'[x] \in [Passes -> Counts]
      BY <1>i, <2>2
    <2>8. store' = [q \in AllParams |-> store'[q]]
      BY <1>i, <2>1, <2>2
    <2> HIDE DEF Place, s
    <2> QED BY <1>0, <2>5, <2>b, <2>6, <2>7, <2>8
  <1>6. CASE ZeroGrad
    <2>1. /\ store' = [p \in AllParams |-> IF p \in optimizer THEN undefined ELSE store[p]]
          /\ UNCHANGED <<stage, owed>>
      BY <1>6 DEF ZeroGrad
    <2>2. /\ DOMAIN content' = Names'
          /\ \A s \in DOMAIN content' : content'[s] = content[s]
      BY <1>6 DEF ZeroGrad, Restrict
    <2>3. DOMAIN content' \subseteq DOMAIN content
      BY <1>i, <2>1, <2>2
    <2>4. ASSUME NEW p \in AllParams, store'[p] # undefined PROVE Place(p)'
      <3>1. store'[p] = store[p]
        BY <2>1, <2>4
      <3> QED BY <1>1, <2>1, <2>4, <3>1
    <2>5. \A s \in DOMAIN content' : content'[s] \in [Passes -> Counts]
      BY <1>i, <2>2, <2>3
    <2>6. store' = [p \in AllParams |-> store'[p]]
      BY <2>1
    <2>7. \A p, q \in AllParams : p # q /\ store'[p] # undefined /\ store'[p] = store'[q] =>
             Source[p] # Source[q]
      BY <1>i, <2>1
    <2> HIDE DEF Place, Names
    <2> QED BY <1>0, <2>2, <2>4, <2>5, <2>6, <2>7
  <1>7. ASSUME UNCHANGED <<store, content, stage, owed>> PROVE Stored'
    BY <1>2, <1>7
  <1>8. CASE FetchBatch
    BY <1>2, <1>8, FetchKeeps DEF FetchBatch
  <1>9. ASSUME NEW g \in DOMAIN stage, Forward(g) \/ Backward(g) PROVE Stored'
    <2>1. /\ UNCHANGED <<store, content>> /\ DOMAIN stage' = DOMAIN stage
          /\ stage[g] \notin {"backward", "done"}
          /\ \A h \in DOMAIN stage : h # g => stage'[h] = stage[h] /\ owed'[h] = owed[h]
      BY <1>9, PassFacts DEF Forward, Backward
    <2> QED BY <1>2, <2>1
  <1>10. \/ BeginEpoch \/ ModelZeroGrad \/ ZeroGrad \/ FetchBatch
         \/ \E g \in DOMAIN stage : Forward(g) \/ Backward(g)
         \/ \E g \in DOMAIN stage : \E p \in owed[g] : Accumulate(g, p)
         \/ UNCHANGED <<store, content, stage, owed>>
    BY DEF Next, vars, trainState, NewOptimizer, Configure, Step
  <1> HIDE DEF Place, Names
  <1> QED BY <1>3, <1>4, <1>5, <1>6, <1>7, <1>8, <1>9, <1>10

LEMMA StoredInit == Init => Stored
  BY DEF Init, Stored

(* Gradients of two parameters share memory, or a gradient shares it with a *)
(* tensor still to be given to another parameter, only if backward sends    *)
(* two views of one storage, in every model and whatever backward sends     *)
(* twice: accumulateGrad steals new_grad only when no other input and no    *)
(* view refers to it.                                                       *)
THEOREM GradientsStaySeparate == Spec => []GradientsAreSeparate
  <1> DEFINE Inv == Fetched /\ Made /\ Stored
  <1>1. Init => Inv
    BY FetchedInit, MadeInit, StoredInit
  <1>2. Inv /\ [Next]_vars => Inv'
    BY FetchedStep, MadeStep, StoredStep
  <1>3. Inv => GradientsAreSeparate
    <2> SUFFICES ASSUME Fetched, Made, Stored, NEW p \in AllParams, store[p] # undefined
                 PROVE  /\ \A q \in AllParams \ {p} : store[q] = store[p] => Views(p, q)
                        /\ \A g \in DOMAIN owed, q \in AllParams \ {p} :
                              q \in owed[g] /\ Sent(g, q) = store[p] => Views(p, q)
      BY DEF GradientsAreSeparate
    <2>1. ASSUME NEW g \in DOMAIN owed, NEW q \in owed[g], q \in AllParams, Sent(g, q) = store[p]
          PROVE  Views(p, q)
      BY <2>1, PassFacts, SharedStorage
    <2>2. ASSUME NEW q \in AllParams \ {p}, store[q] = store[p] PROVE Views(p, q)
      <3>1. CASE store[p] = Own(p) \/ store[q] = Own(q)
        <4>1. CASE store[p] = Own(p)
          BY <2>2, <4>1, OwnStorage
        <4>2. CASE store[q] = Own(q)
          BY <2>2, <4>2, OwnStorage
        <4> QED BY <3>1, <4>1, <4>2
      <3>2. CASE store[p] # Own(p) /\ store[q] # Own(q)
        <4>1. PICK g \in DOMAIN stage : TakenFrom(g, p)
          BY <3>2 DEF Stored
        <4>2. store[q] = Sent(g, p)
          BY <2>2, <4>1 DEF TakenFrom
        <4>3. Base[Source[p]] = Base[Source[q]]
          BY <4>2, SharedStorage
        <4>4. Source[p] # Source[q]
          BY <2>2 DEF Stored
        <4> QED BY <4>3, <4>4 DEF Views
      <3> QED BY <3>1, <3>2
    <2> QED BY <2>1, <2>2
  <1> QED BY <1>1, <1>2, <1>3, PTL DEF Spec

-----------------------------------------------------------------------------
(* The sums *)

LEMMA SummedStep ==
  ASSUME TrainInv, [Next]_vars
  PROVE  Summed'
  <1>s. size' = size /\ Passes' = Passes
    BY SizeKept
  <1>i. /\ Fetched /\ Made /\ Stored
        /\ stepped \subseteq Done /\ stale \in BOOLEAN
        /\ stale => Running = {} /\ Done = stepped
        /\ ~stale => \A p \in optimizer, g \in Passes :
              ~Viewed(p) => InGradient(p, g) = IF Pending(p, g) THEN 1 ELSE 0
    BY DEF TrainInv, Summed
  <1>p. optimizer \subseteq AllParams /\ optimizer \subseteq ModelParams
    BY <1>i, ParamFacts DEF Made
  <1>0. ASSUME stepped' \subseteq Done', stale' \in BOOLEAN, stale' => Running' = {} /\ Done' = stepped',
               ~stale' => \A p \in optimizer', g \in Passes :
                             ~Viewed(p) => InGradient(p, g)' = IF Pending(p, g)' THEN 1 ELSE 0
        PROVE  Summed'
    BY <1>0, <1>s DEF Summed
  (* Steps that leave the gradients and what is pending alone *)
  <1>1. ASSUME UNCHANGED <<optimizer, store, content, stale, stepped>>, Running' = Running, Done' = Done,
               \A p \in optimizer, g \in Passes : Pending(p, g)' <=> Pending(p, g)
        PROVE  Summed'
    <2>1. \A p \in optimizer, g \in Passes : InGradient(p, g)' = InGradient(p, g)
      BY <1>1 DEF InGradient
    <2> QED BY <1>0, <1>1, <1>i, <2>1
  <1>2. ASSUME UNCHANGED <<optimizer, stage, owed, store, content, stale, stepped>> PROVE Summed'
    BY <1>1, <1>2 DEF Running, Done, Pending
  <1>3. ASSUME Running = {}, Done = stepped PROVE \A p, g : ~Pending(p, g)
    BY <1>3 DEF Running, Done, Pending
  <1>4. CASE NewOptimizer
    <2>1. UNCHANGED <<stage, owed, store, stale, stepped>> /\ optimizer' = Parameters /\ optimizer = {}
      BY <1>4 DEF NewOptimizer
    <2>2. Running = {} /\ Done = {} /\ ~stale /\ \A p \in AllParams : store[p] = undefined
      BY <1>i, <2>1 DEF Made
    <2>3. Running' = {} /\ Done' = {} /\ stepped = {}
      BY <1>i, <2>1, <2>2 DEF Running, Done
    <2>4. ASSUME NEW p \in Parameters, NEW g \in Passes PROVE InGradient(p, g)' = 0 /\ ~Pending(p, g)'
      <3>1. p \in AllParams
        BY <1>i, ParamFacts DEF Made
      <3>2. InGradient(p, g)' = 0
        BY <2>1, <2>2, <3>1 DEF InGradient
      <3> QED BY <2>1, <2>2, <3>2 DEF Pending, Running, Done
    <2> QED BY <1>0, <1>i, <2>1, <2>2, <2>3, <2>4
  <1>5. CASE BeginEpoch
    <2>1. /\ UNCHANGED <<optimizer, store, stale>> /\ stage' = <<>> /\ stepped' = {}
          /\ Running = {} /\ Done = stepped
          /\ content' = [s \in DOMAIN content |->
                             IF \E p \in optimizer : store[p] = s THEN content[s] ELSE None]
      BY <1>5 DEF BeginEpoch
    <2>2. Running' = {} /\ Done' = {}
      BY <2>1 DEF Running, Done
    <2>3. \A p, g : ~Pending(p, g)'
      BY <2>1 DEF Pending
    <2>4. ASSUME NEW p \in optimizer, NEW g \in Passes PROVE InGradient(p, g)' = InGradient(p, g)
      <3>1. CASE store[p] = undefined
        BY <2>1, <3>1 DEF InGradient
      <3>2. CASE store[p] # undefined
        <4>1. store[p] \in DOMAIN content
          BY <1>i, <1>p, <3>2 DEF Stored
        <4>2. content'[store[p]] = content[store[p]]
          BY <2>1, <4>1
        <4> QED BY <2>1, <4>2 DEF InGradient
      <3> QED BY <3>1, <3>2
    <2> QED BY <1>0, <1>3, <1>i, <2>1, <2>2, <2>3, <2>4
  <1>6. CASE FetchBatch
    <2>1. UNCHANGED <<optimizer, store, content, stale, stepped>>
      BY <1>6 DEF FetchBatch
    <2>2. /\ Running' = Running /\ Done' = Done /\ DOMAIN stage \subseteq DOMAIN stage'
          /\ \A g \in DOMAIN stage : stage'[g] = stage[g] /\ owed'[g] = owed[g]
          /\ \A g \in DOMAIN stage' \ DOMAIN stage : stage'[g] = "batch"
      BY <1>6, <1>i, FetchKeeps
    <2>3. \A p \in optimizer, g \in Passes : Pending(p, g)' <=> Pending(p, g)
      BY <2>1, <2>2 DEF Pending
    <2> QED BY <1>1, <2>1, <2>2, <2>3
  <1>7. CASE Configure
    BY <1>2, <1>7 DEF Configure, trainState
  <1>8. ASSUME NEW g \in DOMAIN stage, Forward(g) PROVE Summed'
    <2>1. /\ UNCHANGED <<optimizer, owed, store, content, stale, stepped>>
          /\ stage' = [stage EXCEPT ![g] = "forward"] /\ stage[g] = "batch"
      BY <1>8 DEF Forward
    <2>2. \A h \in DOMAIN stage : stage'[h] = IF h = g THEN "forward" ELSE stage[h]
      BY <2>1
    <2>3. DOMAIN stage' = DOMAIN stage
      BY <2>1
    <2>4. Running' = Running /\ Done' = Done
      BY <2>1, <2>2, <2>3 DEF Running, Done
    <2>5. \A p \in optimizer, h \in Passes : Pending(p, h)' <=> Pending(p, h)
      BY <2>1, <2>2, <2>3 DEF Pending
    <2> QED BY <1>1, <2>1, <2>4, <2>5
  <1>9. ASSUME NEW g \in DOMAIN stage, Backward(g) PROVE Summed'
    <2>1. /\ UNCHANGED <<optimizer, store, content, stale, stepped>> /\ ~stale
          /\ stage' = [stage EXCEPT ![g] = "backward"] /\ stage[g] = "forward"
          /\ owed' = [owed EXCEPT ![g] = ModelParams]
      BY <1>9 DEF Backward
    <2>2. /\ DOMAIN stage' = DOMAIN stage /\ DOMAIN owed = DOMAIN stage
          /\ \A h \in DOMAIN stage : stage'[h] = IF h = g THEN "backward" ELSE stage[h]
          /\ \A h \in DOMAIN stage : owed'[h] = IF h = g THEN ModelParams ELSE owed[h]
      BY <1>i, <2>1, PassFacts
    <2>3. Done' = Done
      BY <2>1, <2>2 DEF Done
    <2>4. \A p \in optimizer, h \in Passes : Pending(p, h)' <=> Pending(p, h)
      BY <1>p, <2>1, <2>2 DEF Pending
    <2>5. \A p \in optimizer, h \in Passes : InGradient(p, h)' = InGradient(p, h)
      BY <2>1 DEF InGradient
    <2> QED BY <1>0, <1>i, <2>1, <2>3, <2>4, <2>5
  <1>10. ASSUME NEW g \in DOMAIN stage, NEW p \in owed[g], Accumulate(g, p) PROVE Summed'
    <2>1. /\ UNCHANGED <<optimizer, stale, stepped>> /\ stage[g] = "backward"
          /\ owed' = [owed EXCEPT ![g] = @ \ {p}]
          /\ stage' \in {stage, [stage EXCEPT ![g] = "done"]}
      BY <1>10 DEF Accumulate
    <2>2. ~stale /\ g \notin stepped /\ g \in Passes
      BY <1>i, <2>1, PassFacts DEF Running, Done
    <2>3. /\ DOMAIN stage' = DOMAIN stage /\ DOMAIN owed = DOMAIN stage
          /\ \A h \in DOMAIN stage : h # g => stage'[h] = stage[h] /\ owed'[h] = owed[h]
          /\ stage'[g] \in {"backward", "done"} /\ owed'[g] = owed[g] \ {p}
      BY <1>i, <2>1, PassFacts
    <2>4. stepped \subseteq Done'
      BY <1>i, <2>2, <2>3 DEF Done
    <2>5. \A q, h : Pending(q, h)' <=> (Pending(q, h) \/ (q = p /\ h = g))
      BY <2>1, <2>2, <2>3 DEF Pending
    <2>6. ~Pending(p, g)
      BY DEF Pending
    <2>7. p \in AllParams /\ AccumulatesOnto(g, p)
      BY <1>10, <1>i, AccumulateEffect
    <2> DEFINE s == store'[p]
               bag == IF store[p] = undefined THEN Only(g) ELSE Plus(content[Own(p)], Only(g))
    <2>8. /\ store' = [store EXCEPT ![p] = s] /\ DOMAIN content' = DOMAIN content \cup {s}
          /\ \A x \in DOMAIN content : x # s => content'[x] = content[x]
          /\ s = store[p] \/ (store[p] = undefined /\ s \in {Own(p), Sent(g, p)})
          /\ s # undefined
          /\ ~Viewed(p) => s = Own(p) /\ content'[s] = bag
      BY <2>7 DEF AccumulatesOnto
    <2>9. ASSUME NEW q \in optimizer, NEW h \in Passes, ~Viewed(q)
          PROVE  InGradient(q, h)' = IF Pending(q, h)' THEN 1 ELSE 0
      <3>0. InGradient(q, h) = IF Pending(q, h) THEN 1 ELSE 0
        BY <1>i, <2>2, <2>9
      <3>1. CASE q # p
        <4>1. store'[q] = store[q] /\ (store[q] # undefined => store[q] = Own(q) /\ store[q] \in DOMAIN content)
          BY <1>i, <1>p, <2>8, <2>9, <3>1 DEF Stored
        <4>2. Own(q) # s
          <5>1. CASE s = store[p]
            BY <1>i, <1>p, <2>7, <3>1, <5>1, OwnStorage
          <5>2. CASE s \in {Own(p), Sent(g, p)}
            BY <1>i, <3>1, <5>2, OwnFacts, PassFacts
          <5> QED BY <2>8, <5>1, <5>2
        <4>3. InGradient(q, h)' = InGradient(q, h)
          BY <2>8, <4>1, <4>2 DEF InGradient
        <4> QED BY <2>5, <3>0, <3>1, <4>3
      <3>2. CASE q = p
        <4>1. InGradient(p, h)' = bag[h] /\ ~Viewed(p)
          <5>1. ~Viewed(p) /\ store'[p] = Own(p) /\ content'[Own(p)] = bag
            BY <2>8, <2>9, <3>2
          <5> QED BY <5>1, OwnFacts DEF InGradient
        <4>2. Only(g)[h] = IF h = g THEN 1 ELSE 0
          BY <2>2, OnlyIsBag
        <4>3. CASE store[p] = undefined
          <5>1. InGradient(p, h) = 0
            BY <4>3 DEF InGradient
          <5>2. ~Pending(p, h)
            BY <3>0, <3>2, <5>1
          <5> QED BY <2>5, <3>2, <4>1, <4>2, <4>3, <5>2
        <4>4. CASE store[p] # undefined
          <5>1. store[p] = Own(p) /\ content[Own(p)] \in [Passes -> Counts]
            BY <1>i, <2>7, <4>1, <4>4 DEF Stored
          <5>2. content[Own(p)][h] = IF Pending(p, h) THEN 1 ELSE 0
            BY <3>0, <3>2, <4>4, <5>1 DEF InGradient
          <5>3. Only(g) \in [Passes -> Counts]
            BY <2>2, OnlyIsBag
          <5>4. bag = Plus(content[Own(p)], Only(g))
            BY <4>4
          <5>5. CASE h = g
            <6>1. bag[h] = 1
              BY <2>6, <4>2, <5>1, <5>2, <5>3, <5>4, <5>5, BagFacts
            <6> QED BY <2>5, <3>2, <4>1, <5>5, <6>1
          <5>6. CASE h # g
            <6>1. bag[h] = content[Own(p)][h]
              BY <4>2, <5>1, <5>3, <5>4, <5>6, BagFacts
            <6> QED BY <2>5, <3>2, <4>1, <5>2, <5>6, <6>1
          <5> QED BY <5>5, <5>6
        <4> QED BY <4>3, <4>4
      <3> QED BY <3>1, <3>2
    <2> QED BY <1>0, <1>i, <2>1, <2>2, <2>4, <2>9
  <1>11. CASE ZeroGrad
    <2>1. /\ UNCHANGED <<optimizer, stage, owed, stepped>> /\ stale' = FALSE
          /\ Running = {} /\ Done = stepped
          /\ store' = [p \in AllParams |-> IF p \in optimizer THEN undefined ELSE store[p]]
      BY <1>11 DEF ZeroGrad, MayZero
    <2>2. Done' = Done
      BY <2>1 DEF Done
    <2>3. \A p, g : ~Pending(p, g)'
      BY <2>1, <1>3 DEF Pending
    <2>4. \A p \in optimizer, g \in Passes : InGradient(p, g)' = 0
      BY <2>1, <1>p DEF InGradient
    <2> QED BY <1>0, <1>i, <2>1, <2>2, <2>3, <2>4
  <1>12. CASE ModelZeroGrad
    <2>1. /\ UNCHANGED <<optimizer, stage, owed, stepped, store>> /\ stale' = FALSE
          /\ Running = {} /\ Done = stepped /\ optimizer # {}
          /\ content' = [s \in DOMAIN content |->
                             IF \E p \in Parameters : store[p] = s THEN None ELSE content[s]]
      BY <1>12 DEF ModelZeroGrad, MayZero
    <2>2. Done' = Done /\ optimizer = Parameters
      BY <1>i, <2>1 DEF Done, Made
    <2>3. \A p, g : ~Pending(p, g)'
      BY <2>1, <1>3 DEF Pending
    <2>4. ASSUME NEW p \in optimizer, NEW g \in Passes PROVE InGradient(p, g)' = 0
      <3>1. ASSUME store[p] # undefined PROVE content'[store[p]] = None
        <4>1. store[p] \in DOMAIN content
          BY <1>i, <1>p, <3>1 DEF Stored
        <4> QED BY <2>1, <2>2, <4>1
      <3> QED BY <2>1, <3>1, NoneIsBag DEF InGradient
    <2> QED BY <1>0, <1>i, <2>1, <2>2, <2>3, <2>4
  <1>13. CASE Step
    <2>1. stepped' = Done /\ stale' = TRUE /\ stage' = stage /\ Running = {}
      BY <1>13 DEF Step
    <2>2. Done' = Done /\ Running' = {}
      BY <2>1 DEF Done, Running
    <2> QED BY <1>0, <2>1, <2>2
  <1>15. CASE UNCHANGED vars
    BY <1>2, <1>15 DEF vars, trainState
  <1> QED BY <1>4, <1>5, <1>6, <1>7, <1>8, <1>9, <1>10, <1>11, <1>12, <1>13, <1>15 DEF Next

LEMMA AppliedStep ==
  ASSUME TrainInv, [Next]_vars
  PROVE  Applied'
  <1>s. size' = size /\ Passes' = Passes /\ None' = None
    BY SizeKept
  <1>i. /\ Fetched /\ Made /\ Stored /\ Summed
        /\ applied \in [AllParams -> [Passes -> Counts]]
        /\ \A p \in optimizer, g \in Passes :
              ~Viewed(p) => applied[p][g] = IF g \in stepped THEN 1 ELSE 0
    BY DEF TrainInv, Applied
  <1>p. optimizer \subseteq AllParams /\ Parameters \subseteq AllParams
    BY <1>i, ParamFacts DEF Made
  <1>0. ASSUME applied' \in [AllParams -> [Passes -> Counts]],
               \A p \in optimizer', g \in Passes :
                   ~Viewed(p) => applied'[p][g] = IF g \in stepped' THEN 1 ELSE 0
        PROVE  Applied'
    BY <1>0, <1>s DEF Applied
  <1>1. ASSUME UNCHANGED <<optimizer, applied, stepped>> PROVE Applied'
    BY <1>0, <1>1, <1>i
  <1>2. CASE NewOptimizer
    <2>1. UNCHANGED <<applied, stepped>> /\ optimizer' = Parameters /\ optimizer = {}
      BY <1>2 DEF NewOptimizer
    <2>2. stepped = {} /\ \A p \in AllParams : applied[p] = None
      BY <1>i, <2>1 DEF Made, Summed
    <2> QED BY <1>0, <1>i, <1>p, <2>1, <2>2, NoneIsBag
  <1>3. CASE BeginEpoch
    <2>1. optimizer' = optimizer /\ stepped' = {} /\ applied' = [p \in AllParams |-> None]
      BY <1>3, <1>s DEF BeginEpoch
    <2> QED BY <1>0, <1>p, <2>1, NoneIsBag
  <1>4. CASE Step
    <2>1. /\ optimizer' = optimizer /\ stepped' = Done /\ Running = {} /\ ~stale
          /\ applied' = [p \in AllParams |->
                             IF p \in optimizer /\ store[p] # undefined
                             THEN Plus(applied[p], content[store[p]]) ELSE applied[p]]
      BY <1>4 DEF Step
    <2>2. ASSUME NEW p \in AllParams, store[p] # undefined PROVE content[store[p]] \in [Passes -> Counts]
      BY <1>i, <2>2 DEF Stored
    <2>3. ASSUME NEW p \in AllParams PROVE applied'[p] \in [Passes -> Counts]
      <3>1. applied[p] \in [Passes -> Counts]
        BY <1>i
      <3>2. CASE p \in optimizer /\ store[p] # undefined
        <4>1. content[store[p]] \in [Passes -> Counts]
          BY <2>2, <3>2
        <4>2. Plus(applied[p], content[store[p]]) \in [Passes -> Counts]
          BY <3>1, <4>1 DEF Plus, Counts
        <4> QED BY <2>1, <3>2, <4>2
      <3>3. CASE ~(p \in optimizer /\ store[p] # undefined)
        BY <2>1, <3>1, <3>3
      <3> QED BY <3>2, <3>3
    <2>4. applied' \in [AllParams -> [Passes -> Counts]]
      BY <2>1, <2>3
    <2>5. ASSUME NEW p \in optimizer, NEW g \in Passes, ~Viewed(p)
          PROVE  applied'[p][g] = IF g \in stepped' THEN 1 ELSE 0
      (* Of what is done exactly what no Step has used is in the gradient *)
      <3>1. p \in AllParams /\ applied[p] \in [Passes -> Counts]
        BY <1>i, <1>p
      <3>2. Pending(p, g) <=> g \in Done /\ g \notin stepped
        BY <1>i, <2>1 DEF Pending, Done, Running, Fetched
      <3>3. InGradient(p, g) = IF g \in Done /\ g \notin stepped THEN 1 ELSE 0
        BY <1>i, <2>1, <2>5, <3>2 DEF Summed
      <3>4. stepped \subseteq Done /\ applied[p][g] = IF g \in stepped THEN 1 ELSE 0
        BY <1>i, <2>5 DEF Summed
      <3>5. CASE store[p] = undefined
        <4>1. InGradient(p, g) = 0
          BY <3>5 DEF InGradient
        <4>2. applied'[p] = applied[p]
          BY <2>1, <3>1, <3>5
        <4> QED BY <2>1, <3>3, <3>4, <4>1, <4>2
      <3>6. CASE store[p] # undefined
        <4>1. applied'[p] = Plus(applied[p], content[store[p]]) /\ content[store[p]] \in [Passes -> Counts]
          BY <2>1, <2>2, <3>1, <3>6
        <4>2. content[store[p]][g] = IF g \in Done /\ g \notin stepped THEN 1 ELSE 0
          BY <3>3, <3>6 DEF InGradient
        <4>3. /\ applied[p][g] = 0 => applied'[p][g] = content[store[p]][g]
              /\ content[store[p]][g] = 0 => applied'[p][g] = applied[p][g]
          BY <3>1, <4>1, BagFacts
        <4> QED BY <2>1, <3>4, <4>2, <4>3
      <3> QED BY <3>5, <3>6
    <2> QED BY <1>0, <2>1, <2>4, <2>5
  <1>5. NewOptimizer \/ BeginEpoch \/ Step \/ UNCHANGED <<optimizer, applied, stepped>>
    BY DEF Next, vars, trainState, FetchBatch, Configure, Forward, Backward, Accumulate, ZeroGrad,
           ModelZeroGrad
  <1> QED BY <1>1, <1>2, <1>3, <1>4, <1>5

(* Every parameter the optimizer has, except those that backward sends      *)
(* views of one storage, is updated with every batch exactly once, by the   *)
(* Step after its Backward, for every model and dataset and any number of   *)
(* passes under way: accumulateGrad loses or repeats no pass, and Step and  *)
(* the two ZeroGrads use and clear the same parameters.                     *)
THEOREM BatchesTrainOnce == Spec => []TrainedOnce
  <1>1. Init => TrainInv
    <2> SUFFICES ASSUME Init PROVE TrainInv
      OBVIOUS
    <2>1. Fetched /\ Made /\ Stored
      BY FetchedInit, MadeInit, StoredInit
    <2>2. Summed
      BY DEF Init, Summed
    <2>3. Applied
      BY NoneIsBag DEF Init, Applied
    <2> QED BY <2>1, <2>2, <2>3 DEF TrainInv
  <1>2. TrainInv /\ [Next]_vars => TrainInv'
    BY FetchedStep, MadeStep, StoredStep, SummedStep, AppliedStep DEF TrainInv
  <1>3. TrainInv => TrainedOnce
    BY PassFacts DEF TrainInv, Applied, TrainedOnce
  <1> QED BY <1>1, <1>2, <1>3, PTL DEF Spec
-----------------------------------------------------------------------------
(* The DataLoader *)

(* An order of the dataset: every index, each at one place. *)
Orders(n) ==
    {s \in [0 .. n - 1 -> 0 .. n - 1] :
        /\ \A i, j \in 0 .. n - 1 : s[i] = s[j] => i = j
        /\ \A x \in 0 .. n - 1 : \E i \in 0 .. n - 1 : s[i] = x}

(* What replaces induction over numbers: a least counterexample. *)
LEMMA LeastNumber ==
  ASSUME NEW T \in SUBSET Nat, T # {}
  PROVE  \E x \in T : \A y \in T : x <= y
  <1>1. PICK x \in T : \A y \in T : ~(<<y, x>> \in OpToRel(<, Nat))
    BY NatLessThanWellFounded, WFMin
  <1>2. ASSUME NEW y \in T PROVE x <= y
    <2>1. <<y, x>> \in Nat \X Nat
      OBVIOUS
    <2>2. ~(y < x)
      BY <1>1, <2>1 DEF OpToRel
    <2> QED BY <2>2
  <1> QED BY <1>2

(* make, and the loop that fills it. *)
LEMMA IdentityIsOrder ==
  ASSUME NEW n \in Nat
  PROVE  Identity(n) \in Orders(n)
  BY DEF Identity, Orders

(* The two assignments of the swap lose no index. *)
LEMMA SwapKeepsOrder ==
  ASSUME NEW n \in Nat, NEW s \in Orders(n), NEW i \in 0 .. n - 1, NEW j \in 0 .. n - 1
  PROVE  Swapped(s, i, j) \in Orders(n)
  <1> DEFINE r == Swapped(s, i, j)
  <1>1. s \in [0 .. n - 1 -> 0 .. n - 1]
    BY DEF Orders
  <1>2. r = [q \in 0 .. n - 1 |-> IF q = j THEN s[i] ELSE IF q = i THEN s[j] ELSE s[q]]
    BY <1>1 DEF Swapped
  <1> HIDE DEF r
  <1>3. \A p, q \in 0 .. n - 1 : r[p] = r[q] => p = q
    BY <1>2 DEF Orders
  <1>4. ASSUME NEW x \in 0 .. n - 1 PROVE \E q \in 0 .. n - 1 : r[q] = x
    <2>1. PICK q \in 0 .. n - 1 : s[q] = x
      BY DEF Orders
    <2> QED BY <1>2, <2>1
  <1>5. r \in [0 .. n - 1 -> 0 .. n - 1]
    BY <1>1, <1>2
  <1> QED BY <1>3, <1>4, <1>5 DEF Orders, r

(* One round of the shuffle, of the array s the rounds before it left. *)
Round(n, s, i) == IF i = n THEN Identity(n) ELSE Swapped(s, i, Partner(i))

(* The place a round exchanges with i is one of 0 .. i. *)
LEMMA RoundKeepsOrder ==
  ASSUME NEW n \in Nat, NEW i \in 1 .. n, NEW s, i = n \/ s \in Orders(n)
  PROVE  Round(n, s, i) \in Orders(n)
  <1>1. CASE i = n
    BY <1>1, IdentityIsOrder DEF Round
  <1>2. CASE i # n
    <2>1. i \in 0 .. n - 1 /\ i + 1 \in Nat \ {0} /\ i * 6700417 \in Int
      BY <1>2, SMT
    <2>2. \A x \in Int, y \in Nat \ {0} : x % y \in 0 .. y - 1
      OBVIOUS
    <2>3. Partner(i) \in 0 .. (i + 1) - 1
      BY <2>1, <2>2, SMT DEF Partner
    <2>4. Partner(i) \in 0 .. n - 1
      BY <2>1, <2>3
    <2> QED BY <1>2, <2>1, <2>4, SwapKeepsOrder DEF Round
  <1> QED BY <1>1, <1>2

(* f has the arrays after the rounds from n down to m. *)
Rounds(n, m, f) ==
    /\ f \in [m .. n -> Orders(n)]
    /\ \A i \in m .. n : f[i] = Round(n, f[i + 1], i)

(* The recursive definition of the shuffle has a solution. *)
LEMMA RoundsExist ==
  ASSUME NEW n \in Nat, NEW m \in 1 .. n
  PROVE  \E f : Rounds(n, m, f)
  <1> DEFINE T == {d \in Nat : d < n /\ ~\E f : Rounds(n, n - d, f)}
  <1>1. SUFFICES ASSUME T # {} PROVE FALSE
    <2>1. n - m \in Nat /\ n - m < n /\ n - (n - m) = m
      OBVIOUS
    <2> QED BY <1>1, <2>1
  <1>2. PICK d \in T : \A e \in T : d <= e
    <2> HIDE DEF T
    <2>1. T \in SUBSET Nat
      BY DEF T
    <2> QED BY <1>1, <2>1, LeastNumber
  <1>3. d \in Nat /\ d < n /\ ~\E f : Rounds(n, n - d, f)
    OBVIOUS
  <1>4. CASE d = 0
    <2> DEFINE f == [i \in n .. n |-> Identity(n)]
    <2>1. Rounds(n, n, f)
      BY <1>3, IdentityIsOrder DEF Rounds, Round
    <2>2. n - d = n
      BY <1>4
    <2> QED BY <1>3, <2>1, <2>2
  <1>5. CASE d # 0
    <2>1. PICK k \in 1 .. n : k = n - d
      BY <1>3
    <2>2. k + 1 \in 1 .. n /\ n - (d - 1) = k + 1 /\ d - 1 \in Nat /\ d - 1 < n /\ ~(d <= d - 1) /\ k # n
      BY <1>3, <1>5, <2>1
    <2>3. \E f : Rounds(n, k + 1, f)
      BY <1>2, <2>2
    <2>4. PICK f : Rounds(n, k + 1, f)
      BY <2>3
    <2> DEFINE h == [i \in k .. n |-> IF i = k THEN Round(n, f[k + 1], k) ELSE f[i]]
    <2>5. Round(n, f[k + 1], k) \in Orders(n)
      BY <2>2, <2>4, RoundKeepsOrder DEF Rounds
    <2>6. h \in [k .. n -> Orders(n)]
      BY <2>2, <2>4, <2>5 DEF Rounds
    <2>7. ASSUME NEW i \in k .. n PROVE h[i] = Round(n, h[i + 1], i)
      <3>1. CASE i = k
        <4>1. h[k + 1] = f[k + 1]
          BY <2>2
        <4> QED BY <3>1, <4>1
      <3>2. CASE i # k
        <4>1. i \in k + 1 .. n /\ h[i] = f[i] /\ f[i] = Round(n, f[i + 1], i)
          BY <3>2, <2>2, <2>4 DEF Rounds
        <4>2. CASE i = n
          BY <4>1, <4>2 DEF Round
        <4>3. CASE i # n
          <5>1. i + 1 \in k .. n /\ i + 1 # k
            BY <4>1, <4>3
          <5>2. h[i + 1] = f[i + 1]
            BY <5>1
          <5> QED BY <4>1, <5>2
        <4> QED BY <4>2, <4>3
      <3> QED BY <3>1, <3>2
    <2> HIDE DEF h
    <2>8. Rounds(n, k, h)
      BY <2>6, <2>7 DEF Rounds
    <2> QED BY <1>3, <2>1, <2>8
  <1> QED BY <1>4, <1>5

(* Whatever the pseudo-random numbers are, the shuffle is an order. *)
LEMMA ShuffledIsOrder ==
  ASSUME NEW n \in Nat
  PROVE  Shuffled(n) \in Orders(n)
  <1>1. CASE n = 0
    BY <1>1, IdentityIsOrder DEF Shuffled
  <1>2. CASE n # 0
    <2> DEFINE IsAfter(g) == g = [i \in 1 .. n |-> IF i = n THEN Identity(n)
                                   ELSE Swapped(g[i + 1], i, Partner(i))]
    <2>1. PICK f : Rounds(n, 1, f)
      BY <1>2, RoundsExist
    <2>2. IsAfter(f)
      BY <2>1 DEF Rounds, Round
    <2> DEFINE g == CHOOSE h : IsAfter(h)
    <2>3. IsAfter(g)
      BY <2>2
    <2>4. Shuffled(n) = g[1]
      BY <1>2 DEF Shuffled
    <2> HIDE DEF g
    <2>5. \A i \in 1 .. n : g[i] = Round(n, g[i + 1], i)
      BY <2>3 DEF Round
    <2> HIDE DEF IsAfter
    <2> DEFINE T == {d \in Nat : d < n /\ g[n - d] \notin Orders(n)}
    <2>6. T = {}
      <3>1. SUFFICES ASSUME T # {} PROVE FALSE
        OBVIOUS
      <3>2. PICK d \in T : \A e \in T : d <= e
        <4> HIDE DEF T
        <4>1. T \in SUBSET Nat
          BY DEF T
        <4> QED BY <3>1, <4>1, LeastNumber
      <3>3. PICK k \in 1 .. n : k = n - d
        OBVIOUS
      <3>4. g[k] \notin Orders(n)
        BY <3>3
      <3>5. ASSUME k # n PROVE g[k + 1] \in Orders(n)
        <4>1. d - 1 \in Nat /\ d - 1 < n /\ n - (d - 1) = k + 1 /\ ~(d <= d - 1)
          BY <3>3, <3>5
        <4> QED BY <3>2, <4>1
      <3>6. Round(n, g[k + 1], k) \in Orders(n)
        BY <3>5, RoundKeepsOrder
      <3> QED BY <2>5, <3>4, <3>6
    <2>7. n - 1 \in Nat /\ n - 1 < n /\ n - (n - 1) = 1
      BY <1>2
    <2>8. g[1] \in Orders(n)
      BY <2>6, <2>7
    <2> QED BY <2>4, <2>8
  <1> QED BY <1>1, <1>2
-----------------------------------------------------------------------------
(* What Next handed out is what the first pos places of the order say, each *)
(* place once.                                                              *)
Delivered ==
    /\ size \in Nat /\ BatchSize \in Nat \ {0} /\ pos \in 0 .. size
    /\ indices \in Orders(size)
    /\ batches \in Seq(Seq(0 .. size - 1))
    /\ \A k, l \in DOMAIN batches : \A i \in DOMAIN batches[k], j \in DOMAIN batches[l] :
          batches[k][i] = batches[l][j] => k = l /\ i = j
    /\ \A x \in 0 .. size - 1 :
          (\E k \in DOMAIN batches : \E i \in DOMAIN batches[k] : batches[k][i] = x)
            <=> \E q \in 0 .. pos - 1 : indices[q] = x

(* As long as the batch size was not set, pos is where full batches end. *)
Full ==
    ~resized =>
        /\ (Len(batches) - 1) * BatchSize < pos /\ pos <= Len(batches) * BatchSize
        /\ HasNext => pos = Len(batches) * BatchSize
        /\ \A k \in 1 .. Len(batches) :
              /\ Len(batches[k]) \in 1 .. BatchSize
              /\ Len(batches[k]) < BatchSize => ~HasNext /\ k = Len(batches)

(* Reset, shuffled or not. *)
LEMMA OrderIsOrder ==
  ASSUME NEW n \in Nat, NEW b
  PROVE  Order(n, b) \in Orders(n)
  BY IdentityIsOrder, ShuffledIsOrder DEF Order

(* One call of Next with something left. *)
LEMMA NextEffect ==
  ASSUME Delivered, NextBatch, ~(End <= pos)
  PROVE  /\ size' = size /\ BatchSize' = BatchSize /\ indices' = indices /\ resized' = resized
         /\ pos' = End /\ End \in 0 .. size /\ pos < End /\ HasNext
         /\ End - pos \in 1 .. BatchSize /\ (End - pos < BatchSize => End = size)
         /\ batches' \in Seq(Seq(0 .. size - 1))
         /\ Len(batches') = Len(batches) + 1 /\ Len(batches) \in Nat
         /\ DOMAIN batches = 1 .. Len(batches) /\ DOMAIN batches' = 1 .. Len(batches) + 1
         /\ \A k \in 1 .. Len(batches) : batches'[k] = batches[k]
         /\ Len(batches'[Len(batches) + 1]) = End - pos
         /\ DOMAIN batches'[Len(batches) + 1] = 1 .. End - pos
         /\ \A i \in 1 .. End - pos : batches'[Len(batches) + 1][i] = indices[pos + i - 1]
  <1>1. /\ size \in Nat /\ BatchSize \in Nat \ {0} /\ pos \in 0 .. size
        /\ batches \in Seq(Seq(0 .. size - 1)) /\ indices \in [0 .. size - 1 -> 0 .. size - 1]
    BY DEF Delivered, Orders
  <1>2. /\ size' = size /\ BatchSize' = BatchSize /\ indices' = indices /\ resized' = resized /\ pos' = End
        /\ batches' = Append(batches, [k \in 1 .. End - pos |-> indices[pos + k - 1]])
    BY DEF NextBatch
  <1>3. /\ End \in 0 .. size /\ pos < End /\ HasNext
        /\ End - pos \in 1 .. BatchSize /\ (End - pos < BatchSize => End = size)
    BY <1>1 DEF End, HasNext
  <1>4. PICK e \in 0 .. size : e = End
    BY <1>3
  <1> DEFINE b == [k \in 1 .. e - pos |-> indices[pos + k - 1]]
  <1>5. ASSUME NEW k \in 1 .. e - pos PROVE indices[pos + k - 1] \in 0 .. size - 1
    <2>1. pos + k - 1 \in 0 .. size - 1
      BY <1>1
    <2> QED BY <1>1, <2>1
  <1>6. e - pos \in Nat
    BY <1>1, <1>3, <1>4
  <1>7. b \in Seq(0 .. size - 1) /\ Len(b) = e - pos /\ DOMAIN b = 1 .. e - pos
    <2>1. PICK m \in Nat : m = e - pos
      BY <1>6
    <2>2. b \in [1 .. m -> 0 .. size - 1]
      BY <1>5, <2>1
    <2> HIDE DEF b
    <2>3. b \in Seq(0 .. size - 1) /\ DOMAIN b = 1 .. m
      BY <2>2, SeqDef
    <2>4. Len(b) = m
      BY <2>1, <2>3, LenProperties
    <2> QED BY <2>1, <2>3, <2>4
  <1>8. \A i \in 1 .. e - pos : b[i] = indices[pos + i - 1]
    OBVIOUS
  <1>9. batches' = Append(batches, b)
    BY <1>2, <1>4
  <1> HIDE DEF b
  <1>10. /\ batches' \in Seq(Seq(0 .. size - 1))
         /\ Len(batches') = Len(batches) + 1 /\ Len(batches) \in Nat
         /\ DOMAIN batches = 1 .. Len(batches) /\ DOMAIN batches' = 1 .. Len(batches) + 1
         /\ \A k \in 1 .. Len(batches) : batches'[k] = batches[k]
         /\ batches'[Len(batches) + 1] = b
    BY <1>1, <1>7, <1>9, AppendProperties, LenProperties
  <1> QED BY <1>2, <1>3, <1>4, <1>7, <1>8, <1>10

(* The new places are not among the old ones, and an order repeats nothing. *)
LEMMA DeliveredNext ==
  ASSUME Delivered, NextBatch
  PROVE  Delivered'
  <1>1. CASE End <= pos
    <2>1. size' = size /\ BatchSize' = BatchSize /\ indices' = indices /\ batches' = batches /\ pos' = End
      BY <1>1 DEF NextBatch
    <2>2. pos' = pos
      BY <1>1, <2>1 DEF Delivered, End
    <2> QED BY <2>1, <2>2 DEF Delivered, Orders
  <1>2. CASE ~(End <= pos)
    <2> DEFINE n == Len(batches) + 1
    <2>1. PICK e \in 0 .. size : e = End
      BY <1>2, NextEffect
    <2>2. /\ size' = size /\ BatchSize' = BatchSize /\ indices' = indices /\ pos' = e /\ pos < e
          /\ batches' \in Seq(Seq(0 .. size - 1))
          /\ n \in Nat \ {0} /\ DOMAIN batches = 1 .. n - 1 /\ DOMAIN batches' = 1 .. n
          /\ \A k \in 1 .. n - 1 : batches'[k] = batches[k]
          /\ DOMAIN batches'[n] = 1 .. e - pos
          /\ \A i \in 1 .. e - pos : batches'[n][i] = indices[pos + i - 1]
      BY <1>2, <2>1, NextEffect
    <2>3. size \in Nat /\ BatchSize \in Nat \ {0} /\ pos \in 0 .. size /\ indices \in Orders(size)
      BY DEF Delivered
    <2>4. /\ \A p, q \in 0 .. size - 1 : indices[p] = indices[q] => p = q
          /\ \A q \in 0 .. size - 1 : indices[q] \in 0 .. size - 1
      BY <2>3 DEF Orders
    <2>5. \A k, l \in 1 .. n - 1 : \A i \in DOMAIN batches[k], j \in DOMAIN batches[l] :
             batches[k][i] = batches[l][j] => k = l /\ i = j
      BY <2>2 DEF Delivered
    <2>6. \A x \in 0 .. size - 1 :
             (\E k \in 1 .. n - 1 : \E i \in DOMAIN batches[k] : batches[k][i] = x)
               <=> \E q \in 0 .. pos - 1 : indices[q] = x
      BY <2>2 DEF Delivered
    <2>n. pos \in Int /\ e \in Int /\ size \in Int /\ 0 <= pos /\ pos < e /\ e <= size
      BY <2>1, <2>2, <2>3
    <2> HIDE DEF n
    <2>7. ASSUME NEW k \in 1 .. n - 1, NEW i \in DOMAIN batches[k], NEW j \in 1 .. e - pos
          PROVE  batches[k][i] # indices[pos + j - 1]
      <3>1. pos + j - 1 \in 0 .. size - 1 /\ pos + j - 1 \notin 0 .. pos - 1 /\ pos - 1 <= size - 1
        BY <2>n
      <3>2. SUFFICES ASSUME batches[k][i] = indices[pos + j - 1] PROVE FALSE
        OBVIOUS
      <3>3. indices[pos + j - 1] \in 0 .. size - 1
        BY <2>4, <3>1
      <3>4. PICK q \in 0 .. pos - 1 : indices[q] = indices[pos + j - 1]
        BY <2>6, <3>2, <3>3
      <3>5. q \in 0 .. size - 1
        BY <2>3
      <3> QED BY <2>4, <3>1, <3>4, <3>5
    <2>8. ASSUME NEW k \in 1 .. n, NEW l \in 1 .. n, NEW i \in DOMAIN batches'[k],
                 NEW j \in DOMAIN batches'[l], batches'[k][i] = batches'[l][j]
          PROVE  k = l /\ i = j
      <3>1. CASE k # n /\ l # n
        <4>1. k \in 1 .. n - 1 /\ l \in 1 .. n - 1
          BY <2>2, <3>1
        <4> QED BY <2>2, <2>5, <2>8, <4>1
      <3>2. CASE k # n /\ l = n
        <4>1. k \in 1 .. n - 1 /\ batches'[k] = batches[k] /\ j \in 1 .. e - pos
          BY <2>2, <3>2
        <4>2. batches'[n][j] = indices[pos + j - 1] /\ batches[k][i] # indices[pos + j - 1]
          BY <2>2, <2>7, <4>1
        <4> QED BY <2>8, <3>2, <4>1, <4>2
      <3>3. CASE k = n /\ l # n
        <4>1. l \in 1 .. n - 1 /\ batches'[l] = batches[l] /\ i \in 1 .. e - pos
          BY <2>2, <3>3
        <4>2. batches'[n][i] = indices[pos + i - 1] /\ batches[l][j] # indices[pos + i - 1]
          BY <2>2, <2>7, <4>1
        <4> QED BY <2>8, <3>3, <4>1, <4>2
      <3>4. CASE k = n /\ l = n
        <4>1. i \in 1 .. e - pos /\ j \in 1 .. e - pos
          BY <2>2, <3>4
        <4>2. indices[pos + i - 1] = indices[pos + j - 1]
          BY <2>2, <2>8, <3>4, <4>1
        <4>3. pos + i - 1 \in 0 .. size - 1 /\ pos + j - 1 \in 0 .. size - 1
          BY <2>n, <4>1
        <4>4. pos + i - 1 = pos + j - 1
          BY <2>4, <4>2, <4>3
        <4>5. i = j
          BY <2>3, <4>1, <4>4
        <4> QED BY <3>4, <4>5
      <3> QED BY <3>1, <3>2, <3>3, <3>4
    <2>9. ASSUME NEW x \in 0 .. size - 1, NEW k \in 1 .. n, NEW i \in DOMAIN batches'[k], batches'[k][i] = x
          PROVE  \E q \in 0 .. e - 1 : indices[q] = x
      <3>1. CASE k # n
        <4>1. k \in 1 .. n - 1 /\ batches'[k] = batches[k]
          BY <2>2, <3>1
        <4>2. PICK q \in 0 .. pos - 1 : indices[q] = x
          BY <2>6, <2>9, <4>1
        <4>3. q \in 0 .. e - 1
          BY <2>2, <2>3
        <4> QED BY <4>2, <4>3
      <3>2. CASE k = n
        <4>1. i \in 1 .. e - pos /\ pos + i - 1 \in 0 .. e - 1
          BY <2>2, <2>3, <3>2
        <4> QED BY <2>2, <2>9, <3>2, <4>1
      <3> QED BY <3>1, <3>2
    <2>10. ASSUME NEW x \in 0 .. size - 1, NEW q \in 0 .. e - 1, indices[q] = x
           PROVE  \E k \in 1 .. n : \E i \in DOMAIN batches'[k] : batches'[k][i] = x
      <3>1. CASE q < pos
        <4>1. q \in 0 .. pos - 1
          BY <2>3, <3>1
        <4>2. PICK k \in 1 .. n - 1 : \E i \in DOMAIN batches[k] : batches[k][i] = x
          BY <2>6, <2>10, <4>1
        <4>3. k \in 1 .. n /\ batches'[k] = batches[k]
          BY <2>2
        <4> QED BY <4>2, <4>3
      <3>2. CASE ~(q < pos)
        <4>1. q - pos + 1 \in 1 .. e - pos /\ pos + (q - pos + 1) - 1 = q /\ n \in 1 .. n
          BY <2>2, <2>3, <3>2
        <4>2. batches'[n][q - pos + 1] = indices[q]
          BY <2>2, <4>1
        <4> QED BY <2>2, <2>10, <4>1, <4>2
      <3> QED BY <3>1, <3>2
    <2>11. \A k, l \in DOMAIN batches' : \A i \in DOMAIN batches'[k], j \in DOMAIN batches'[l] :
             batches'[k][i] = batches'[l][j] => k = l /\ i = j
      BY <2>2, <2>8
    <2>12. \A x \in 0 .. size - 1 :
             (\E k \in DOMAIN batches' : \E i \in DOMAIN batches'[k] : batches'[k][i] = x)
               <=> \E q \in 0 .. e - 1 : indices[q] = x
      BY <2>2, <2>9, <2>10
    <2>13. indices' \in Orders(size')
      BY <2>2, <2>3
    <2> QED BY <2>2, <2>3, <2>11, <2>12, <2>13 DEF Delivered
  <1> QED BY <1>1, <1>2

(* Only the batch that ends the dataset is short. *)
LEMMA FullNext ==
  ASSUME Delivered, Full, NextBatch
  PROVE  Full'
  <1>1. CASE End <= pos
    <2>1. /\ size' = size /\ BatchSize' = BatchSize /\ batches' = batches /\ pos' = End /\ resized' = resized
      BY <1>1 DEF NextBatch
    <2>2. pos' = pos
      BY <1>1, <2>1 DEF Delivered, End
    <2> QED BY <2>1, <2>2 DEF Full, HasNext
  <1>2. CASE ~(End <= pos)
    <2>1. SUFFICES ASSUME ~resized PROVE Full'
      BY <1>2, NextEffect DEF Full
    <2>2. PICK e \in 0 .. size : e = End
      BY <1>2, NextEffect
    <2>3. PICK n \in Nat : n = Len(batches)
      BY <1>2, NextEffect
    <2>4. /\ size' = size /\ BatchSize' = BatchSize /\ pos' = e /\ pos < e /\ HasNext
          /\ e - pos \in 1 .. BatchSize /\ (e - pos < BatchSize => e = size)
          /\ Len(batches') = n + 1
          /\ \A k \in 1 .. n : batches'[k] = batches[k]
          /\ Len(batches'[n + 1]) = e - pos
      BY <1>2, <2>2, <2>3, NextEffect
    <2>5. pos = n * BatchSize
      BY <2>1, <2>3, <2>4 DEF Full
    <2>6. \A k \in 1 .. n : Len(batches[k]) = BatchSize
      BY <2>1, <2>3, <2>4 DEF Full, Delivered
    <2>7. size \in Nat /\ BatchSize \in Nat \ {0} /\ pos \in 0 .. size
      BY DEF Delivered
    <2>8. (n + 1) * BatchSize = n * BatchSize + BatchSize
      BY <2>7
    <2>9. (n + 1) - 1 = n
      OBVIOUS
    <2>10. PICK m \in Int : m = (n + 1) * BatchSize /\ m = pos + BatchSize
      BY <2>5, <2>7, <2>8
    <2>11. ((n + 1) - 1) * BatchSize < e /\ e <= m
      BY <2>4, <2>5, <2>7, <2>9, <2>10
    <2>12. e < size => e = m
      BY <2>4, <2>7, <2>10
    <2>13. ASSUME NEW k \in 1 .. n + 1
           PROVE  /\ Len(batches'[k]) \in 1 .. BatchSize
                  /\ Len(batches'[k]) < BatchSize => ~(e < size) /\ k = n + 1
      <3>1. CASE k = n + 1
        BY <2>4, <2>7, <3>1
      <3>2. CASE k # n + 1
        <4>1. k \in 1 .. n
          BY <3>2
        <4> QED BY <2>4, <2>6, <2>7, <4>1
      <3> QED BY <3>1, <3>2
    <2> QED BY <2>4, <2>10, <2>11, <2>12, <2>13 DEF Full, HasNext
  <1> QED BY <1>1, <1>2

(* After Reset nothing is handed out. *)
LEMMA NewEpoch ==
  ASSUME size \in Nat, BatchSize \in Nat \ {0}, indices \in Orders(size), pos = 0, batches = <<>>
  PROVE  Delivered /\ Full
  <1>1. Len(batches) = 0 /\ DOMAIN batches = {} /\ batches \in Seq(Seq(0 .. size - 1))
    OBVIOUS
  <1>2. (0 - 1) * BatchSize < 0 /\ 0 * BatchSize = 0
    OBVIOUS
  <1>3. Delivered
    BY <1>1 DEF Delivered
  <1>4. Full
    BY <1>1, <1>2 DEF Full
  <1> QED BY <1>3, <1>4

(* Nothing but Reset, Next and a new batch size touches the loader. *)
LEMMA DeliveredStep ==
  ASSUME Delivered, Full, [Next]_vars
  PROVE  Delivered' /\ Full'
  <1>1. CASE Reset
    <2>1. /\ size' = size /\ BatchSize' = BatchSize /\ indices' = Order(size, Shuffle) /\ pos' = 0
          /\ batches' = <<>>
      BY <1>1 DEF Reset
    <2>2. size \in Nat /\ BatchSize \in Nat \ {0}
      BY DEF Delivered
    <2>3. indices' \in Orders(size')
      BY <2>1, <2>2, OrderIsOrder
    <2>4. Len(batches') = 0 /\ DOMAIN batches' = {} /\ batches' \in Seq(Seq(0 .. size - 1))
      BY <2>1
    <2>5. (0 - 1) * BatchSize < 0 /\ 0 * BatchSize = 0
      BY <2>2
    <2>6. Delivered'
      BY <2>1, <2>2, <2>3, <2>4 DEF Delivered
    <2>7. Full'
      BY <2>1, <2>2, <2>4, <2>5 DEF Full
    <2> QED BY <2>6, <2>7
  <1>2. CASE NextBatch
    BY <1>2, DeliveredNext, FullNext
  <1>3. CASE \E b \in BatchSizes : SetBatchSize(b)
    <2>1. PICK b \in BatchSizes : SetBatchSize(b)
      BY <1>3
    <2>2. BatchSize' \in Nat \ {0} /\ resized' /\ UNCHANGED <<size, indices, pos, batches>>
      BY <2>1, DataLoaderAssumption DEF SetBatchSize
    <2> QED BY <2>2 DEF Delivered, Full, Orders
  <1>4. CASE UNCHANGED <<size, BatchSize, indices, pos, batches, resized>>
    BY <1>4 DEF Delivered, Full, Orders, HasNext
  <1>5. \/ Reset \/ NextBatch \/ \E b \in BatchSizes : SetBatchSize(b)
        \/ UNCHANGED <<size, BatchSize, indices, pos, batches, resized>>
    BY DEF Next, vars, loaderState, BeginEpoch, FetchBatch, Configure, SetShuffle, NewOptimizer, Forward,
           Backward, Accumulate, ZeroGrad, ModelZeroGrad, Step
  <1> QED BY <1>1, <1>2, <1>3, <1>4, <1>5

(* The quotient is the one number of batches that covers the dataset. *)
LEMMA Quotient ==
  ASSUME NEW n \in Nat, NEW b \in Nat \ {0}, NEW s \in Nat, (n - 1) * b < s, s <= n * b
  PROVE  (s + b - 1) \div b = n
  <1>1. (n - 1) * b = n * b - b
    OBVIOUS
  <1>2. PICK r \in 0 .. b - 1 : s + b - 1 = n * b + r
    OBVIOUS
  <1>3. \A q \in Nat, d \in Nat \ {0} : \A z \in 0 .. d - 1 : (q * d + z) \div d = q
    OBVIOUS
  <1> QED BY <1>2, <1>3

(* The loop "for HasNext { Next }" visits every item of the dataset exactly *)
(* once, in the order of indices or of the shuffle, for every length of the *)
(* dataset and every batch size, set on the way or not; if it was not set,  *)
(* in as many batches as Len says, all full but the last.                   *)
THEOREM EpochIsAlwaysRight == Spec => []EpochIsRight
  <1>1. Init => Delivered /\ Full
    BY NewEpoch, OrderIsOrder, DataLoaderAssumption DEF Init, NewDataLoader
  <1>2. Delivered /\ Full /\ [Next]_vars => Delivered' /\ Full'
    BY DeliveredStep
  <1>3. Delivered /\ Full => EpochIsRight
    <2> SUFFICES ASSUME Delivered, Full PROVE EpochIsRight
      OBVIOUS
    <2>1. size \in Nat /\ BatchSize \in Nat \ {0} /\ pos \in 0 .. size /\ batches \in Seq(Seq(0 .. size - 1))
      BY DEF Delivered
    <2>2. DOMAIN batches = 1 .. Len(batches) /\ Len(batches) \in Nat
      BY <2>1
    <2>3. ASSUME ~HasNext PROVE UNION {Range(batches[k]) : k \in DOMAIN batches} = 0 .. size - 1
      <3>1. pos = size
        BY <2>1, <2>3 DEF HasNext
      <3>2. ASSUME NEW x \in 0 .. size - 1
            PROVE  \E k \in DOMAIN batches : \E i \in DOMAIN batches[k] : batches[k][i] = x
        <4>1. \E q \in 0 .. size - 1 : indices[q] = x
          BY DEF Delivered, Orders
        <4> QED BY <3>1, <4>1 DEF Delivered
      <3>3. ASSUME NEW k \in DOMAIN batches, NEW i \in DOMAIN batches[k] PROVE batches[k][i] \in 0 .. size - 1
        <4>1. batches[k] \in Seq(0 .. size - 1)
          BY <2>1
        <4> QED BY <4>1, ElementOfSeq, LenProperties
      <3>4. \A k \in DOMAIN batches : Range(batches[k]) = {batches[k][i] : i \in DOMAIN batches[k]}
        BY DEF Range
      <3> QED BY <3>2, <3>3, <3>4
    <2>4. EachItemOnce
      BY <2>3 DEF EachItemOnce, Delivered
    <2>5. ASSUME ~resized, ~HasNext PROVE Len(batches) = NumBatches
      <3>1. pos = size
        BY <2>1, <2>5 DEF HasNext
      <3>2. (Len(batches) - 1) * BatchSize < size /\ size <= Len(batches) * BatchSize
        BY <2>5, <3>1 DEF Full
      <3> QED BY <2>1, <2>2, <3>2, Quotient DEF NumBatches
    <2>6. AsManyBatchesAsLen
      BY <2>5 DEF Full, AsManyBatchesAsLen
    <2> QED BY <2>4, <2>6 DEF EpochIsRight
  <1> QED BY <1>1, <1>2, <1>3, PTL DEF Spec
=============================================================================
