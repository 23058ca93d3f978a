------------------------------ MODULE Training ------------------------------
(***************************************************************************)
(* A GoTorch program that trains a Sequential on the batches of a           *)
(* DataLoader: modules and their Parameters(), the optimizer, and the       *)
(* gradients AccumulateGrad leaves in the parameters.                       *)
(*                                                                          *)
(* A pass is the forward and backward computation on one batch, named by    *)
(* the batch's number in the epoch.  A gradient is the bag of the passes it *)
(* sums up.  Two passes may be under way at once, in two goroutines; each   *)
(* AccumulateGrad runs with its mutex held and is one step.                 *)
(*                                                                          *)
(* A tensor is a TensorImpl, which has a reference count, on a storage,     *)
(* which has the numbers: a view is a TensorImpl of its own on the storage  *)
(* of its base, and holds a reference to the base; what detach() returns    *)
(* is on the same storage and refers to nobody.  Views of one base are      *)
(* taken to overlap.                                                        *)
(***************************************************************************)
EXTENDS DataLoader

CONSTANTS
    Setups,         \* the programs considered: sizes of a dataset and layers of a Sequential
    LayerKind,      \* LayerKind[l]: "Linear", "Conv2d", "Conv1d", "BatchNorm" or "Identity"
    LayerParams,    \* LayerParams[l]: the tensors libtorch registered in the layer
    Source,         \* Source[p]: the tensor backward sends to p; two may be the same
    Base,           \* Base[t]: the tensor that t is a view of, or t itself
    MaxUnderWay,    \* the passes under way at once
    MaxPasses       \* the batches of an epoch the program trains on

ASSUME TrainingAssumption ==
    /\ MaxUnderWay \in Nat \ {0}
    /\ DOMAIN LayerKind = DOMAIN LayerParams
    /\ \A l \in DOMAIN LayerParams : LayerParams[l] \in Seq(Range(LayerParams[l]))
    /\ \A setup \in Setups : setup[2] \in Seq(DOMAIN LayerParams)
    /\ Range(Source) \subseteq DOMAIN Base /\ \A t \in DOMAIN Base : Base[Base[t]] = Base[t]

VARIABLES
    model,      \* the layers of the Sequential
    optimizer,  \* the parameters it was made with; {} before NewSGD, or if that panicked
    stage,      \* stage[g]: what became of batch g
    owed,       \* owed[g]: the parameters pass g has not reached yet
    store,      \* store[p]: the storage of p.grad, or undefined
    content,    \* content[s]: the bag of passes in storage s
    stale,      \* the gradients were used by Step and not zeroed yet
    stepped,    \* history: the passes a Step has used
    applied     \* history: applied[p], the bag of passes p was updated with

trainState == <<model, optimizer, stage, owed, store, content, stale, stepped, applied>>
vars == <<loaderState, trainState>>

-----------------------------------------------------------------------------
undefined == <<>>
Own(p) == <<0, p>>      \* a storage of p's gradient alone

(* The modules *)

(* Parameters(): Linear and Conv2d return the tensors of the C++ module,    *)
(* the other layers return nil                                              *)
LayerParameters(l) == IF LayerKind[l] \in {"Linear", "Conv2d"} THEN LayerParams[l] ELSE <<>>

Parameters == UNION {ToSet(LayerParameters(model[i])) : i \in DOMAIN model}

AllParams == UNION {ToSet(LayerParams[l]) : l \in DOMAIN LayerParams}
ModelParams == UNION {ToSet(LayerParams[model[i]]) : i \in DOMAIN model}

-----------------------------------------------------------------------------
(* Bags of passes; a count of two stands for two or more *)
Passes == 1 .. size
None == [g \in Passes |-> 0]
Only(g) == [None EXCEPT ![g] = 1]
Plus(a, b) == [g \in Passes |-> IF a[g] + b[g] > 1 THEN 2 ELSE a[g] + b[g]]

Running == {g \in DOMAIN stage : stage[g] = "backward"}
Done == {g \in DOMAIN stage : stage[g] = "done"}
UnderWay == {g \in DOMAIN stage : stage[g] \in {"forward", "backward"}}

-----------------------------------------------------------------------------
(* NewSGD, NewAdam and the others: of no parameters &r[0] panics *)
NewOptimizer ==
    /\ optimizer = {} /\ Parameters # {}
    /\ optimizer' = Parameters
    /\ UNCHANGED <<loaderState, model, stage, owed, store, content, stale, stepped, applied>>

(* An epoch begins when the gradients of the last one are used, and those   *)
(* that may share a storage are reset: storages are named after a pass of   *)
(* the epoch.  What earlier epochs left in the gradient of a parameter the  *)
(* optimizer does not have, and nobody zeroes, is not followed.             *)
BeginEpoch ==
    /\ Running = {} /\ Done = stepped
    /\ \A p \in AllParams : store[p] \in {undefined, Own(p)}
    /\ Reset
    /\ stage' = <<>> /\ owed' = <<>> /\ stepped' = {}
    /\ applied' = [p \in AllParams |-> None]
    /\ content' = [s \in DOMAIN content |->
                      IF \E p \in optimizer : store[p] = s THEN content[s] ELSE None]
    /\ UNCHANGED <<model, optimizer, store, stale>>

FetchBatch ==
    /\ NextBatch
    /\ stage' = IF Len(batches') > Len(batches) THEN Append(stage, "batch") ELSE stage
    /\ owed' = IF Len(batches') > Len(batches) THEN Append(owed, {}) ELSE owed
    /\ UNCHANGED <<model, optimizer, store, content, stale, stepped, applied>>

Configure ==
    /\ \/ \E b \in BatchSizes : SetBatchSize(b)
       \/ \E b \in BOOLEAN : SetShuffle(b)
    /\ UNCHANGED trainState

(* model.Forward on the batch just fetched, and the loss *)
Forward(g) ==
    /\ stage[g] = "batch" /\ g = Len(stage)
    /\ Cardinality(UnderWay) < MaxUnderWay /\ Cardinality(UnderWay \cup Done) < MaxPasses
    /\ stage' = [stage EXCEPT ![g] = "forward"]
    /\ UNCHANGED <<loaderState, model, optimizer, owed, store, content, stale, stepped, applied>>

(* Tensor.Backward is called on the loss; the program zeroes the gradients  *)
(* first if a Step has used them                                            *)
Backward(g) ==
    /\ optimizer # {} /\ stage[g] = "forward" /\ ~stale
    /\ stage' = [stage EXCEPT ![g] = "backward"]
    /\ owed' = [owed EXCEPT ![g] = ModelParams]
    /\ UNCHANGED <<loaderState, model, optimizer, store, content, stale, stepped, applied>>

-----------------------------------------------------------------------------
(* AccumulateGrad::apply on p in pass g *)

Sent(g, p) == <<g, Base[Source[p]]>>    \* new_grad's storage

(* Mutant: whoever else still refers to new_grad *)
AlwaysStealable(g, p) == TRUE

(* is_tensor_stealable: no other input, and no view, refers to new_grad's   *)
(* TensorImpl.  Tensors on the same storage are not counted.                *)
Stealable(g, p) ==
    \A q \in owed[g] \ {p} : Source[q] # Source[p] /\ Base[Source[q]] # Source[p]

(* A storage that nobody else has a name for is called after p *)
Stolen(g, p) ==
    IF \/ \E q \in AllParams : store[q] = Sent(g, p)
       \/ \E q \in owed[g] \ {p} : Sent(g, q) = Sent(g, p)
    THEN Sent(g, p) ELSE Own(p)

ContentOf(s, g) == IF s \in DOMAIN content THEN content[s] ELSE Only(g)
SetContent(s, bag) ==
    content' = [x \in DOMAIN content \cup {s} |-> IF x = s THEN bag ELSE content[x]]

(* Mutant: the second pass replaces the first *)
InPlaceCopy(g, p) ==
    SetContent(store[p], ContentOf(Sent(g, p), g)) /\ UNCHANGED store

(* Case 2.3: variable_grad += new_grad *)
InPlaceAdd(g, p) ==
    SetContent(store[p], Plus(content[store[p]], ContentOf(Sent(g, p), g))) /\ UNCHANGED store

(* Case 1.1, or the deep copy of case 1.5 *)
FirstGrad(g, p) ==
    LET s == IF Stealable(g, p) THEN Stolen(g, p) ELSE Own(p)
    IN  /\ store' = [store EXCEPT ![p] = s]
        /\ SetContent(s, ContentOf(Sent(g, p), g))

Accumulate(g, p) ==
    /\ stage[g] = "backward" /\ p \in owed[g]
    /\ IF store[p] = undefined THEN FirstGrad(g, p) ELSE InPlaceAdd(g, p)
    /\ owed' = [owed EXCEPT ![g] = @ \ {p}]
    /\ stage' = IF owed[g] = {p} THEN [stage EXCEPT ![g] = "done"] ELSE stage
    /\ UNCHANGED <<loaderState, model, optimizer, stale, stepped, applied>>

-----------------------------------------------------------------------------
(* The program zeroes gradients no Step still has to use *)
MayZero == optimizer # {} /\ Running = {} /\ Done = stepped

(* Optimizer.ZeroGrad: Optimizer::zero_grad, which resets the gradients *)
ZeroGrad ==
    /\ MayZero
    /\ store' = [p \in AllParams |-> IF p \in optimizer THEN undefined ELSE store[p]]
    /\ content' = Restrict(content, {store'[p] : p \in AllParams} \ {undefined})
    /\ stale' = FALSE
    /\ UNCHANGED <<loaderState, model, optimizer, stage, owed, stepped, applied>>

(* Sequential.ZeroGrad: Tensor.ZeroGrad of every parameter the layers       *)
(* return, in place                                                         *)
ModelZeroGrad ==
    /\ MayZero
    /\ content' = [s \in DOMAIN content |->
                      IF \E p \in Parameters : store[p] = s THEN None ELSE content[s]]
    /\ stale' = FALSE
    /\ UNCHANGED <<loaderState, model, optimizer, stage, owed, store, stepped, applied>>

(* Step: SGD::step, which skips parameters without a gradient *)
Step ==
    /\ optimizer # {} /\ Running = {} /\ ~stale /\ Done # stepped
    /\ applied' = [p \in AllParams |->
                      IF p \in optimizer /\ store[p] # undefined
                      THEN Plus(applied[p], content[store[p]]) ELSE applied[p]]
    /\ stepped' = Done
    /\ stale' = TRUE
    /\ UNCHANGED <<loaderState, model, optimizer, stage, owed, store, content>>

-----------------------------------------------------------------------------
Init ==
    /\ NewDataLoader
    /\ model \in {setup[2] : setup \in {s \in Setups : s[1] = size}} /\ optimizer = {}
    /\ stage = <<>> /\ owed = <<>>
    /\ store = [p \in AllParams |-> undefined]
    /\ content = <<>>
    /\ stale = FALSE /\ stepped = {}
    /\ applied = [p \in AllParams |-> None]

Next ==
    \/ NewOptimizer \/ BeginEpoch \/ FetchBatch \/ Configure
    \/ \E g \in DOMAIN stage : Forward(g) \/ Backward(g) \/ \E p \in owed[g] : Accumulate(g, p)
    \/ ZeroGrad \/ ModelZeroGrad \/ Step

Spec == Init /\ [][Next]_vars

-----------------------------------------------------------------------------
(* Backward sends p and q two views of one storage *)
Views(p, q) == Source[p] # Source[q] /\ Base[Source[p]] = Base[Source[q]]

Viewed(p) == \E q \in AllParams : Views(p, q)

(* Every parameter the optimizer has is updated with every batch exactly    *)
(* once, by the Step after the batch's Backward: whether the gradients were *)
(* zeroed by the optimizer or by the model, stolen from the engine, copied  *)
(* or added in place, and however two passes interleave.  Parameters that   *)
(* are sent views of one storage are excepted: see GradientsAreSeparate.    *)
TrainedOnce ==
    \A p \in optimizer, g \in DOMAIN stage :
        ~Viewed(p) => applied[p][g] = IF g \in stepped THEN 1 ELSE 0

(* Two gradients on one storage, or a gradient on the storage of a tensor   *)
(* the engine still has to give to another parameter, are those of two      *)
(* views: an in-place += on the one changes the other.  Case 1.1 of         *)
(* accumulateGrad takes it that "No other user-visible tensor references    *)
(* new_grad"; is_tensor_stealable ensures this for a tensor that is sent    *)
(* twice and for the base of a view still to be given away, and not for     *)
(* tensors that share a storage.                                            *)
GradientsAreSeparate ==
    \A p \in AllParams : store[p] # undefined =>
        /\ \A q \in AllParams \ {p} : store[q] = store[p] => Views(p, q)
        /\ \A g \in DOMAIN owed, q \in AllParams \ {p} :
              q \in owed[g] /\ Sent(g, q) = store[p] => Views(p, q)
=============================================================================
