----------------------------- MODULE DataLoader -----------------------------
(***************************************************************************)
(* GoTorch's DataLoader: Reset fixes an order of the dataset's indices,     *)
(* Next hands out the following BatchSize of them.  BatchSize and Shuffle   *)
(* are exported fields, so a program may set them in the middle of an       *)
(* epoch.  Arrays are functions on 0..n-1, as in Go.                        *)
(***************************************************************************)
EXTENDS Integers, Sequences, SequencesExt

CONSTANTS
    Sizes,          \* the lengths of the datasets considered
    BatchSizes      \* the batch sizes considered

ASSUME DataLoaderAssumption ==
    /\ Sizes \subseteq Nat
    /\ BatchSizes \subseteq Nat \ {0}

VARIABLES
    size,       \* dataset.Len()
    BatchSize, Shuffle, indices, pos,
    batches,    \* history: what Next returned since the last Reset
    resized     \* history: BatchSize was set since the last Reset

loaderState == <<size, BatchSize, Shuffle, indices, pos, batches, resized>>

-----------------------------------------------------------------------------
Identity(n) == [i \in 0 .. n - 1 |-> i]

(* Mutant: only one of the two assignments of the swap *)
Overwritten(s, i, j) == [s EXCEPT ![i] = s[j]]

Swapped(s, i, j) == [s EXCEPT ![i] = s[j], ![j] = s[i]]

(* The place that round i of the shuffle exchanges with i *)
Partner(i) == (i * 6700417) % (i + 1)

(* The loop for i := n - 1; i > 0; i--; after[i] is the array after round i *)
Shuffled(n) ==
    LET after[i \in 1 .. n] ==
            IF i = n THEN Identity(n)
            ELSE Swapped(after[i + 1], i, Partner(i))
    IN  IF n = 0 THEN Identity(n) ELSE after[1]

Order(n, shuffle) == IF shuffle THEN Shuffled(n) ELSE Identity(n)

(* DataLoader.Len(), of the size and batch size at the moment of the call *)
NumBatches == (size + BatchSize - 1) \div BatchSize

HasNext == pos < size

Reset ==
    /\ indices' = Order(size, Shuffle)
    /\ pos' = 0
    /\ batches' = <<>> /\ resized' = FALSE
    /\ UNCHANGED <<size, BatchSize, Shuffle>>

End == IF pos + BatchSize > size THEN size ELSE pos + BatchSize

(* With nothing left the batch is empty, and Stack takes the address of its *)
(* first element: the call panics, after pos was set, and returns no batch  *)
NextBatch ==
    /\ pos' = End
    /\ batches' = IF End <= pos THEN batches
                  ELSE Append(batches, [k \in 1 .. End - pos |-> indices[pos + k - 1]])
    /\ UNCHANGED <<size, BatchSize, Shuffle, indices, resized>>

SetBatchSize(b) ==
    /\ BatchSize' = b
    /\ resized' = TRUE
    /\ UNCHANGED <<size, Shuffle, indices, pos, batches>>

SetShuffle(b) ==
    /\ Shuffle' = b
    /\ UNCHANGED <<size, BatchSize, indices, pos, batches, resized>>

(* NewDataLoader(dataset, batchSize, shuffle), which calls Reset *)
NewDataLoader ==
    /\ size \in Sizes /\ BatchSize \in BatchSizes /\ Shuffle \in BOOLEAN
    /\ indices = Order(size, Shuffle)
    /\ pos = 0
    /\ batches = <<>> /\ resized = FALSE

-----------------------------------------------------------------------------
(* No index is handed out twice, and when HasNext says no none is missing *)
EachItemOnce ==
    /\ \A k, l \in DOMAIN batches : \A i \in DOMAIN batches[k], j \in DOMAIN batches[l] :
          batches[k][i] = batches[l][j] => k = l /\ i = j
    /\ ~HasNext => UNION {Range(batches[k]) : k \in DOMAIN batches} = 0 .. size - 1

(* As many batches as Len says, all of BatchSize items but the last one *)
AsManyBatchesAsLen ==
    ~resized =>
        /\ ~HasNext => Len(batches) = NumBatches
        /\ \A k \in 1 .. Len(batches) :
              /\ Len(batches[k]) \in 1 .. BatchSize
              /\ Len(batches[k]) < BatchSize => ~HasNext /\ k = Len(batches)

(* The loop "for HasNext { Next }" visits every item of the dataset exactly *)
(* once, shuffled or not and with the batch size set on the way; unless it  *)
(* was set, in as many batches as Len says, only the last of which may be   *)
(* short, and none empty                                                    *)
EpochIsRight == EachItemOnce /\ AsManyBatchesAsLen
=============================================================================
