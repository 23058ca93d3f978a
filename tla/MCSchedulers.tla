---------------------------- MODULE MCSchedulers ----------------------------
(* Each scheduler alone and the pairs that share an optimizer.  The metrics *)
(* lie just at, just beyond and far beyond the threshold, and one is        *)
(* negative; 4096 units can be divided by the factors used without a        *)
(* remainder, and two reductions bring the rate to MinLR.                   *)
EXTENDS Schedulers

Half == <<1, 2>>
Quarter == <<1, 4>>
One == <<1, 1>>

Measured == {-10000, 5000, 9998, 9999, 10000}

ThirdsOfPi == [t \in 0 .. 3 |-> <<4, 3, 1, 0>>[t + 1]]

Pairs == {{"StepLR", "ReduceLROnPlateau"}, {"StepLR", "CosineAnnealingLR"},
          {"StepLR", "LinearLR"}, {"ReduceLROnPlateau", "CosineAnnealingLR"}}
=============================================================================
