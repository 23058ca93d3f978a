----------------------------- MODULE Schedulers -----------------------------
(***************************************************************************)
(* GoTorch's learning rate schedulers: StepLR, CosineAnnealingLR,           *)
(* ReduceLROnPlateau and LinearLR.  Each keeps an optimizer and changes its *)
(* rate through GetLR and SetLR; several may be attached to one optimizer,  *)
(* at any time.                                                             *)
(*                                                                          *)
(* A rate is an integer number of units, a factor a fraction <<p, q>>; the  *)
(* constants are chosen so that every rate reached is a whole number of     *)
(* units.  Rounding of floating-point numbers is left out.                  *)
(***************************************************************************)
EXTENDS Integers, Sequences, FiniteSets

CONSTANTS
    InitialLR,
    Gamma, StepSize,                        \* NewStepLR
    TMax, EtaMin,                           \* NewCosineAnnealingLR
    Cosine,         \* Cosine[t]: 0.5 * (1 + math.Cos(math.Pi * t / TMax)), as a multiple
                    \* of 1 / Cosine[0]
    Factor, Patience, MinLR,                \* NewReduceLROnPlateau
    StartFactor, EndFactor, TotalIters,     \* NewLinearLR
    Metrics,        \* the metrics StepWithMetric is called with
    Inf,            \* math.Inf(1) or math.Inf(-1)
    Together,       \* the sets of schedulers attached together
    MaxCalls        \* bound on the calls of Step and StepWithMetric

IsFraction(f) == f \in Nat \X (Nat \ {0})

ASSUME SchedulersAssumption ==
    /\ InitialLR \in Nat /\ EtaMin \in Nat /\ MinLR \in Nat /\ MaxCalls \in Nat
    /\ IsFraction(Gamma) /\ IsFraction(Factor)
    /\ IsFraction(StartFactor) /\ IsFraction(EndFactor)
    /\ StepSize \in Nat \ {0} /\ TotalIters \in Nat \ {0} /\ Patience \in Nat
    /\ TMax \in Nat \ {0} /\ Cosine \in [0 .. TMax -> Nat] /\ Cosine[TMax] = 0
    /\ \A t \in 0 .. TMax - 1 : Cosine[t + 1] < Cosine[t]
    /\ Metrics \subseteq Int /\ Inf \notin Int

VARIABLES
    lr,             \* the optimizer's learning rate
    attached,       \* the schedulers constructed
    baseLR,         \* baseLR of CosineAnnealingLR and of LinearLR
    epoch,          \* StepLR
    step,           \* CosineAnnealingLR
    Mode, bestVal, noImpCount,      \* ReduceLROnPlateau
    iter,           \* LinearLR
    metrics,        \* history: the metrics given to StepWithMetric
    cuts,           \* history: the calls of StepWithMetric that set the rate
    calls,          \* history: the calls of Step and StepWithMetric
    restart         \* history: the last rate that was set whatever the rate was before,
                    \* and the number of reductions until then

vars == <<lr, attached, baseLR, epoch, step, Mode, bestVal, noImpCount, iter,
          metrics, cuts, calls, restart>>

Times(x, f) == (x * f[1]) \div f[2]

Restarted == [rate |-> lr', decays |-> epoch \div StepSize, cuts |-> Cardinality(cuts)]

-----------------------------------------------------------------------------
(* The constructors; the ones with a schedule of their own read the rate *)
Construct(k) ==
    /\ k \notin attached
    /\ \E together \in Together : attached \cup {k} \subseteq together
    /\ attached' = attached \cup {k}

NewStepLR ==
    /\ Construct("StepLR")
    /\ epoch' = 0
    /\ UNCHANGED <<lr, baseLR, step, Mode, bestVal, noImpCount, iter, metrics, cuts, calls, restart>>

NewCosineAnnealingLR ==
    /\ Construct("CosineAnnealingLR")
    /\ step' = 0
    /\ baseLR' = [baseLR EXCEPT !["CosineAnnealingLR"] = lr]
    /\ UNCHANGED <<lr, epoch, Mode, bestVal, noImpCount, iter, metrics, cuts, calls, restart>>

NewReduceLROnPlateau(mode) ==
    /\ Construct("ReduceLROnPlateau")
    /\ Mode' = mode /\ bestVal' = Inf /\ noImpCount' = 0
    /\ UNCHANGED <<lr, baseLR, epoch, step, iter, metrics, cuts, calls, restart>>

NewLinearLR ==
    /\ Construct("LinearLR")
    /\ iter' = 0
    /\ baseLR' = [baseLR EXCEPT !["LinearLR"] = lr]
    /\ UNCHANGED <<lr, epoch, step, Mode, bestVal, noImpCount, metrics, cuts, calls, restart>>

Called(k) ==
    /\ k \in attached
    /\ calls < MaxCalls /\ calls' = calls + 1
    /\ UNCHANGED <<attached, baseLR>>

Decayed == Times(lr, Gamma)

StepLRStep ==
    /\ Called("StepLR")
    /\ epoch' = epoch + 1
    /\ lr' = IF epoch' % StepSize = 0 THEN Decayed ELSE lr
    /\ UNCHANGED <<step, Mode, bestVal, noImpCount, iter, metrics, cuts, restart>>

(* Mutant: the phase starts again after TMax steps *)
PhaseOneWay(s) == s % TMax

Phase(s) ==
    LET t == s % (2 * TMax) IN IF t > TMax THEN 2 * TMax - t ELSE t

CosineStep ==
    LET base == baseLR["CosineAnnealingLR"]
    IN  /\ Called("CosineAnnealingLR")
        /\ step' = step + 1
        /\ lr' = EtaMin + ((base - EtaMin) * Cosine[Phase(step')]) \div Cosine[0]
        /\ restart' = Restarted
        /\ UNCHANGED <<epoch, Mode, bestVal, noImpCount, iter, metrics, cuts>>

(* Beyond(m, b): m is on the good side of b times 1 - Threshold, or 1 +     *)
(* Threshold when the metric is maximized; Threshold is 1e-4                *)
Beyond(m, b) ==
    IF Mode = "min" THEN m * 10000 < b * 9999 ELSE m * 10000 > b * 10001

(* Mutant: an equal metric counts as an improvement *)
ImprovedOrEqual(m) == bestVal = Inf \/ Beyond(m, bestVal) \/ m = bestVal

Improved(m) == bestVal = Inf \/ Beyond(m, bestVal)

(* Mutant: the count is not reset after the rate was reduced *)
CountsOn(n) == n

(* noImpCount after the second if of StepWithMetric *)
CountAfter(n) == IF n >= Patience THEN 0 ELSE n

(* Mutant: the bound is left out *)
ReducedFreely == Times(lr, Factor)

(* math.Max(r.opt.GetLR() * r.Factor, r.MinLR) *)
Reduced == IF Times(lr, Factor) > MinLR THEN Times(lr, Factor) ELSE MinLR

StepWithMetric(m) ==
    LET n == IF Improved(m) THEN 0 ELSE noImpCount + 1
    IN  /\ Called("ReduceLROnPlateau")
        /\ bestVal' = IF Improved(m) THEN m ELSE bestVal
        /\ noImpCount' = CountAfter(n)
        /\ lr' = IF n < Patience THEN lr ELSE Reduced
        /\ metrics' = Append(metrics, m)
        /\ cuts' = IF n < Patience THEN cuts ELSE cuts \cup {Len(metrics')}
        /\ UNCHANGED <<epoch, step, Mode, iter, restart>>

(* LinearLR.Step returns at once when this is false *)
WarmingUp == iter < TotalIters

(* baseLR * (StartFactor + (EndFactor - StartFactor) * i / TotalIters) *)
WarmedUp(i) ==
    LET s == StartFactor
        e == EndFactor
    IN  (baseLR["LinearLR"] * (s[1] * e[2] * (TotalIters - i) + e[1] * s[2] * i))
            \div (s[2] * e[2] * TotalIters)

LinearStep ==
    /\ Called("LinearLR")
    /\ iter' = IF WarmingUp THEN iter + 1 ELSE iter
    /\ lr' = IF WarmingUp THEN WarmedUp(iter') ELSE lr
    /\ restart' = IF WarmingUp THEN Restarted ELSE restart
    /\ UNCHANGED <<epoch, step, Mode, bestVal, noImpCount, metrics, cuts>>

-----------------------------------------------------------------------------
Init ==
    /\ lr = InitialLR /\ attached = {}
    /\ baseLR = [k \in {"CosineAnnealingLR", "LinearLR"} |-> InitialLR]
    /\ epoch = 0 /\ step = 0 /\ iter = 0
    /\ Mode = "min" /\ bestVal = Inf /\ noImpCount = 0
    /\ metrics = <<>> /\ cuts = {} /\ calls = 0
    /\ restart = [rate |-> InitialLR, decays |-> 0, cuts |-> 0]

Next ==
    \/ NewStepLR \/ NewCosineAnnealingLR \/ NewLinearLR
    \/ \E mode \in {"min", "max"} : NewReduceLROnPlateau(mode)
    \/ StepLRStep \/ CosineStep \/ LinearStep
    \/ \E m \in Metrics : StepWithMetric(m)

Spec == Init /\ [][Next]_vars

-----------------------------------------------------------------------------
(* Several schedulers on one optimizer, with factors of at most one:        *)
(* whatever the order of their calls, each reduction by StepLR and          *)
(* ReduceLROnPlateau since CosineAnnealingLR or LinearLR last set the rate  *)
(* is in it, once.  Only ReduceLROnPlateau's MinLR stops that: the rate is  *)
(* then at most MinLR, which may be more than StepLR had reduced it to, and *)
(* no less than the reductions by StepLR alone would make of MinLR.         *)
ReductionsMultiply ==
    LET decays == epoch \div StepSize - restart.decays
        n == Cardinality(cuts) - restart.cuts
        product == restart.rate * Gamma[1]^decays * Factor[1]^n
        scale == Gamma[2]^decays * Factor[2]^n
    IN  IF n = 0 \/ product >= MinLR * scale
        THEN lr * scale = product
        ELSE /\ product <= lr * scale /\ lr <= MinLR
             /\ MinLR * Gamma[1]^decays <= lr * Gamma[2]^decays

(* On its own, CosineAnnealingLR takes TMax steps down from the base rate   *)
(* to EtaMin and TMax steps up again, each step in the right direction.     *)
CosineTurnsOnlyAtTheEnds ==
    [][CosineStep /\ attached = {"CosineAnnealingLR"} =>
          LET s == step % (2 * TMax)
          IN  /\ IF s < TMax THEN lr' < lr ELSE lr' > lr
              /\ s + 1 = TMax => lr' = EtaMin
              /\ s + 1 = 2 * TMax => lr' = baseLR["CosineAnnealingLR"]]_vars

(* m improves on none of the metrics before call k *)
NoBetterThanBefore(m, k) == \A i \in 1 .. k - 1 : ~Beyond(m, metrics[i])

(* "ReduceLROnPlateau reduces LR when metric stagnates": Patience calls in  *)
(* a row without a metric that improves on an earlier one by the threshold  *)
(* contain one that reduces the rate.  A negative metric that stands still  *)
(* does not stagnate in this sense: it is beyond 1 - Threshold times itself *)
(* when it is minimized, and counts as an improvement at every call.        *)
StagnationIsNoticed ==
    \A k \in 2 .. Len(metrics) + 1 - Patience :
        LET window == k .. k + Patience - 1
        IN  Patience > 0 /\ (\A j \in window : NoBetterThanBefore(metrics[j], k))
                => window \cap cuts # {}

(* ReduceLROnPlateau is patient: the Patience metrics up to the one that    *)
(* makes it reduce the rate brought no improvement beyond the threshold,    *)
(* and none of them counted for an earlier reduction.                       *)
ReducesAfterPatience ==
    \A c \in cuts : \A j \in c - Patience + 1 .. c :
        /\ j > 1
        /\ \E i \in 1 .. j - 1 : ~Beyond(metrics[j], metrics[i])
        /\ j < c => j \notin cuts
=============================================================================
