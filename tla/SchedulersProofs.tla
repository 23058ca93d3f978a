-------------------------- MODULE SchedulersProofs --------------------------
(***************************************************************************)
(* Proofs about module Schedulers: ReduceLROnPlateau reduces the rate       *)
(* neither too early nor too late, for every Patience and sequence of       *)
(* metrics and whatever other schedulers do, and CosineAnnealingLR turns    *)
(* only at the ends of its period, for every TMax.                          *)
(***************************************************************************)
EXTENDS Schedulers, TLAPS

(* The last noImpCount calls did not improve on bestVal, an earlier metric, *)
(* and none of them reduced the rate.  A scheduler that was not made yet    *)
(* has no calls, so that the mode does not change under them.               *)
Plateau ==
    /\ metrics \in Seq(Metrics) /\ cuts \subseteq 1 .. Len(metrics)
    /\ "ReduceLROnPlateau" \notin attached => metrics = <<>>
    /\ noImpCount \in 0 .. Len(metrics)
    /\ noImpCount < Patience \/ noImpCount = 0
    /\ metrics = <<>> => bestVal = Inf
    /\ metrics # <<>> => \E i \in 1 .. Len(metrics) - noImpCount : bestVal = metrics[i]
    /\ \A j \in Len(metrics) - noImpCount + 1 .. Len(metrics) :
          ~Beyond(metrics[j], bestVal) /\ j \notin cuts

(* As long as the calls since call k brought nothing better than before and *)
(* did not reduce the rate, all of them are counted, and bestVal is older.  *)
Counted ==
    \A k \in 2 .. Len(metrics) + 1 :
        (\A j \in k .. Len(metrics) : NoBetterThanBefore(metrics[j], k) /\ j \notin cuts)
            => /\ noImpCount >= Len(metrics) - k + 1
               /\ \E i \in 1 .. k - 1 : bestVal = metrics[i]

(* How far the rate of CosineAnnealingLR is above EtaMin after s steps: a   *)
(* multiple of 1 / Cosine[0] of the way to the base rate                    *)
Height(s) == Cosine[Phase(s)]

(* The rate of a CosineAnnealingLR that is alone follows its phase. *)
OnSchedule ==
    /\ step \in Nat /\ DOMAIN baseLR = {"CosineAnnealingLR", "LinearLR"}
    /\ attached = {} => lr = InitialLR
    /\ attached = {"CosineAnnealingLR"} =>
          /\ baseLR["CosineAnnealingLR"] = InitialLR
          /\ lr = EtaMin + ((InitialLR - EtaMin) * Height(step)) \div Cosine[0]

-----------------------------------------------------------------------------
(* The history after StepWithMetric(m); n is the count before it is reset   *)
LEMMA CallEffect ==
  ASSUME Plateau, NEW m \in Metrics, StepWithMetric(m)
  PROVE  /\ metrics' \in Seq(Metrics) /\ Len(metrics') = Len(metrics) + 1 /\ Len(metrics) \in Nat
         /\ metrics'[Len(metrics) + 1] = m /\ \A i \in 1 .. Len(metrics) : metrics'[i] = metrics[i]
         /\ Mode' = Mode /\ "ReduceLROnPlateau" \in attached'
         /\ \E n \in Nat :
               /\ n = IF Improved(m) THEN 0 ELSE noImpCount + 1
               /\ bestVal' = IF Improved(m) THEN m ELSE bestVal
               /\ noImpCount' = IF n >= Patience THEN 0 ELSE n
               /\ cuts' = IF n < Patience THEN cuts ELSE cuts \cup {Len(metrics) + 1}
  <1>1. metrics \in Seq(Metrics) /\ metrics' = Append(metrics, m) /\ noImpCount \in Nat
    BY DEF StepWithMetric, Plateau
  <1>2. /\ metrics' \in Seq(Metrics) /\ Len(metrics') = Len(metrics) + 1 /\ Len(metrics) \in Nat
        /\ metrics'[Len(metrics) + 1] = m /\ \A i \in 1 .. Len(metrics) : metrics'[i] = metrics[i]
    BY <1>1
  <1>3. Mode' = Mode /\ "ReduceLROnPlateau" \in attached'
    BY DEF StepWithMetric, Called
  <1>4. PICK n \in Nat : n = IF Improved(m) THEN 0 ELSE noImpCount + 1
    BY <1>1
  <1>5. /\ bestVal' = IF Improved(m) THEN m ELSE bestVal
        /\ noImpCount' = IF n >= Patience THEN 0 ELSE n
        /\ cuts' = IF n < Patience THEN cuts ELSE cuts \cup {Len(metrics) + 1}
    BY <1>2, <1>4 DEF StepWithMetric, CountAfter
  <1> QED BY <1>2, <1>3, <1>4, <1>5

(* A step that is not a call of StepWithMetric or the constructor *)
LEMMA OtherSchedulers ==
  ASSUME [Next]_vars
  PROVE  \/ \E m \in Metrics : StepWithMetric(m)
         \/ \E mode \in {"min", "max"} : NewReduceLROnPlateau(mode)
         \/ /\ UNCHANGED <<metrics, cuts, bestVal, noImpCount, Mode>>
            /\ "ReduceLROnPlateau" \notin attached' => "ReduceLROnPlateau" \notin attached
  BY DEF Next, vars, NewStepLR, NewCosineAnnealingLR, NewLinearLR, Construct, StepLRStep, CosineStep,
         LinearStep, Called

LEMMA PlateauStep ==
  ASSUME Plateau, [Next]_vars
  PROVE  Plateau'
  <1>a. Patience \in Nat /\ Metrics \subseteq Int /\ Inf \notin Int
    BY SchedulersAssumption
  <1>1. ASSUME NEW m \in Metrics, StepWithMetric(m) PROVE Plateau'
    <2>1. /\ metrics' \in Seq(Metrics) /\ Len(metrics') = Len(metrics) + 1 /\ Len(metrics) \in Nat
          /\ metrics'[Len(metrics) + 1] = m /\ \A i \in 1 .. Len(metrics) : metrics'[i] = metrics[i]
          /\ Mode' = Mode /\ "ReduceLROnPlateau" \in attached'
      BY <1>1, CallEffect
    <2>2. PICK n \in Nat :
             /\ n = IF Improved(m) THEN 0 ELSE noImpCount + 1
             /\ bestVal' = IF Improved(m) THEN m ELSE bestVal
             /\ noImpCount' = IF n >= Patience THEN 0 ELSE n
             /\ cuts' = IF n < Patience THEN cuts ELSE cuts \cup {Len(metrics) + 1}
      BY <1>1, CallEffect
    <2>3. cuts' \subseteq 1 .. Len(metrics')
      <3>1. cuts \subseteq 1 .. Len(metrics) /\ cuts' \subseteq cuts \cup {Len(metrics) + 1}
        BY <2>2 DEF Plateau
      <3> QED BY <2>1, <3>1
    <2>4. noImpCount' \in 0 .. Len(metrics') /\ (noImpCount' < Patience \/ noImpCount' = 0)
      BY <1>a, <2>1, <2>2 DEF Plateau
    <2>5. metrics' # <<>>
      BY <2>1
    <2>6. \E i \in 1 .. Len(metrics') - noImpCount' : bestVal' = metrics'[i]
      <3>1. CASE Improved(m)
        <4>1. noImpCount' = 0 /\ bestVal' = m
          BY <2>2, <3>1
        <4> QED BY <2>1, <4>1
      <3>2. CASE ~Improved(m)
        <4>1. bestVal # Inf /\ metrics # <<>>
          BY <3>2 DEF Improved, Plateau
        <4>2. PICK i \in 1 .. Len(metrics) - noImpCount : bestVal = metrics[i]
          BY <4>1 DEF Plateau
        <4>3. i \in 1 .. Len(metrics') - noImpCount' /\ i \in 1 .. Len(metrics)
          BY <1>a, <2>1, <2>2, <3>2 DEF Plateau
        <4> QED BY <2>1, <2>2, <3>2, <4>2, <4>3
      <3> QED BY <3>1, <3>2
    <2>7. ASSUME NEW j \in Len(metrics') - noImpCount' + 1 .. Len(metrics')
          PROVE  ~Beyond(metrics[j], bestVal)' /\ j \notin cuts'
      <3>1. noImpCount' = n /\ n < Patience /\ ~Improved(m) /\ n = noImpCount + 1
        BY <1>a, <2>1, <2>2, <2>7 DEF Plateau
      <3>2. bestVal' = bestVal /\ cuts' = cuts
        BY <2>2, <3>1
      <3>3. CASE j = Len(metrics) + 1
        BY <2>1, <3>1, <3>2, <3>3 DEF Improved, Beyond, Plateau
      <3>4. CASE j # Len(metrics) + 1
        <4>1. j \in Len(metrics) - noImpCount + 1 .. Len(metrics) /\ j \in 1 .. Len(metrics)
          BY <2>1, <2>7, <3>1, <3>4 DEF Plateau
        <4>2. ~Beyond(metrics[j], bestVal) /\ j \notin cuts
          BY <4>1 DEF Plateau
        <4> QED BY <2>1, <3>2, <4>1, <4>2 DEF Beyond
      <3> QED BY <3>3, <3>4
    <2> QED BY <2>1, <2>3, <2>4, <2>5, <2>6, <2>7 DEF Plateau, Beyond
  <1>2. ASSUME NEW mode \in {"min", "max"}, NewReduceLROnPlateau(mode) PROVE Plateau'
    <2>1. /\ UNCHANGED <<metrics, cuts>> /\ bestVal' = Inf /\ noImpCount' = 0
          /\ "ReduceLROnPlateau" \notin attached
      BY <1>2 DEF NewReduceLROnPlateau, Construct
    <2>2. metrics' = <<>> /\ Len(metrics') = 0
      BY <2>1 DEF Plateau
    <2> QED BY <1>a, <2>1, <2>2 DEF Plateau
  <1>3. ASSUME UNCHANGED <<metrics, cuts, bestVal, noImpCount, Mode>>,
               "ReduceLROnPlateau" \notin attached' => "ReduceLROnPlateau" \notin attached
        PROVE  Plateau'
    BY <1>3 DEF Plateau, Beyond
  <1> QED BY <1>1, <1>2, <1>3, OtherSchedulers

LEMMA PlateauInit == Init => Plateau
  BY SchedulersAssumption DEF Init, Plateau

(* ReduceLROnPlateau is patient, for every Patience: StepWithMetric reduces *)
(* the rate after exactly Patience metrics in a row without an improvement, *)
(* and resets noImpCount, so that none counts for two reductions.           *)
THEOREM AlwaysPatient == Spec => []ReducesAfterPatience
  <1>1. Init => Plateau /\ ReducesAfterPatience
    BY PlateauInit DEF Init, ReducesAfterPatience
  <1>2. ASSUME Plateau, ReducesAfterPatience, [Next]_vars PROVE ReducesAfterPatience'
    <2>a. Patience \in Nat
      BY SchedulersAssumption
    <2>1. ASSUME NEW m \in Metrics, StepWithMetric(m) PROVE ReducesAfterPatience'
      <3>1. /\ metrics' \in Seq(Metrics) /\ Len(metrics') = Len(metrics) + 1 /\ Len(metrics) \in Nat
            /\ metrics'[Len(metrics) + 1] = m /\ \A i \in 1 .. Len(metrics) : metrics'[i] = metrics[i]
            /\ Mode' = Mode
        BY <1>2, <2>1, CallEffect
      <3>2. PICK n \in Nat :
               /\ n = IF Improved(m) THEN 0 ELSE noImpCount + 1
               /\ cuts' = IF n < Patience THEN cuts ELSE cuts \cup {Len(metrics) + 1}
        BY <1>2, <2>1, CallEffect
      <3>p. /\ noImpCount \in 0 .. Len(metrics) /\ (noImpCount < Patience \/ noImpCount = 0)
            /\ cuts \subseteq 1 .. Len(metrics)
        BY <1>2 DEF Plateau
      <3> SUFFICES ASSUME NEW c \in cuts', NEW j \in c - Patience + 1 .. c
                   PROVE  /\ j > 1
                          /\ \E i \in 1 .. j - 1 : ~Beyond(metrics'[j], metrics'[i])
                          /\ j < c => j \notin cuts'
        <4>1. \A x, y : Beyond(x, y)' <=> Beyond(x, y)
          BY <3>1 DEF Beyond
        <4> QED BY <3>1 DEF ReducesAfterPatience, Beyond
      <3>3. CASE c \in cuts
        <4>1. c \in 1 .. Len(metrics) /\ c # Len(metrics) + 1
          BY <3>3, <3>p, <3>1
        <4>2. j > 1 /\ (j < c => j \notin cuts)
          BY <1>2, <3>3 DEF ReducesAfterPatience
        <4>3. PICK i \in 1 .. j - 1 : ~Beyond(metrics[j], metrics[i])
          BY <1>2, <3>3 DEF ReducesAfterPatience
        <4>4. j \in 1 .. Len(metrics) /\ i \in 1 .. Len(metrics)
          BY <2>a, <3>1, <4>1, <4>2
        <4>5. metrics'[j] = metrics[j] /\ metrics'[i] = metrics[i]
          BY <3>1, <4>4
        <4>6. j < c => j \notin cuts'
          BY <3>1, <3>2, <4>1, <4>2, <4>4
        <4> QED BY <4>2, <4>3, <4>5, <4>6
      <3>4. CASE c \notin cuts
        <4>1. c = Len(metrics) + 1 /\ ~(n < Patience) /\ Patience > 0
          BY <2>a, <3>1, <3>2, <3>4
        <4>2. ~Improved(m) /\ n = noImpCount + 1 /\ Patience = noImpCount + 1
          BY <2>a, <3>2, <3>p, <4>1
        <4>3. metrics # <<>> /\ ~Beyond(m, bestVal)
          BY <1>2, <4>2 DEF Improved, Plateau
        <4>4. PICK i \in 1 .. Len(metrics) - noImpCount : bestVal = metrics[i]
          BY <1>2, <4>3 DEF Plateau
        <4>5. j \in Len(metrics) - noImpCount + 1 .. Len(metrics) + 1 /\ i \in 1 .. j - 1 /\ i \in 1 .. Len(metrics)
          BY <2>a, <3>1, <3>p, <4>1, <4>2
        <4>6. j > 1
          BY <3>1, <3>p, <4>5
        <4>7. metrics'[i] = bestVal
          BY <3>1, <4>4, <4>5
        <4>8. CASE j = Len(metrics) + 1
          BY <3>1, <4>1, <4>3, <4>5, <4>6, <4>7, <4>8
        <4>9. CASE j # Len(metrics) + 1
          <5>1. j \in Len(metrics) - noImpCount + 1 .. Len(metrics) /\ j \in 1 .. Len(metrics)
            BY <3>1, <3>p, <4>5, <4>6, <4>9
          <5>2. ~Beyond(metrics[j], bestVal) /\ j \notin cuts
            BY <1>2, <5>1 DEF Plateau
          <5>3. metrics'[j] = metrics[j] /\ j \notin cuts'
            BY <3>1, <3>2, <4>9, <5>1, <5>2
          <5> QED BY <4>5, <4>6, <4>7, <5>2, <5>3
        <4> QED BY <4>8, <4>9
      <3> QED BY <3>3, <3>4
    <2>2. ASSUME NEW mode \in {"min", "max"}, NewReduceLROnPlateau(mode) PROVE ReducesAfterPatience'
      <3>1. cuts' = cuts /\ metrics = <<>>
        BY <1>2, <2>2 DEF NewReduceLROnPlateau, Construct, Plateau
      <3>2. cuts' = {}
        BY <1>2, <3>1 DEF Plateau
      <3> QED BY <3>2 DEF ReducesAfterPatience
    <2>3. ASSUME UNCHANGED <<metrics, cuts, Mode>> PROVE ReducesAfterPatience'
      BY <1>2, <2>3 DEF ReducesAfterPatience, Beyond
    <2> QED BY <1>2, <2>1, <2>2, <2>3, OtherSchedulers
  <1> QED BY <1>1, <1>2, PlateauStep, PTL DEF Spec

-----------------------------------------------------------------------------
LEMMA CountedStep ==
  ASSUME Plateau, Plateau', Counted, [Next]_vars
  PROVE  Counted'
  <1>a. Patience \in Nat /\ Metrics \subseteq Int /\ Inf \notin Int
    BY SchedulersAssumption
  <1>1. ASSUME NEW m \in Metrics, StepWithMetric(m) PROVE Counted'
    <2>1. /\ metrics' \in Seq(Metrics) /\ Len(metrics') = Len(metrics) + 1 /\ Len(metrics) \in Nat
          /\ metrics'[Len(metrics) + 1] = m /\ \A i \in 1 .. Len(metrics) : metrics'[i] = metrics[i]
          /\ Mode' = Mode
      BY <1>1, CallEffect
    <2>2. PICK n \in Nat :
             /\ n = IF Improved(m) THEN 0 ELSE noImpCount + 1
             /\ bestVal' = IF Improved(m) THEN m ELSE bestVal
             /\ noImpCount' = IF n >= Patience THEN 0 ELSE n
             /\ cuts' = IF n < Patience THEN cuts ELSE cuts \cup {Len(metrics) + 1}
      BY <1>1, CallEffect
    <2>p. /\ noImpCount \in Nat /\ noImpCount' \in 0 .. Len(metrics')
          /\ metrics \in Seq(Metrics)
      BY <2>1 DEF Plateau
    <2> SUFFICES ASSUME NEW k \in 2 .. Len(metrics) + 2,
                        \A j \in k .. Len(metrics) + 1 : NoBetterThanBefore(metrics[j], k)' /\ j \notin cuts'
                 PROVE  /\ noImpCount' >= Len(metrics) + 1 - k + 1
                        /\ \E i \in 1 .. k - 1 : bestVal' = metrics'[i]
      BY <2>1 DEF Counted
    <2>3. CASE k = Len(metrics) + 2
      <3>1. metrics' # <<>>
        BY <2>1
      <3>2. PICK i \in 1 .. Len(metrics') - noImpCount' : bestVal' = metrics'[i]
        BY <3>1 DEF Plateau
      <3>3. i \in 1 .. k - 1
        BY <2>1, <2>p, <2>3
      <3> QED BY <2>1, <2>p, <2>3, <3>2, <3>3
    <2>4. CASE k # Len(metrics) + 2
      <3>0. k \in 2 .. Len(metrics) + 1 /\ Len(metrics) + 1 \in k .. Len(metrics) + 1
        BY <2>1, <2>4
      <3>1. ASSUME NEW j \in k .. Len(metrics) PROVE NoBetterThanBefore(metrics[j], k) /\ j \notin cuts
        <4>1. j \in k .. Len(metrics) + 1 /\ j \in 1 .. Len(metrics)
          BY <2>1, <3>0
        <4>2. NoBetterThanBefore(metrics[j], k)' /\ j \notin cuts'
          BY <4>1
        <4>3. metrics'[j] = metrics[j] /\ \A i \in 1 .. k - 1 : i \in 1 .. Len(metrics) /\ metrics'[i] = metrics[i]
          BY <2>1, <3>0, <4>1
        <4>4. NoBetterThanBefore(metrics[j], k)
          BY <2>1, <4>2, <4>3 DEF NoBetterThanBefore, Beyond
        <4> QED BY <2>2, <4>2, <4>4
      <3>2. noImpCount >= Len(metrics) - k + 1 /\ \E i \in 1 .. k - 1 : bestVal = metrics[i]
        BY <3>0, <3>1 DEF Counted
      <3>3. PICK i \in 1 .. k - 1 : bestVal = metrics[i]
        BY <3>2
      <3>4. i \in 1 .. Len(metrics)
        BY <2>1, <3>0, <3>3
      <3>5. metrics'[i] = bestVal /\ bestVal \in Int
        <4>1. metrics[i] \in Metrics
          BY <2>p, <3>4
        <4> QED BY <1>a, <2>1, <3>3, <3>4, <4>1
      <3>6. ~Beyond(m, bestVal)
        <4>1. PICK l \in k .. Len(metrics) + 1 : l = Len(metrics) + 1
          BY <3>0
        <4>2. NoBetterThanBefore(metrics[l], k)'
          OBVIOUS
        <4>3. ~Beyond(metrics[l], metrics[i])'
          BY <3>3, <4>2 DEF NoBetterThanBefore
        <4> QED BY <2>1, <3>5, <4>1, <4>3 DEF Beyond
      <3>7. ~Improved(m)
        BY <1>a, <3>5, <3>6 DEF Improved
      <3>8. n < Patience /\ n = noImpCount + 1 /\ noImpCount' = n
        <4>1. Len(metrics) + 1 \notin cuts'
          BY <3>0
        <4> QED BY <1>a, <2>2, <3>7, <4>1
      <3> QED BY <2>1, <2>2, <2>p, <3>0, <3>2, <3>3, <3>5, <3>7, <3>8
    <2> QED BY <2>3, <2>4
  <1>2. ASSUME NEW mode \in {"min", "max"}, NewReduceLROnPlateau(mode) PROVE Counted'
    <2>1. metrics' = <<>> /\ Len(metrics') = 0
      BY <1>2 DEF NewReduceLROnPlateau, Construct, Plateau
    <2> QED BY <2>1 DEF Counted
  <1>3. ASSUME UNCHANGED <<metrics, cuts, bestVal, noImpCount, Mode>> PROVE Counted'
    BY <1>3 DEF Counted, NoBetterThanBefore, Beyond
  <1> QED BY <1>1, <1>2, <1>3, OtherSchedulers

(* A stagnating metric is noticed, for every Patience and every sequence of *)
(* metrics: Patience calls of StepWithMetric without a metric that improves *)
(* on an earlier one by the threshold contain one that reduces the rate.    *)
(* Metrics may be negative; one that stands still then improves on itself   *)
(* in the sense of StepWithMetric, and nothing is claimed of it.            *)
THEOREM AlwaysNoticesStagnation == Spec => []StagnationIsNoticed
  <1>a. Patience \in Nat
    BY SchedulersAssumption
  <1>1. Init => Plateau /\ Counted /\ StagnationIsNoticed
    <2> SUFFICES ASSUME Init PROVE Plateau /\ Counted /\ StagnationIsNoticed
      OBVIOUS
    <2>1. metrics = <<>> /\ Len(metrics) = 0
      BY DEF Init
    <2> QED BY <1>a, <2>1, PlateauInit DEF Counted, StagnationIsNoticed
  <1>2. ASSUME Plateau, Counted, StagnationIsNoticed, [Next]_vars, Plateau', Counted'
        PROVE  StagnationIsNoticed'
    <2>1. ASSUME NEW m \in Metrics, StepWithMetric(m) PROVE StagnationIsNoticed'
      <3>1. /\ Len(metrics') = Len(metrics) + 1 /\ Len(metrics) \in Nat
            /\ \A i \in 1 .. Len(metrics) : metrics'[i] = metrics[i]
            /\ Mode' = Mode
        BY <1>2, <2>1, CallEffect
      <3>2. cuts \subseteq cuts'
        BY <1>2, <2>1, CallEffect
      <3> SUFFICES ASSUME NEW k \in 2 .. Len(metrics) + 2 - Patience, Patience > 0,
                          \A j \in k .. k + Patience - 1 : NoBetterThanBefore(metrics[j], k)',
                          (k .. k + Patience - 1) \cap cuts' = {}
                   PROVE  FALSE
        BY <3>1, <1>a DEF StagnationIsNoticed
      <3>3. CASE k = Len(metrics) + 2 - Patience
        <4>1. k \in 2 .. Len(metrics') + 1 /\ k + Patience - 1 = Len(metrics')
          BY <1>a, <3>1, <3>3
        <4>2. \A j \in k .. Len(metrics') : NoBetterThanBefore(metrics[j], k)' /\ j \notin cuts'
          BY <4>1
        <4>3. noImpCount' >= Len(metrics') - k + 1
          BY <1>2, <4>1, <4>2 DEF Counted
        <4>4. noImpCount' \in Nat /\ (noImpCount' < Patience \/ noImpCount' = 0)
          BY <1>2 DEF Plateau
        <4> QED BY <1>a, <3>1, <3>3, <4>3, <4>4
      <3>4. CASE k # Len(metrics) + 2 - Patience
        <4>1. k \in 2 .. Len(metrics) + 1 - Patience
          BY <1>a, <3>1, <3>4
        <4>2. ASSUME NEW j \in k .. k + Patience - 1 PROVE NoBetterThanBefore(metrics[j], k)
          <5>1. NoBetterThanBefore(metrics[j], k)'
            OBVIOUS
          <5>2. j \in 1 .. Len(metrics) /\ \A i \in 1 .. k - 1 : i \in 1 .. Len(metrics)
            BY <1>a, <3>1, <4>1
          <5>3. metrics'[j] = metrics[j] /\ \A i \in 1 .. k - 1 : metrics'[i] = metrics[i]
            BY <3>1, <5>2
          <5> QED BY <3>1, <5>1, <5>3 DEF NoBetterThanBefore, Beyond
        <4>3. (k .. k + Patience - 1) \cap cuts # {}
          BY <1>2, <4>1, <4>2 DEF StagnationIsNoticed
        <4> QED BY <3>2, <4>3
      <3> QED BY <3>3, <3>4
    <2>2. ASSUME NEW mode \in {"min", "max"}, NewReduceLROnPlateau(mode) PROVE StagnationIsNoticed'
      <3>1. metrics' = <<>> /\ Len(metrics') = 0
        BY <1>2, <2>2 DEF NewReduceLROnPlateau, Construct, Plateau
      <3> QED BY <1>a, <3>1 DEF StagnationIsNoticed
    <2>3. ASSUME UNCHANGED <<metrics, cuts, Mode>> PROVE StagnationIsNoticed'
      BY <1>2, <2>3 DEF StagnationIsNoticed, NoBetterThanBefore, Beyond
    <2> QED BY <1>2, <2>1, <2>2, <2>3, OtherSchedulers
  <1>3. Plateau /\ Counted /\ [Next]_vars => Plateau' /\ Counted'
    BY PlateauStep, CountedStep
  <1> QED BY <1>1, <1>2, <1>3, PTL DEF Spec

-----------------------------------------------------------------------------
(* CosineAnnealingLR: the steps through its period of 2 * TMax steps *)
LEMMA DivisionWithRemainder ==
  ASSUME NEW s \in Nat, NEW m \in Nat \ {0}
  PROVE  s = m * (s \div m) + (s % m)
  OBVIOUS

LEMMA NextPhase ==
  ASSUME NEW s \in Nat
  PROVE  /\ s % (2 * TMax) \in 0 .. 2 * TMax - 1
         /\ (s + 1) % (2 * TMax) = IF (s % (2 * TMax)) + 1 = 2 * TMax THEN 0 ELSE (s % (2 * TMax)) + 1
  <1>1. TMax \in Nat \ {0}
    BY SchedulersAssumption
  <1>2. PICK m \in Nat \ {0} : m = 2 * TMax
    BY <1>1
  <1>3. PICK q \in Nat, r \in 0 .. m - 1 : s = q * m + r
    <2>1. s \div m \in Nat /\ s % m \in 0 .. m - 1
      OBVIOUS
    <2>2. s = m * (s \div m) + (s % m)
      BY DivisionWithRemainder
    <2>3. PICK q \in Nat, r \in 0 .. m - 1 : s = m * q + r
      BY <2>1, <2>2
    <2>4. m * q = q * m
      OBVIOUS
    <2> QED BY <2>3, <2>4
  <1>4. \A x \in Nat : \A y \in 0 .. m - 1 : (x * m + y) % m = y
    OBVIOUS
  <1>5. s % m = r
    BY <1>3, <1>4
  <1>6. (s + 1) % m = IF r + 1 = m THEN 0 ELSE r + 1
    <2>1. CASE r + 1 = m
      <3>1. PICK p \in Nat : p = q + 1
        OBVIOUS
      <3>2. s + 1 = p * m + 0 /\ 0 \in 0 .. m - 1
        BY <1>3, <2>1, <3>1
      <3>3. (p * m + 0) % m = 0
        BY <1>4, <3>2
      <3> QED BY <2>1, <3>2, <3>3
    <2>2. CASE r + 1 # m
      <3>1. s + 1 = q * m + (r + 1) /\ r + 1 \in 0 .. m - 1
        BY <1>3, <2>2
      <3> QED BY <1>4, <2>2, <3>1
    <2> QED BY <2>1, <2>2
  <1> QED BY <1>2, <1>5, <1>6

LEMMA HeightTurns ==
  ASSUME NEW s \in Nat
  PROVE  LET r == s % (2 * TMax)
         IN  /\ Height(s) \in Nat /\ Height(s + 1) \in Nat
             /\ IF r < TMax THEN Height(s + 1) < Height(s) ELSE Height(s + 1) > Height(s)
             /\ r + 1 = TMax => Height(s + 1) = 0
             /\ r + 1 = 2 * TMax => Height(s + 1) = Cosine[0]
  <1>a. /\ TMax \in Nat \ {0} /\ Cosine \in [0 .. TMax -> Nat] /\ Cosine[TMax] = 0
        /\ \A t \in 0 .. TMax - 1 : Cosine[t + 1] < Cosine[t]
    BY SchedulersAssumption
  <1>1. PICK r \in 0 .. 2 * TMax - 1 : r = s % (2 * TMax)
    BY NextPhase
  <1>2. (s + 1) % (2 * TMax) = IF r + 1 = 2 * TMax THEN 0 ELSE r + 1
    BY <1>1, NextPhase
  <1>3. CASE r < TMax
    <2>1. Phase(s) = r /\ Phase(s + 1) = r + 1
      BY <1>a, <1>1, <1>2, <1>3 DEF Phase
    <2>2. r \in 0 .. TMax - 1 /\ r \in 0 .. TMax /\ r + 1 \in 0 .. TMax /\ r + 1 # 2 * TMax
      BY <1>a, <1>3
    <2>3. Cosine[r] \in Nat /\ Cosine[r + 1] \in Nat /\ Cosine[r + 1] < Cosine[r]
      BY <1>a, <2>2
    <2> QED BY <1>a, <1>1, <1>3, <2>1, <2>2, <2>3 DEF Height
  <1>4. CASE ~(r < TMax)
    <2>1. Phase(s) = 2 * TMax - r /\ Phase(s + 1) = 2 * TMax - r - 1
      BY <1>a, <1>1, <1>2, <1>4 DEF Phase
    <2>2. PICK t \in 0 .. TMax - 1 : t = 2 * TMax - r - 1
      BY <1>a, <1>1, <1>4
    <2>3. Cosine[t] \in Nat /\ Cosine[t + 1] \in Nat /\ Cosine[t + 1] < Cosine[t]
      BY <1>a
    <2>4. 2 * TMax - r = t + 1 /\ r + 1 # TMax /\ (r + 1 = 2 * TMax => t = 0)
      BY <1>a, <1>4, <2>2
    <2> QED BY <1>1, <1>4, <2>1, <2>2, <2>3, <2>4 DEF Height
  <1> QED BY <1>3, <1>4

LEMMA HeightStart == Height(0) = Cosine[0] /\ Cosine[0] \in Nat \ {0}
  <1>a. /\ TMax \in Nat \ {0} /\ Cosine \in [0 .. TMax -> Nat]
        /\ \A t \in 0 .. TMax - 1 : Cosine[t + 1] < Cosine[t]
    BY SchedulersAssumption
  <1>1. 0 % (2 * TMax) = 0
    <2>1. \A m \in Nat \ {0} : 0 % m = 0
      OBVIOUS
    <2> QED BY <1>a, <2>1
  <1>2. Phase(0) = 0
    BY <1>a, <1>1 DEF Phase
  <1>3. 0 \in 0 .. TMax - 1 /\ 0 \in 0 .. TMax /\ 0 + 1 \in 0 .. TMax
    BY <1>a
  <1>4. Cosine[0] \in Nat /\ Cosine[0 + 1] \in Nat /\ Cosine[0 + 1] < Cosine[0]
    BY <1>a, <1>3
  <1> QED BY <1>2, <1>4 DEF Height

LEMMA WholeQuotient ==
  ASSUME NEW x \in Nat, NEW d \in Nat \ {0}
  PROVE  (x * d) \div d = x
  OBVIOUS

LEMMA OnScheduleStep ==
  ASSUME InitialLR >= EtaMin, OnSchedule, [Next]_vars
  PROVE  OnSchedule'
  <1> DEFINE Rate(s) == EtaMin + ((InitialLR - EtaMin) * Height(s)) \div Cosine[0]
  <1>i. /\ step \in Nat /\ DOMAIN baseLR = {"CosineAnnealingLR", "LinearLR"}
        /\ attached = {} => lr = InitialLR
        /\ attached = {"CosineAnnealingLR"} =>
              baseLR["CosineAnnealingLR"] = InitialLR /\ lr = Rate(step)
    BY DEF OnSchedule, Height
  <1>0. ASSUME step' \in Nat, DOMAIN baseLR' = {"CosineAnnealingLR", "LinearLR"},
               attached' = {} => lr' = InitialLR,
               attached' = {"CosineAnnealingLR"} =>
                  baseLR'["CosineAnnealingLR"] = InitialLR /\ lr' = Rate(step')
        PROVE  OnSchedule'
    BY <1>0 DEF OnSchedule, Height
  <1> HIDE DEF Rate
  <1>1. CASE NewCosineAnnealingLR
    <2>1. /\ step' = 0 /\ lr' = lr /\ attached' = attached \cup {"CosineAnnealingLR"}
          /\ "CosineAnnealingLR" \notin attached
          /\ baseLR' = [baseLR EXCEPT !["CosineAnnealingLR"] = lr]
      BY <1>1 DEF NewCosineAnnealingLR, Construct
    <2>2. DOMAIN baseLR' = {"CosineAnnealingLR", "LinearLR"} /\ baseLR'["CosineAnnealingLR"] = lr
      BY <1>i, <2>1
    <2>3. Rate(0) = InitialLR
      <3>1. InitialLR \in Nat /\ EtaMin \in Nat
        BY SchedulersAssumption
      <3>2. InitialLR - EtaMin \in Nat
        BY <3>1
      <3>3. ((InitialLR - EtaMin) * Cosine[0]) \div Cosine[0] = InitialLR - EtaMin
        BY <3>2, HeightStart, WholeQuotient
      <3> QED BY <3>1, <3>3, HeightStart DEF Rate
    <2>4. attached' = {"CosineAnnealingLR"} => attached = {}
      BY <2>1
    <2> QED BY <1>0, <1>i, <2>1, <2>2, <2>3, <2>4
  <1>2. CASE CosineStep
    <2>1. /\ step' = step + 1 /\ UNCHANGED <<attached, baseLR>> /\ "CosineAnnealingLR" \in attached
          /\ baseLR["CosineAnnealingLR"] = InitialLR => lr' = Rate(step')
      BY <1>2 DEF CosineStep, Called, Rate, Height
    <2> QED BY <1>0, <1>i, <2>1
  <1>3. CASE NewStepLR \/ (\E mode \in {"min", "max"} : NewReduceLROnPlateau(mode))
    <2>1. UNCHANGED <<step, baseLR>> /\ attached' # {} /\ attached' # {"CosineAnnealingLR"}
      BY <1>3 DEF NewStepLR, NewReduceLROnPlateau, Construct
    <2> QED BY <1>0, <1>i, <2>1
  <1>4. CASE NewLinearLR
    <2>1. /\ step' = step /\ baseLR' = [baseLR EXCEPT !["LinearLR"] = lr]
          /\ attached' # {} /\ attached' # {"CosineAnnealingLR"}
      BY <1>4 DEF NewLinearLR, Construct
    <2> QED BY <1>0, <1>i, <2>1
  <1>5. CASE StepLRStep \/ LinearStep \/ (\E m \in Metrics : StepWithMetric(m))
    <2>1. UNCHANGED <<step, baseLR, attached>> /\ attached # {} /\ attached # {"CosineAnnealingLR"}
      BY <1>5 DEF StepLRStep, LinearStep, StepWithMetric, Called
    <2> QED BY <1>0, <1>i, <2>1
  <1>6. CASE UNCHANGED vars
    BY <1>0, <1>i, <1>6 DEF vars
  <1> QED BY <1>1, <1>2, <1>3, <1>4, <1>5, <1>6 DEF Next

(* CosineAnnealingLR on its own falls for TMax steps to EtaMin and rises    *)
(* for TMax steps back to the base rate, for ever, since its step count     *)
(* goes through a phase of 2 * TMax steps.  This is for every TMax and      *)
(* every table of the cosine that falls strictly to 0; the base rate is a   *)
(* multiple of the table's scale above EtaMin, so that no division has a    *)
(* remainder.                                                               *)
THEOREM CosineAlwaysTurns ==
  ASSUME NEW u \in Nat \ {0}, InitialLR = EtaMin + u * Cosine[0]
  PROVE  Spec => CosineTurnsOnlyAtTheEnds
  <1> DEFINE Turns == CosineStep /\ attached = {"CosineAnnealingLR"} =>
                        LET s == step % (2 * TMax)
                        IN  /\ IF s < TMax THEN lr' < lr ELSE lr' > lr
                            /\ s + 1 = TMax => lr' = EtaMin
                            /\ s + 1 = 2 * TMax => lr' = baseLR["CosineAnnealingLR"]
  <1>a. EtaMin \in Nat /\ InitialLR \in Nat /\ InitialLR >= EtaMin /\ InitialLR - EtaMin = u * Cosine[0]
    <2>1. u * Cosine[0] \in Nat
      BY HeightStart
    <2> QED BY <2>1, SchedulersAssumption
  <1>1. Init => OnSchedule
    BY DEF Init, OnSchedule
  <1>2. OnSchedule /\ [Next]_vars => OnSchedule'
    BY <1>a, OnScheduleStep
  <1>3. ASSUME OnSchedule PROVE Turns
    <2> SUFFICES ASSUME CosineStep, attached = {"CosineAnnealingLR"}
                 PROVE  LET s == step % (2 * TMax)
                        IN  /\ IF s < TMax THEN lr' < lr ELSE lr' > lr
                            /\ s + 1 = TMax => lr' = EtaMin
                            /\ s + 1 = 2 * TMax => lr' = baseLR["CosineAnnealingLR"]
      OBVIOUS
    <2>1. step \in Nat /\ baseLR["CosineAnnealingLR"] = InitialLR
      BY <1>3 DEF OnSchedule
    <2>2. PICK a, b : a = Height(step) /\ b = Height(step + 1)
      OBVIOUS
    <2>3. /\ a \in Nat /\ b \in Nat
          /\ IF step % (2 * TMax) < TMax THEN b < a ELSE b > a
          /\ (step % (2 * TMax)) + 1 = TMax => b = 0
          /\ (step % (2 * TMax)) + 1 = 2 * TMax => b = Cosine[0]
      BY <2>1, <2>2, HeightTurns
    <2>4. /\ lr = EtaMin + ((InitialLR - EtaMin) * a) \div Cosine[0]
          /\ lr' = EtaMin + ((InitialLR - EtaMin) * b) \div Cosine[0]
      BY <1>3, <2>1, <2>2 DEF OnSchedule, CosineStep, Height
    <2>5. ASSUME NEW x \in Nat PROVE ((InitialLR - EtaMin) * x) \div Cosine[0] = u * x
      <3>1. PICK d \in Nat \ {0} : d = Cosine[0]
        BY HeightStart
      <3>2. u * x \in Nat /\ (u * d) * x = (u * x) * d
        OBVIOUS
      <3> QED BY <1>a, <3>1, <3>2, WholeQuotient
    <2>6. lr = EtaMin + u * a /\ lr' = EtaMin + u * b
      BY <2>3, <2>4, <2>5
    <2>7. (b < a => u * b < u * a) /\ (b > a => u * b > u * a)
      <3>1. \A x, y \in Nat : x < y => u * x < u * y
        OBVIOUS
      <3> QED BY <2>3, <3>1
    <2>8. u * a \in Nat /\ u * b \in Nat /\ (b = 0 => u * b = 0)
      BY <2>3
    <2> QED BY <1>a, <2>1, <2>3, <2>6, <2>7, <2>8
  <1> HIDE DEF Turns
  <1>4. Spec => [][Turns]_vars
    BY <1>1, <1>2, <1>3, PTL DEF Spec
  <1> QED BY <1>4 DEF CosineTurnsOnlyAtTheEnds, Turns
=============================================================================
