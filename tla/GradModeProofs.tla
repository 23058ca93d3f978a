--------------------------- MODULE GradModeProofs ---------------------------
(***************************************************************************)
(* Proofs about module GradMode, for every number of goroutines and OS      *)
(* threads and every depth of nesting: a goroutine locked to its OS thread  *)
(* gets what WithNoGrad promises.                                           *)
(***************************************************************************)
EXTENDS GradMode, SequenceTheorems, TLAPS

PCs == {"user", "enter", "body", "unwind"}

TypeOK ==
    /\ grad_mode \in [OSThreads -> BOOLEAN]
    /\ on \in [Goroutines -> OSThreads \cup {None}]
    /\ home \in [Goroutines -> OSThreads \cup {None}]
    /\ pc \in [Goroutines -> PCs]
    /\ was \in [Goroutines -> Seq(BOOLEAN)]
    /\ wanted \in [Goroutines -> BOOLEAN]
    /\ turnedOn \in [Goroutines -> Seq(BOOLEAN)]
    /\ \A g \in Goroutines :
          Len(turnedOn[g]) = Len(was[g]) + 1 /\ (pc[g] = "user" <=> was[g] = <<>>)

(* A locked goroutine runs at home, and nobody else runs or lives there *)
AtHome(g) ==
    /\ on[g] \in {None, home[g]}
    /\ home[g] # None =>
          \A h \in Goroutines \ {g} : on[h] # home[g] /\ home[h] # home[g]

(* A call saved the mode of the code that made it: what was chosen outside, *)
(* or, in a function, whether it was turned on there                        *)
ModeAt(g, i) == turnedOn[g][i] \/ (i = 1 /\ wanted[g])

Stack(g) == \A i \in 1..Len(was[g]) : was[g][i] = ModeAt(g, i)

Mode(g) ==
    /\ home[g] = None => pc[g] = "user" /\ ~turnedOn[g][1]
    /\ pc[g] = "enter" => ~Inside(g)
    /\ pc[g] # "enter" /\ home[g] # None => grad_mode[home[g]] = ModeAt(g, Len(turnedOn[g]))

IInv ==
    /\ TypeOK
    /\ \A g \in Goroutines \ Locked : home[g] = None
    /\ \A g \in Locked : AtHome(g) /\ Stack(g) /\ Mode(g)

-----------------------------------------------------------------------------
(* A running goroutine that is locked runs at home, and no goroutine runs   *)
(* where another one is locked.                                             *)
LEMMA Where ==
  ASSUME IInv, NEW g \in Goroutines, Running(g)
  PROVE  /\ on[g] \in OSThreads
         /\ g \in Locked => on[g] = home[g] /\ home[g] # None
         /\ \A h \in Locked \ {g} : home[h] # on[g]
  BY GradModeAssumption DEF IInv, TypeOK, Running, AtHome

(* A step of the scheduler or a call leaves the promises to the goroutines  *)
(* alone whose stack, home and thread it does not touch.                    *)
LEMMA Untouched ==
  ASSUME NEW h \in Goroutines, Stack(h), Mode(h),
         pc'[h] = pc[h], was'[h] = was[h], wanted'[h] = wanted[h], turnedOn'[h] = turnedOn[h],
         home'[h] = home[h],
         home[h] # None => grad_mode'[home[h]] = grad_mode[home[h]]
  PROVE  Stack(h)' /\ Mode(h)'
  BY DEF Stack, Mode, ModeAt, Inside

(* What a call of the C API by goroutine g has to show: it touches only     *)
(* the thread it runs on, and keeps its own promise.                        *)
LEMMA CallStep ==
  ASSUME IInv, TypeOK', NEW g \in Goroutines, Running(g), UNCHANGED <<on, home>>,
         \A h \in Goroutines \ {g} :
            /\ pc'[h] = pc[h] /\ was'[h] = was[h]
            /\ wanted'[h] = wanted[h] /\ turnedOn'[h] = turnedOn[h],
         \A t \in OSThreads \ {on[g]} : grad_mode'[t] = grad_mode[t],
         g \in Locked => Stack(g)' /\ Mode(g)'
  PROVE  IInv'
  <1>1. \A h \in Locked : AtHome(h)'
    BY DEF IInv, AtHome
  <1>2. ASSUME NEW h \in Locked, h # g PROVE Stack(h)' /\ Mode(h)'
    <2>1. h \in Goroutines /\ home[h] \in OSThreads \cup {None} /\ home[h] # on[g]
      BY <1>2, Where, GradModeAssumption DEF IInv, TypeOK
    <2>2. home[h] # None => grad_mode'[home[h]] = grad_mode[home[h]]
      BY <2>1
    <2> QED BY <1>2, <2>1, <2>2, Untouched DEF IInv
  <1>3. \A h \in Goroutines \ Locked : home'[h] = None
    BY DEF IInv
  <1> QED BY <1>1, <1>2, <1>3 DEF IInv

(* set_grad_enabled writes the thread the goroutine runs on. *)
LEMMA SetGradEnabled ==
  ASSUME IInv, NEW g \in Goroutines, Running(g), NEW b \in BOOLEAN, set_grad_enabled(g, b)
  PROVE  /\ grad_mode' \in [OSThreads -> BOOLEAN]
         /\ grad_mode'[on[g]] = b
         /\ \A t \in OSThreads \ {on[g]} : grad_mode'[t] = grad_mode[t]
  BY Where DEF IInv, TypeOK, set_grad_enabled

-----------------------------------------------------------------------------
(* The saved modes *)
LEMMA Pop ==
  ASSUME NEW S, NEW s \in Seq(S), s # <<>>
  PROVE  /\ Len(s) \in Nat /\ Len(s) >= 1
         /\ SubSeq(s, 1, Len(s) - 1) \in Seq(S)
         /\ Len(SubSeq(s, 1, Len(s) - 1)) = Len(s) - 1
         /\ \A i \in 1..(Len(s) - 1) : SubSeq(s, 1, Len(s) - 1)[i] = s[i]
         /\ SubSeq(s, 1, Len(s) - 1) = <<>> <=> Len(s) = 1
  <1> DEFINE q == SubSeq(s, 1, Len(s) - 1)
  <1>1. Len(s) \in Nat /\ Len(s) >= 1 /\ \A i \in 1..(Len(s) - 1) : s[i] \in S
    OBVIOUS
  <1>2. /\ q \in Seq(S) /\ Len(q) = Len(s) - 1
        /\ \A i \in 1..(Len(s) - 1) : q[i] = s[i]
    <2> DEFINE n == Len(s) - 1
    <2>1. n \in Nat /\ 1 \in Int /\ n \in Int
      BY <1>1
    <2> HIDE DEF n
    <2>2. \A i \in 1..n : s[i] \in S
      BY <1>1 DEF n
    <2>3. /\ SubSeq(s, 1, n) \in Seq(S)
          /\ Len(SubSeq(s, 1, n)) = IF 1 <= n THEN n - 1 + 1 ELSE 0
          /\ \A i \in 1..(n - 1 + 1) : SubSeq(s, 1, n)[i] = s[1 + i - 1]
      BY <2>1, <2>2, SubSeqProperties
    <2>4. Len(SubSeq(s, 1, n)) = n /\ \A i \in 1..n : SubSeq(s, 1, n)[i] = s[i]
      BY <2>1, <2>3
    <2> QED BY <2>3, <2>4 DEF n
  <1> HIDE DEF q
  <1>3. q = <<>> <=> Len(q) = 0
    BY <1>2, EmptySeq
  <1>4. q = <<>> <=> Len(s) = 1
    BY <1>1, <1>2, <1>3
  <1> QED BY <1>1, <1>2, <1>4 DEF q

-----------------------------------------------------------------------------
LEMMA InitIInv == Init => IInv
  <1> SUFFICES ASSUME Init PROVE IInv
    OBVIOUS
  <1>1. TypeOK
    BY DEF Init, TypeOK, PCs
  <1>2. ASSUME NEW g \in Locked PROVE AtHome(g) /\ Stack(g) /\ Mode(g)
    <2>1. g \in Goroutines
      BY GradModeAssumption
    <2> QED BY <2>1 DEF Init, AtHome, Stack, Mode
  <1> QED BY <1>1, <1>2 DEF Init, IInv

(* A locked goroutine gets a thread that nobody uses, and goes back to it. *)
LEMMA ScheduleIInv ==
  ASSUME IInv, NEW g \in Goroutines, NEW t \in OSThreads, Schedule(g, t)
  PROVE  IInv'
  <1>1. TypeOK'
    BY GradModeAssumption DEF IInv, TypeOK, Schedule
  <1>2. t # None /\ on'[g] = t /\ (home'[g] = IF g \in Locked THEN t ELSE None)
    BY GradModeAssumption DEF IInv, TypeOK, Schedule
  <1>3. \A h \in Goroutines \ {g} :
          /\ on'[h] = on[h] /\ home'[h] = home[h] /\ wanted'[h] = wanted[h]
          /\ on[h] # t /\ home[h] # t
    BY DEF IInv, TypeOK, Schedule
  <1>4. \A h \in Goroutines \ Locked : home'[h] = None
    BY <1>2, <1>3 DEF IInv
  <1>5. ASSUME NEW h \in Locked, h # g PROVE AtHome(h)' /\ Stack(h)' /\ Mode(h)'
    <2>1. h \in Goroutines
      BY GradModeAssumption
    <2>2. Stack(h)' /\ Mode(h)'
      BY <1>3, <1>5, <2>1, Untouched DEF IInv, Schedule
    <2>3. AtHome(h)'
      BY <1>2, <1>3, <1>5, <2>1 DEF IInv, AtHome
    <2> QED BY <2>2, <2>3
  <1>6. ASSUME g \in Locked PROVE AtHome(g)' /\ Stack(g)' /\ Mode(g)'
    <2>1. AtHome(g)'
      BY <1>2, <1>3, <1>6 DEF AtHome
    <2>2. CASE home[g] = t
      <3>1. wanted'[g] = wanted[g] /\ home'[g] = home[g]
        BY <1>2, <1>6, <2>2 DEF IInv, TypeOK, Schedule
      <3> QED BY <1>6, <2>1, <3>1, Untouched DEF IInv, Schedule
    <2>3. CASE home[g] = None
      <3>1. pc'[g] = "user" /\ was'[g] = <<>> /\ wanted'[g] = grad_mode[t]
        BY <1>6, <2>3 DEF IInv, Mode, Schedule, TypeOK
      <3>2. Len(turnedOn'[g]) = 1 /\ ~turnedOn'[g][1]
        <4>1. turnedOn'[g] = turnedOn[g] /\ was'[g] = was[g] /\ ~turnedOn[g][1]
          BY <1>6, <2>3 DEF IInv, Mode, Schedule
        <4>2. Len(turnedOn[g]) = Len(was[g]) + 1 /\ Len(was[g]) = 0
          BY <3>1, <4>1 DEF IInv, TypeOK
        <4> QED BY <4>1, <4>2
      <3>3. ModeAt(g, 1)' = grad_mode[t]
        BY <3>1, <3>2, <1>1 DEF ModeAt, IInv, TypeOK
      <3> QED BY <1>2, <1>6, <2>1, <3>1, <3>2, <3>3 DEF Stack, Mode, Schedule
    <2> QED BY <2>2, <2>3 DEF Schedule
  <1> QED BY <1>1, <1>4, <1>5, <1>6 DEF IInv

LEMMA PreemptIInv ==
  ASSUME IInv, NEW g \in Goroutines, Preempt(g)
  PROVE  IInv'
  <1>1. TypeOK'
    BY DEF IInv, TypeOK, Preempt
  <1>2. \A h \in Goroutines : on'[h] \in {on[h], None}
    BY DEF IInv, TypeOK, Preempt
  <1>3. ASSUME NEW h \in Locked PROVE AtHome(h)' /\ Stack(h)' /\ Mode(h)'
    <2>1. h \in Goroutines
      BY GradModeAssumption
    <2>2. Stack(h)' /\ Mode(h)'
      BY <2>1, Untouched DEF IInv, Preempt
    <2>3. AtHome(h)'
      BY <1>2, <2>1 DEF IInv, AtHome, Preempt
    <2> QED BY <2>2, <2>3
  <1> QED BY <1>1, <1>3 DEF IInv, Preempt

(* NoGrad and EnableGrad choose a mode, outside WithNoGrad or inside. *)
LEMMA ChooseIInv ==
  ASSUME IInv, NEW g \in Goroutines, NEW b \in BOOLEAN, Choose(g, b)
  PROVE  IInv'
  <1> DEFINE n == Len(turnedOn[g])
             top == b /\ pc[g] # "user"
  <1>1. Running(g) /\ set_grad_enabled(g, b) /\ pc[g] # "enter" /\ UNCHANGED <<on, home, pc, was>>
    BY DEF Choose
  <1>2. /\ n \in Nat /\ n = Len(was[g]) + 1 /\ turnedOn[g] \in Seq(BOOLEAN)
        /\ was[g] \in Seq(BOOLEAN) /\ Len(was[g]) \in Nat
    BY DEF IInv, TypeOK
  <1>3. /\ turnedOn' = [turnedOn EXCEPT ![g][n] = top]
        /\ wanted' = [wanted EXCEPT ![g] = IF pc[g] = "user" THEN b ELSE @]
    BY DEF Choose
  <1> HIDE DEF n
  <1>4. /\ turnedOn'[g] \in Seq(BOOLEAN) /\ Len(turnedOn'[g]) = n
        /\ turnedOn'[g][n] = top
        /\ \A i \in 1 .. n - 1 : turnedOn'[g][i] = turnedOn[g][i]
    <2>1. turnedOn'[g] = [turnedOn[g] EXCEPT ![n] = top]
      BY <1>3 DEF IInv, TypeOK
    <2>2. n \in 1 .. Len(turnedOn[g])
      BY <1>2 DEF n
    <2>3. top \in BOOLEAN
      OBVIOUS
    <2> HIDE DEF top
    <2>4. /\ turnedOn'[g] \in Seq(BOOLEAN) /\ Len(turnedOn'[g]) = Len(turnedOn[g])
          /\ \A i \in 1 .. Len(turnedOn[g]) : turnedOn'[g][i] = IF i = n THEN top ELSE turnedOn[g][i]
      BY <2>1, <2>2, <2>3, <1>2, ExceptSeq
    <2>5. \A i \in 1 .. n - 1 : i \in 1 .. Len(turnedOn[g]) /\ i # n
      BY <1>2, <2>2
    <2>6. Len(turnedOn[g]) = n
      BY DEF n
    <2> QED BY <2>2, <2>4, <2>5, <2>6
  <1>5. \A h \in Goroutines \ {g} : wanted'[h] = wanted[h] /\ turnedOn'[h] = turnedOn[h]
    BY <1>3 DEF IInv, TypeOK
  <1>6. wanted'[g] = IF pc[g] = "user" THEN b ELSE wanted[g]
    BY <1>3 DEF IInv, TypeOK
  <1>7. TypeOK'
    <2>1. turnedOn' \in [Goroutines -> Seq(BOOLEAN)]
      <3>1. turnedOn' = [turnedOn EXCEPT ![g] = turnedOn'[g]]
        BY <1>3 DEF IInv, TypeOK
      <3> QED BY <1>4, <3>1 DEF IInv, TypeOK
    <2>2. \A h \in Goroutines :
            Len(turnedOn'[h]) = Len(was'[h]) + 1 /\ (pc'[h] = "user" <=> was'[h] = <<>>)
      BY <1>1, <1>2, <1>4, <1>5 DEF IInv, TypeOK
    <2>3. wanted' \in [Goroutines -> BOOLEAN]
      BY <1>3 DEF IInv, TypeOK
    <2> QED BY <1>1, <2>1, <2>2, <2>3, SetGradEnabled DEF IInv, TypeOK
  <1>8. ASSUME g \in Locked PROVE Stack(g)' /\ Mode(g)'
    <2>1. grad_mode'[home'[g]] = b /\ home'[g] # None
      BY <1>1, <1>8, Where, SetGradEnabled
    <2>2. Stack(g) /\ was'[g] = was[g] /\ pc'[g] = pc[g]
      BY <1>1, <1>8 DEF IInv
    <2>3. pc[g] = "user" <=> n = 1
      BY <1>2, EmptySeq DEF IInv, TypeOK
    <2>4. (turnedOn'[g][n] \/ (n = 1 /\ wanted'[g])) = b
      BY <1>4, <1>6, <2>3
    <2>5. Stack(g)'
      <3>1. ASSUME NEW i \in 1 .. Len(was[g]) PROVE was'[g][i] = ModeAt(g, i)'
        <4>1. turnedOn'[g][i] = turnedOn[g][i] /\ pc[g] # "user"
          BY <1>2, <1>4, <2>3
        <4>2. wanted'[g] = wanted[g]
          BY <1>6, <4>1
        <4> QED BY <2>2, <4>1, <4>2 DEF Stack, ModeAt
      <3> QED BY <2>2, <3>1 DEF Stack
    <2>6. ModeAt(g, Len(turnedOn[g]))' = b
      BY <1>4, <2>4 DEF ModeAt
    <2> QED BY <1>1, <2>1, <2>2, <2>5, <2>6 DEF Mode
  <1> QED BY <1>1, <1>5, <1>7, <1>8, CallStep, SetGradEnabled

(* The mode that WithNoGrad saves is the one of the code that calls it. *)
LEMMA WithNoGradIInv ==
  ASSUME IInv, NEW g \in Goroutines, WithNoGrad(g)
  PROVE  IInv'
  <1> DEFINE b == IsGradEnabled(g)
             n == Len(was[g])
  <1>1. Running(g) /\ on[g] \in OSThreads
    BY Where DEF WithNoGrad
  <1>2. /\ b \in BOOLEAN /\ was[g] \in Seq(BOOLEAN) /\ was'[g] = Append(was[g], b)
        /\ turnedOn[g] \in Seq(BOOLEAN) /\ turnedOn'[g] = Append(turnedOn[g], FALSE)
        /\ n \in Nat /\ Len(turnedOn[g]) = n + 1
    <2>1. /\ was[g] \in Seq(BOOLEAN) /\ turnedOn[g] \in Seq(BOOLEAN)
          /\ Len(turnedOn[g]) = Len(was[g]) + 1 /\ Len(was[g]) \in Nat
      BY DEF IInv, TypeOK
    <2>2. b \in BOOLEAN
      BY <1>1 DEF IInv, TypeOK, IsGradEnabled
    <2>3. was'[g] = Append(was[g], b) /\ turnedOn'[g] = Append(turnedOn[g], FALSE)
      BY DEF IInv, TypeOK, WithNoGrad
    <2> QED BY <2>1, <2>2, <2>3
  <1> HIDE DEF b
  <1>3. /\ was'[g] \in Seq(BOOLEAN) /\ Len(was'[g]) = n + 1
        /\ turnedOn'[g] \in Seq(BOOLEAN) /\ Len(turnedOn'[g]) = n + 2
        /\ \A i \in 1 .. n : was'[g][i] = was[g][i]
        /\ was'[g][n + 1] = b
        /\ \A i \in 1 .. n + 1 : turnedOn'[g][i] = turnedOn[g][i]
        /\ turnedOn'[g][n + 2] = FALSE
        /\ was'[g] # <<>>
    <2>1. FALSE \in BOOLEAN
      OBVIOUS
    <2>2. /\ was'[g] \in Seq(BOOLEAN) /\ Len(was'[g]) = n + 1
          /\ \A i \in 1 .. n : was'[g][i] = was[g][i]
          /\ was'[g][n + 1] = b
      BY <1>2, AppendProperties
    <2>3. /\ turnedOn'[g] \in Seq(BOOLEAN) /\ Len(turnedOn'[g]) = (n + 1) + 1
          /\ \A i \in 1 .. n + 1 : turnedOn'[g][i] = turnedOn[g][i]
          /\ turnedOn'[g][(n + 1) + 1] = FALSE
      <3> DEFINE m == n + 1
      <3>1. m \in Nat /\ m = Len(turnedOn[g])
        BY <1>2
      <3> HIDE DEF m
      <3>2. /\ turnedOn'[g] \in Seq(BOOLEAN) /\ Len(turnedOn'[g]) = m + 1
            /\ \A i \in 1 .. m : turnedOn'[g][i] = turnedOn[g][i]
            /\ turnedOn'[g][m + 1] = FALSE
        <4> DEFINE off == FALSE
                   old == turnedOn[g]
                   new == Append(old, off)
        <4>1. off \in BOOLEAN /\ old \in Seq(BOOLEAN) /\ turnedOn'[g] = new /\ Len(old) = m
          BY <1>2, <2>1, <3>1
        <4> HIDE DEF off, old
        <4>2. /\ new \in Seq(BOOLEAN) /\ Len(new) = Len(old) + 1
              /\ \A i \in 1 .. Len(old) : new[i] = old[i]
              /\ new[Len(old) + 1] = off
          BY <4>1, AppendProperties
        <4> HIDE DEF new
        <4> QED BY <4>1, <4>2 DEF off, old
      <3> QED BY <3>2 DEF m
    <2>4. was'[g] # <<>>
      BY <1>2, <2>2, EmptySeq
    <2>5. (n + 1) + 1 = n + 2
      BY <1>2
    <2> QED BY <2>2, <2>3, <2>4, <2>5
  <1>4. \A h \in Goroutines \ {g} :
          pc'[h] = pc[h] /\ was'[h] = was[h] /\ turnedOn'[h] = turnedOn[h]
    BY DEF IInv, TypeOK, WithNoGrad
  <1>5. TypeOK'
    <2>1. was' \in [Goroutines -> Seq(BOOLEAN)] /\ turnedOn' \in [Goroutines -> Seq(BOOLEAN)]
      BY <1>2, <1>3 DEF IInv, TypeOK, WithNoGrad, b
    <2>2. Len(turnedOn'[g]) = Len(was'[g]) + 1 /\ pc'[g] = "enter"
      BY <1>2, <1>3 DEF IInv, TypeOK, WithNoGrad
    <2>3. \A h \in Goroutines :
            Len(turnedOn'[h]) = Len(was'[h]) + 1 /\ (pc'[h] = "user" <=> was'[h] = <<>>)
      BY <1>3, <1>4, <2>2 DEF IInv, TypeOK
    <2> QED BY <2>1, <2>3 DEF IInv, TypeOK, WithNoGrad, PCs
  <1>6. ASSUME g \in Locked PROVE Stack(g)' /\ Mode(g)'
    <2>1. on[g] = home[g] /\ home[g] # None
      BY <1>1, <1>6, Where
    <2>2. pc'[g] = "enter" /\ home'[g] = home[g] /\ wanted'[g] = wanted[g]
      BY DEF IInv, TypeOK, WithNoGrad
    <2>3. b = ModeAt(g, n + 1)
      BY <1>2, <1>6, <2>1 DEF IInv, Mode, IsGradEnabled, WithNoGrad, b
    <2> HIDE DEF n
    <2>4. ASSUME NEW i \in 1 .. n + 1 PROVE was'[g][i] = ModeAt(g, i)'
      <3>1. ModeAt(g, i)' = ModeAt(g, i)
        BY <1>3, <2>2 DEF ModeAt
      <3>2. CASE i \in 1 .. n
        BY <1>3, <1>6, <3>1, <3>2 DEF IInv, Stack, n
      <3>3. CASE i = n + 1
        BY <1>3, <2>3, <3>1, <3>3
      <3> QED BY <1>2, <3>2, <3>3 DEF n
    <2> QED BY <1>3, <2>1, <2>2, <2>4 DEF Stack, Mode, Inside
  <1> QED BY <1>1, <1>4, <1>5, <1>6, CallStep DEF WithNoGrad

LEMMA DisableIInv ==
  ASSUME IInv, NEW g \in Goroutines, Disable(g)
  PROVE  IInv'
  <1>1. Running(g) /\ set_grad_enabled(g, FALSE)
    BY DEF Disable
  <1>2. TypeOK'
    BY <1>1, SetGradEnabled DEF IInv, TypeOK, Disable, PCs
  <1>3. pc'[g] = "body" /\ \A h \in Goroutines \ {g} : pc'[h] = pc[h]
    BY DEF IInv, TypeOK, Disable
  <1>4. ASSUME g \in Locked PROVE Stack(g)' /\ Mode(g)'
    <2>1. grad_mode'[home'[g]] = FALSE /\ home'[g] # None
      BY <1>1, <1>4, Where, SetGradEnabled DEF Disable
    <2>2. pc[g] = "enter" /\ Stack(g) /\ Mode(g) /\ UNCHANGED <<home, was, wanted, turnedOn>>
      BY <1>4 DEF Disable, IInv
    <2>3. Stack(g)'
      BY <1>3, <2>2 DEF Stack, ModeAt
    <2>4. Len(turnedOn[g]) # 1
      <3>1. was[g] # <<>> /\ was[g] \in Seq(BOOLEAN)
        BY <2>2 DEF IInv, TypeOK
      <3> QED BY <3>1, EmptySeq DEF IInv, TypeOK
    <2>5. ModeAt(g, Len(turnedOn[g]))' = FALSE
      BY <2>2, <2>4 DEF Mode, ModeAt, Inside
    <2> QED BY <1>3, <2>1, <2>3, <2>5 DEF Mode
  <1> QED BY <1>1, <1>2, <1>3, <1>4, CallStep, SetGradEnabled DEF Disable

LEMMA PanicIInv ==
  ASSUME IInv, NEW g \in Goroutines, Panic(g)
  PROVE  IInv'
  <1>1. TypeOK'
    BY DEF IInv, TypeOK, Panic, PCs
  <1>2. pc'[g] = "unwind" /\ \A h \in Goroutines \ {g} : pc'[h] = pc[h]
    BY DEF IInv, TypeOK, Panic
  <1>3. ASSUME g \in Locked PROVE Stack(g)' /\ Mode(g)'
    BY <1>2, <1>3 DEF IInv, Stack, Mode, ModeAt, Panic
  <1> QED BY <1>1, <1>2, <1>3, CallStep DEF Panic

LEMMA RecoverIInv ==
  ASSUME IInv, NEW g \in Goroutines, Recover(g)
  PROVE  IInv'
  <1>1. TypeOK'
    BY DEF IInv, TypeOK, Recover, PCs
  <1>2. pc'[g] = "body" /\ \A h \in Goroutines \ {g} : pc'[h] = pc[h]
    BY DEF IInv, TypeOK, Recover
  <1>3. ASSUME g \in Locked PROVE Stack(g)' /\ Mode(g)'
    BY <1>2, <1>3 DEF IInv, Stack, Mode, ModeAt, Recover
  <1> QED BY <1>1, <1>2, <1>3, CallStep DEF Recover

(* After the deferred function the mode is on if it was on before the call, *)
(* or if the function given to WithNoGrad left it on.                       *)
LEMMA RestoreIInv ==
  ASSUME IInv, NEW g \in Goroutines, Restore(g)
  PROVE  IInv'
  <1> DEFINE s == was[g]
             n == Len(s)
             saved == s[n]
             outer == SubSeq(s, 1, n - 1)
             t == turnedOn[g]
             top == [i \in 1 .. n |-> t[i] \/ (i = n /\ t[n + 1])]
  <1>1. Running(g) /\ pc[g] \in {"body", "unwind"} /\ s \in Seq(BOOLEAN) /\ t \in Seq(BOOLEAN)
    BY DEF Restore, IInv, TypeOK
  <1>2. /\ was' = [was EXCEPT ![g] = outer]
        /\ turnedOn' = [turnedOn EXCEPT ![g] = top]
        /\ pc' = [pc EXCEPT ![g] = IF outer = <<>> THEN "user" ELSE @]
        /\ UNCHANGED <<on, home, wanted>>
    BY DEF Restore, IInv, TypeOK
  <1>3. IF saved THEN set_grad_enabled(g, TRUE) ELSE UNCHANGED grad_mode
    BY <1>1 DEF Restore, Deferred, Restores
  <1>4. /\ grad_mode' \in [OSThreads -> BOOLEAN]
        /\ \A u \in OSThreads \ {on[g]} : grad_mode'[u] = grad_mode[u]
    BY <1>1, <1>3, SetGradEnabled DEF IInv, TypeOK
  <1>5. /\ was'[g] = outer /\ turnedOn'[g] = top
        /\ pc'[g] = IF outer = <<>> THEN "user" ELSE pc[g]
        /\ \A h \in Goroutines \ {g} :
             pc'[h] = pc[h] /\ was'[h] = was[h] /\ turnedOn'[h] = turnedOn[h]
    BY <1>2 DEF IInv, TypeOK
  <1>6. s # <<>>
    BY <1>1 DEF IInv, TypeOK
  <1>7. /\ n \in Nat /\ n >= 1 /\ Len(t) = n + 1
        /\ outer \in Seq(BOOLEAN) /\ Len(outer) = n - 1
        /\ outer = <<>> <=> n = 1
        /\ \A i \in 1 .. n - 1 : outer[i] = s[i]
    BY <1>1, <1>6, Pop DEF IInv, TypeOK
  <1>8. top \in Seq(BOOLEAN) /\ Len(top) = n
    BY <1>1, <1>7
  <1> HIDE DEF n, outer, top
  <1>9. TypeOK'
    <2>1. was' \in [Goroutines -> Seq(BOOLEAN)] /\ turnedOn' \in [Goroutines -> Seq(BOOLEAN)]
      BY <1>2, <1>7, <1>8 DEF IInv, TypeOK
    <2>2. pc' \in [Goroutines -> PCs]
      BY <1>2 DEF IInv, TypeOK, PCs
    <2>3. Len(turnedOn'[g]) = Len(was'[g]) + 1 /\ (pc'[g] = "user" <=> was'[g] = <<>>)
      BY <1>1, <1>5, <1>7, <1>8
    <2>4. \A h \in Goroutines :
            Len(turnedOn'[h]) = Len(was'[h]) + 1 /\ (pc'[h] = "user" <=> was'[h] = <<>>)
      BY <1>5, <2>3 DEF IInv, TypeOK
    <2> QED BY <1>2, <1>4, <2>1, <2>2, <2>4 DEF IInv, TypeOK
  <1>10. ASSUME g \in Locked PROVE Stack(g)' /\ Mode(g)'
    <2>1. on[g] = home[g] /\ home[g] # None /\ home[g] \in OSThreads
      BY <1>1, <1>10, Where
    <2>2. saved = ModeAt(g, n)
      BY <1>7, <1>10 DEF IInv, Stack, n
    <2>3. grad_mode[home[g]] = t[n + 1]
      <3>1. grad_mode[home[g]] = ModeAt(g, n + 1)
        BY <1>1, <1>7, <1>10, <2>1 DEF IInv, Mode
      <3>2. n + 1 # 1 /\ t[n + 1] \in BOOLEAN
        BY <1>1, <1>7
      <3> QED BY <3>1, <3>2 DEF ModeAt
    <2>4. grad_mode'[home[g]] = (saved \/ t[n + 1])
      <3>1. CASE saved
        BY <1>1, <1>3, <2>1, <3>1, SetGradEnabled
      <3>2. CASE ~saved
        <4>1. t[n + 1] \in BOOLEAN
          BY <1>1, <1>7
        <4> QED BY <1>3, <2>3, <3>2, <4>1
      <3> QED BY <3>1, <3>2
    <2>5. top[n] = (t[n] \/ t[n + 1]) /\ \A i \in 1 .. n - 1 : top[i] = t[i]
      BY <1>1, <1>7 DEF top
    <2>6. (turnedOn'[g][n] \/ (n = 1 /\ wanted'[g])) = (saved \/ t[n + 1])
      <3>1. t[n] \in BOOLEAN /\ t[n + 1] \in BOOLEAN
        BY <1>1, <1>7
      <3>2. turnedOn'[g][n] = (t[n] \/ t[n + 1]) /\ wanted'[g] = wanted[g]
        BY <1>2, <1>5, <2>5
      <3>3. saved = (t[n] \/ (n = 1 /\ wanted[g]))
        BY <2>2 DEF ModeAt
      <3> QED BY <3>1, <3>2, <3>3
    <2>7. Stack(g)'
      <3>2. ASSUME NEW i \in 1 .. n - 1 PROVE was'[g][i] = ModeAt(g, i)'
        <4>1. was'[g][i] = s[i] /\ turnedOn'[g][i] = t[i] /\ wanted'[g] = wanted[g]
          BY <1>2, <1>5, <1>7, <2>5
        <4>2. s[i] = ModeAt(g, i)
          BY <1>7, <1>10 DEF IInv, Stack, n
        <4> QED BY <4>1, <4>2 DEF ModeAt
      <3> QED BY <1>5, <1>7, <3>2 DEF Stack
    <2>8. Mode(g)'
      <3>1. pc'[g] # "enter" /\ home'[g] = home[g] /\ Len(turnedOn'[g]) = n
        BY <1>1, <1>2, <1>5, <1>8
      <3>2. ModeAt(g, Len(turnedOn[g]))' = grad_mode'[home'[g]]
        BY <2>4, <2>6, <3>1 DEF ModeAt
      <3> QED BY <2>1, <3>1, <3>2 DEF Mode
    <2> QED BY <2>7, <2>8
  <1> QED BY <1>1, <1>2, <1>4, <1>5, <1>9, <1>10, CallStep

-----------------------------------------------------------------------------
LEMMA NextIInv == IInv /\ [Next]_vars => IInv'
  <1> SUFFICES ASSUME IInv, [Next]_vars PROVE IInv'
    OBVIOUS
  <1>1. CASE UNCHANGED vars
    BY <1>1 DEF vars, IInv, TypeOK, AtHome, Stack, Mode, ModeAt, Inside
  <1>2. ASSUME NEW g \in Goroutines, NoGrad(g) \/ EnableGrad(g) PROVE IInv'
    BY <1>2, ChooseIInv DEF NoGrad, EnableGrad
  <1> QED BY <1>1, <1>2, ScheduleIInv, PreemptIInv, WithNoGradIInv, DisableIInv, PanicIInv,
             RecoverIInv, RestoreIInv DEF Next

LEMMA Invariance == Spec => []IInv
  BY InitIInv, NextIInv, PTL DEF Spec

(* What a running goroutine that is locked finds. *)
LEMMA ModeFound ==
  ASSUME IInv, NEW g \in Locked, Running(g), pc[g] # "enter"
  PROVE  /\ IsGradEnabled(g) = ModeAt(g, Len(turnedOn[g]))
         /\ pc[g] = "user" <=> Len(turnedOn[g]) = 1
  <1>1. g \in Goroutines /\ on[g] = home[g] /\ home[g] # None
    BY Where, GradModeAssumption
  <1>2. was[g] \in Seq(BOOLEAN) /\ Len(turnedOn[g]) = Len(was[g]) + 1
    BY <1>1 DEF IInv, TypeOK
  <1>3. pc[g] = "user" <=> Len(turnedOn[g]) = 1
    BY <1>1, <1>2, EmptySeq DEF IInv, TypeOK
  <1> QED BY <1>1, <1>3 DEF IInv, Mode, IsGradEnabled

(* At every operation the function given to WithNoGrad calls, the grad mode *)
(* is off if the goroutine is locked to its OS thread, whatever other       *)
(* goroutines do and however the scheduler interrupts it, unless the        *)
(* function itself switched it on or a function it ran left it on.          *)
THEOREM AlwaysOffForLocked == Spec => []LockedIsOffInside
  <1>1. IInv => LockedIsOffInside
    <2> SUFFICES ASSUME IInv, NEW g \in Locked, Running(g), pc[g] = "body", IsGradEnabled(g)
                 PROVE  Inside(g)
      BY DEF LockedIsOffInside, OffInside
    <2> QED BY ModeFound DEF ModeAt, Inside
  <1> QED BY <1>1, Invariance, PTL

(* After WithNoGrad, returned from or unwound by a panic, and nested to any *)
(* depth, a locked goroutine has the mode it chose before, or gradients are *)
(* on because the function left them on where they had been off.            *)
THEOREM AlwaysRestoredForLocked == Spec => []LockedIsRestored
  <1>1. IInv => LockedIsRestored
    <2> SUFFICES ASSUME IInv, NEW g \in Locked, Running(g) PROVE Restored(g)
      BY DEF LockedIsRestored, Restored
    <2>1. CASE pc[g] = "user"
      <3>1. IsGradEnabled(g) = ModeAt(g, 1)
        BY <2>1, ModeFound
      <3> QED BY <2>1, <3>1 DEF Restored, ModeAt
    <2>2. CASE pc[g] = "body"
      BY <2>2, ModeFound DEF Restored, ModeAt, Inside
    <2> QED BY <2>1, <2>2 DEF Restored
  <1> QED BY <1>1, Invariance, PTL
=============================================================================
