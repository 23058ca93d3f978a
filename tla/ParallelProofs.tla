--------------------------- MODULE ParallelProofs ----------------------------
(***************************************************************************)
(* Proofs about module Parallel, for every program, every pool and every    *)
(* size of the loops.                                                       *)
(***************************************************************************)
EXTENDS Parallel, FiniteSetTheorems, SequenceTheorems, WellFoundedInduction, TLAPS

-----------------------------------------------------------------------------
(* The steps a thread may have to do *)
Finish == <<"finish">>
Index == Nat
Outcome == {"value", "error"}
Callbacks ==
    {c \in Futures \X Nat : Kind[c[1]] \in {"then", "all"} /\ c[2] \in 1 .. Len(Sources[c[1]])}
Working ==
    CallSteps
        \cup ({"inline", "join", "joined", "return"} \X Jobs)
        \cup ({"enqueue", "chunk", "sub"} \X Jobs \X Index)
        \cup ({"func"} \X Launched)
        \cup ({"notify", "error_if_needed", "check"} \X Futures)
        \cup ({"mark"} \X Futures \X Outcome)
        \cup ({"add", "call"} \X Callbacks)
        \cup {<<"join_workers">>}
Steps == Working \cup {Finish}

Typed ==
    /\ todo \in [Threads -> Seq(Steps)]
    /\ tasks \in Seq(Seq(Working))
    /\ callbacks \in [Futures -> Seq(Callbacks)]

(* A worker's task ends with its return to main_loop, and only there does a *)
(* thread return to main_loop                                               *)
Ends(line, t) == \A n \in DOMAIN line : line[n] = Finish <=> t \in Workers /\ n = Len(line)

Busy == {w \in Workers : todo[w] # <<>>}

Shape == Typed /\ \A t \in Threads : Ends(todo[t], t)

-----------------------------------------------------------------------------
(* What the kind of a step says about its arguments. *)
LEMMA StepArgs ==
  ASSUME NEW s \in Steps
  PROVE  /\ s[1] = "finish" <=> s = Finish
         /\ s[1] \in {"for", "inline", "join", "joined", "return"}
                => s[2] \in Jobs /\ s = <<s[1], s[2]>>
         /\ s[1] \in {"enqueue", "chunk", "sub"}
                => s[2] \in Jobs /\ s[3] \in Index /\ s = <<s[1], s[2], s[3]>>
         /\ s[1] \in {"launch", "func"} => s[2] \in Launched /\ s = <<s[1], s[2]>>
         /\ s[1] \in {"wait", "make", "fulfil", "notify", "error_if_needed", "check"}
                => s[2] \in Futures /\ s = <<s[1], s[2]>>
         /\ s[1] = "mark" => s[2] \in Futures /\ s[3] \in Outcome /\ s = <<s[1], s[2], s[3]>>
         /\ s[1] \in {"add", "call"} => s[2] \in Callbacks /\ s = <<s[1], s[2]>>
  <1> USE DEF Steps, Working, CallSteps, Finish
  <1>1. s[1] = "finish" <=> s = Finish
    OBVIOUS
  <1>2. s[1] \in {"for", "inline", "join", "joined", "return"} => s[2] \in Jobs /\ s = <<s[1], s[2]>>
    OBVIOUS
  <1>3. s[1] \in {"enqueue", "chunk", "sub"} => s[2] \in Jobs /\ s[3] \in Index /\ s = <<s[1], s[2], s[3]>>
    OBVIOUS
  <1>4. s[1] \in {"launch", "func"} => s[2] \in Launched /\ s = <<s[1], s[2]>>
    OBVIOUS
  <1>5. s[1] \in {"wait", "make", "fulfil", "notify", "error_if_needed", "check"}
            => s[2] \in Futures /\ s = <<s[1], s[2]>>
    OBVIOUS
  <1>6. s[1] = "mark" => s[2] \in Futures /\ s[3] \in Outcome /\ s = <<s[1], s[2], s[3]>>
    OBVIOUS
  <1>7. s[1] \in {"add", "call"} => s[2] \in Callbacks /\ s = <<s[1], s[2]>>
    OBVIOUS
  <1> QED BY <1>1, <1>2, <1>3, <1>4, <1>5, <1>6, <1>7, Zenon

LEMMA MakeSteps ==
  /\ \A j \in Jobs : \A k \in {"for", "inline", "join", "joined", "return"} : <<k, j>> \in Working
  /\ \A j \in Jobs, i \in Index : \A k \in {"enqueue", "chunk", "sub"} : <<k, j, i>> \in Working
  /\ \A f \in Launched : <<"func", f>> \in Working
  /\ \A f \in Futures : \A k \in {"notify", "error_if_needed", "check"} : <<k, f>> \in Working
  /\ \A f \in Futures : \A k \in Outcome : <<"mark", f, k>> \in Working
  /\ \A c \in Callbacks : \A k \in {"add", "call"} : <<k, c>> \in Working
  /\ <<"join_workers">> \in Working
  /\ Finish \in Steps /\ Finish \notin Working /\ Working \subseteq Steps
  /\ CallSteps \subseteq Working
  BY DEF Steps, Working, CallSteps, Finish

LEMMA StepKinds ==
  ASSUME NEW s \in Steps
  PROVE  /\ s[1] = "make" => Kind[s[2]] \in {"then", "all"}
         /\ s[1] = "fulfil" => Kind[s[2]] = "promise"
         /\ s[1] \in {"launch", "func"} => Kind[s[2]] = "launch"
  BY DEF Steps, Working, CallSteps, Finish, Launched

LEMMA CallbackArgs ==
  ASSUME NEW c \in Callbacks
  PROVE  /\ c[1] \in Futures /\ c[2] \in 1 .. Len(Sources[c[1]]) /\ c = <<c[1], c[2]>>
         /\ Kind[c[1]] \in {"then", "all"} /\ Source(c) \in Futures
  <1>1. /\ c[1] \in Futures /\ c[2] \in 1 .. Len(Sources[c[1]]) /\ c = <<c[1], c[2]>>
        /\ Kind[c[1]] \in {"then", "all"}
    BY DEF Callbacks
  <1>2. Sources[c[1]] \in Seq(Futures)
    BY <1>1, FutureAssumption
  <1>3. Source(c) \in Futures
    BY <1>1, <1>2, ElementOfSeq DEF Source
  <1> QED BY <1>1, <1>3

-----------------------------------------------------------------------------
(* Every set of numbers has a least one. *)
LEMMA LeastNumber ==
  ASSUME NEW T \in SUBSET Nat, T # {}
  PROVE  \E x \in T : \A y \in T : x <= y
  <1>1. PICK x \in T : \A y \in T : ~(<<y, x>> \in OpToRel(<, Nat))
    BY NatLessThanWellFounded, WFMin
  <1>2. ASSUME NEW y \in T PROVE x <= y
    <2>1. <<y, x>> \in Nat \X Nat
      OBVIOUS
    <2>2. ~(y < x)
      BY <1>1, <2>1 DEF OpToRel
    <2> QED BY <2>2
  <1> QED BY <1>2

(* The step at the head of a thread, and what comes after it. *)
LEMMA HeadStep ==
  ASSUME Shape, NEW t \in Threads, todo[t] # <<>>
  PROVE  /\ todo[t] \in Seq(Steps) /\ Len(todo[t]) \in Nat \ {0} /\ DOMAIN todo[t] = 1 .. Len(todo[t])
         /\ Head(todo[t]) = todo[t][1] /\ Head(todo[t]) \in Steps
         /\ Tail(todo[t]) \in Seq(Steps) /\ Len(Tail(todo[t])) = Len(todo[t]) - 1
         /\ \A n \in 1 .. Len(todo[t]) - 1 : Tail(todo[t])[n] = todo[t][n + 1]
  <1>1. todo[t] \in Seq(Steps)
    BY DEF Shape, Typed
  <1>2. Len(todo[t]) \in Nat \ {0} /\ DOMAIN todo[t] = 1 .. Len(todo[t])
    BY <1>1, EmptySeq, LenProperties
  <1>3. /\ Head(todo[t]) \in Steps /\ Tail(todo[t]) \in Seq(Steps) /\ Len(Tail(todo[t])) = Len(todo[t]) - 1
        /\ \A n \in 1 .. Len(Tail(todo[t])) : Tail(todo[t])[n] = todo[t][n + 1]
    BY <1>1, HeadTailProperties
  <1>4. Head(todo[t]) = todo[t][1]
    BY <1>1, <1>2
  <1> QED BY <1>1, <1>2, <1>3, <1>4

(* A line of steps in which the head was replaced. *)
LEMMA Replaced ==
  ASSUME Shape, NEW t \in Threads, todo[t] # <<>>, NEW steps \in Seq(Working)
  PROVE  LET line == steps \o Tail(todo[t])
         IN  /\ line \in Seq(Steps) /\ Len(line) = Len(steps) + Len(todo[t]) - 1
             /\ Len(line) \in Nat /\ Len(steps) \in Nat /\ DOMAIN line = 1 .. Len(line)
             /\ \A n \in 1 .. Len(steps) : line[n] = steps[n] /\ steps[n] \in Working
             /\ \A n \in Len(steps) + 1 .. Len(line) :
                    /\ line[n] = todo[t][n - Len(steps) + 1]
                    /\ n - Len(steps) + 1 \in 2 .. Len(todo[t])
  <1> DEFINE rest == Tail(todo[t])
             line == steps \o rest
  <1>1. /\ rest \in Seq(Steps) /\ Len(rest) = Len(todo[t]) - 1 /\ Len(todo[t]) \in Nat \ {0}
        /\ \A n \in 1 .. Len(todo[t]) - 1 : rest[n] = todo[t][n + 1]
    BY HeadStep
  <1>2. steps \in Seq(Steps) /\ Len(steps) \in Nat
    BY MakeSteps, SeqMonotonic, LenProperties
  <1>3. /\ line \in Seq(Steps) /\ Len(line) = Len(steps) + Len(rest)
        /\ \A n \in 1 .. Len(steps) + Len(rest) :
              line[n] = IF n <= Len(steps) THEN steps[n] ELSE rest[n - Len(steps)]
    BY <1>1, <1>2, ConcatProperties
  <1>4. DOMAIN line = 1 .. Len(line)
    BY <1>3, LenProperties
  <1>5. ASSUME NEW n \in 1 .. Len(steps) PROVE line[n] = steps[n] /\ steps[n] \in Working
    <2>1. n \in 1 .. Len(steps) + Len(rest) /\ n <= Len(steps)
      BY <1>1, <1>2
    <2> QED BY <1>3, <2>1, ElementOfSeq
  <1>6. ASSUME NEW n \in Len(steps) + 1 .. Len(line)
        PROVE  line[n] = todo[t][n - Len(steps) + 1] /\ n - Len(steps) + 1 \in 2 .. Len(todo[t])
    <2> DEFINE k == n - Len(steps)
    <2>1. n \in 1 .. Len(steps) + Len(rest) /\ ~(n <= Len(steps)) /\ k \in 1 .. Len(todo[t]) - 1
      BY <1>1, <1>2, <1>3
    <2>2. line[n] = rest[k]
      BY <1>3, <2>1
    <2> HIDE DEF k
    <2>3. rest[k] = todo[t][k + 1]
      BY <1>1, <2>1
    <2> QED BY <2>1, <2>2, <2>3, <1>1 DEF k
  <1> QED BY <1>1, <1>2, <1>3, <1>4, <1>5, <1>6

(* Most steps replace the head of a thread by other work; the same workers  *)
(* stay busy.                                                               *)
LEMMA Advance ==
  ASSUME Shape, NEW t \in Threads, NEW kind, kind # "finish", At(t, kind),
         NEW steps \in Seq(Working), Continue(t, steps)
  PROVE  /\ todo' \in [Threads -> Seq(Steps)]
         /\ \A u \in Threads : Ends(todo[u], u)'
         /\ Busy' = Busy
  <1> DEFINE line == steps \o Tail(todo[t])
  <1>1. todo[t] # <<>> /\ Head(todo[t])[1] # "finish"
    BY DEF At
  <1>2. todo' = [todo EXCEPT ![t] = line] /\ todo \in [Threads -> Seq(Steps)]
    BY DEF Continue, Shape, Typed
  <1>3. /\ line \in Seq(Steps) /\ Len(line) = Len(steps) + Len(todo[t]) - 1
        /\ Len(line) \in Nat /\ Len(steps) \in Nat /\ DOMAIN line = 1 .. Len(line)
        /\ \A n \in 1 .. Len(steps) : line[n] = steps[n] /\ steps[n] \in Working
        /\ \A n \in Len(steps) + 1 .. Len(line) :
              line[n] = todo[t][n - Len(steps) + 1] /\ n - Len(steps) + 1 \in 2 .. Len(todo[t])
    BY <1>1, Replaced
  <1> HIDE DEF line
  <1>4. todo' \in [Threads -> Seq(Steps)]
    BY <1>2, <1>3
  <1>5. /\ Len(todo[t]) \in Nat \ {0} /\ DOMAIN todo[t] = 1 .. Len(todo[t])
        /\ Head(todo[t]) = todo[t][1] /\ Head(todo[t]) \in Steps
    BY <1>1, HeadStep
  <1>6. \A n \in 1 .. Len(todo[t]) : todo[t][n] = Finish <=> t \in Workers /\ n = Len(todo[t])
    BY <1>5 DEF Shape, Ends
  <1>7. t \in Workers => Len(todo[t]) > 1
    BY <1>1, <1>5, <1>6, StepArgs
  <1>8. ASSUME NEW n \in DOMAIN line PROVE line[n] = Finish <=> t \in Workers /\ n = Len(line)
    <2>1. CASE n \in 1 .. Len(steps)
      <3>1. line[n] \in Working
        BY <2>1, <1>3
      <3>2. line[n] # Finish
        BY <3>1, MakeSteps
      <3>3. t \in Workers => n # Len(line)
        BY <2>1, <1>3, <1>5, <1>7
      <3> QED BY <3>2, <3>3
    <2>2. CASE n \in Len(steps) + 1 .. Len(line)
      <3> DEFINE k == n - Len(steps) + 1
      <3>1. line[n] = todo[t][k] /\ k \in 2 .. Len(todo[t])
        BY <2>2, <1>3
      <3>2. k = Len(todo[t]) <=> n = Len(line)
        BY <2>2, <1>3, <1>5
      <3> HIDE DEF k
      <3>3. k \in 1 .. Len(todo[t])
        BY <3>1, <1>5
      <3> QED BY <3>1, <3>2, <3>3, <1>6
    <2> QED BY <2>1, <2>2, <1>3
  <1>9. ASSUME NEW u \in Threads PROVE Ends(todo[u], u)'
    BY <1>2, <1>8 DEF Ends, Shape
  <1>10. t \in Workers => line # <<>>
    BY <1>3, <1>5, <1>7, EmptySeq
  <1>11. Busy' = Busy
    BY <1>1, <1>2, <1>10 DEF Busy, Threads
  <1> QED BY <1>4, <1>9, <1>11

(* The steps that are left when the function at the head throws: those      *)
(* after the first d, starting with a catch if there is one                 *)
UnwoundBy(s, d) ==
    /\ Unwound(s) \in Seq(Steps) /\ Len(Unwound(s)) = Len(s) - d
    /\ DOMAIN Unwound(s) = 1 .. Len(s) - d
    /\ \A n \in 1 .. Len(s) - d : Unwound(s)[n] = s[n + d]
    /\ \A n \in 2 .. d : s[n][1] \notin {"sub", "finish"}
    /\ \/ d < Len(s) /\ s[d + 1][1] \in {"sub", "finish"} /\ Head(Unwound(s)) = s[d + 1]
       \/ d = 1 /\ \A n \in 1 .. Len(s) : s[n][1] \notin {"sub", "finish"}

LEMMA UnwoundIsSuffix ==
  ASSUME Shape, NEW t \in Threads, todo[t] # <<>>, Head(todo[t])[1] \notin {"sub", "finish"}
  PROVE  \E d \in 1 .. Len(todo[t]) : UnwoundBy(todo[t], d)
  <1> DEFINE s == todo[t]
             catches == {n \in DOMAIN s : s[n][1] \in {"sub", "finish"}}
  <1>1. /\ s \in Seq(Steps) /\ Len(s) \in Nat \ {0} /\ DOMAIN s = 1 .. Len(s)
        /\ Head(s) = s[1] /\ Tail(s) \in Seq(Steps) /\ Len(Tail(s)) = Len(s) - 1
        /\ \A n \in 1 .. Len(s) - 1 : Tail(s)[n] = s[n + 1]
    BY HeadStep
  <1>2. CASE catches = {}
    <2>1. Unwound(s) = Tail(s)
      BY <1>2 DEF Unwound
    <2>2. \A n \in 1 .. Len(s) : s[n][1] \notin {"sub", "finish"}
      BY <1>1, <1>2
    <2>3. DOMAIN Tail(s) = 1 .. Len(s) - 1
      BY <1>1, LenProperties
    <2> HIDE DEF s
    <2>4. \A n \in 2 .. 1 : s[n][1] \notin {"sub", "finish"}
      OBVIOUS
    <2>5. 1 \in 1 .. Len(s) /\ UnwoundBy(s, 1)
      BY <1>1, <2>1, <2>2, <2>3, <2>4 DEF UnwoundBy
    <2> QED BY <2>5 DEF s
  <1>3. CASE catches # {}
    <2>1. catches \in SUBSET Nat
      BY <1>1
    <2>2. PICK n0 \in catches : \A k \in catches : n0 <= k
      BY <1>3, <2>1, LeastNumber
    <2>3. n0 = CHOOSE n \in catches : \A k \in catches : n <= k
      BY <2>1, <2>2
    <2>4. Unwound(s) = SubSeq(s, n0, Len(s))
      BY <1>3, <2>3 DEF Unwound
    <2>5. n0 \in 2 .. Len(s) /\ s[n0][1] \in {"sub", "finish"}
      BY <1>1
    <2>6. \A i \in n0 .. Len(s) : s[i] \in Steps
      BY <1>1, <2>5, ElementOfSeq
    <2> HIDE DEF s, catches
    <2>7. /\ Unwound(s) \in Seq(Steps) /\ Len(Unwound(s)) = Len(s) - n0 + 1
          /\ \A i \in 1 .. Len(s) - n0 + 1 : Unwound(s)[i] = s[n0 + i - 1]
      <3>1. n0 \in Int /\ Len(s) \in Int /\ n0 <= Len(s)
        BY <1>1, <2>5
      <3> QED BY <2>4, <2>6, <3>1, SubSeqProperties
    <2> DEFINE d == n0 - 1
    <2>8. d \in 1 .. Len(s) /\ d < Len(s) /\ d + 1 = n0 /\ Len(s) - d = Len(s) - n0 + 1
      BY <1>1, <2>5
    <2>9. DOMAIN Unwound(s) = 1 .. Len(s) - d
      BY <2>7, <2>8, LenProperties
    <2>10. ASSUME NEW n \in 1 .. Len(s) - d PROVE Unwound(s)[n] = s[n + d]
      <3>1. n \in 1 .. Len(s) - n0 + 1 /\ n0 + n - 1 = n + d
        BY <2>5, <2>8, <1>1
      <3>2. Unwound(s)[n] = s[n0 + n - 1]
        BY <2>7, <3>1
      <3> QED BY <3>1, <3>2
    <2>11. ASSUME NEW n \in 2 .. d PROVE s[n][1] \notin {"sub", "finish"}
      <3>1. n \in DOMAIN s /\ ~(n0 <= n)
        BY <2>5, <2>8, <1>1
      <3> QED BY <2>2, <3>1 DEF catches
    <2>12. Head(Unwound(s)) = s[d + 1]
      <3>1. 1 \in 1 .. Len(s) - d /\ Unwound(s) # <<>>
        BY <2>7, <2>8, <1>1, EmptySeq
      <3>2. Unwound(s)[1] = s[1 + d]
        BY <2>10, <3>1
      <3> QED BY <3>1, <3>2, <2>7, <2>8
    <2> HIDE DEF d
    <2>13. UnwoundBy(s, d)
      BY <2>5, <2>7, <2>8, <2>9, <2>10, <2>11, <2>12 DEF UnwoundBy
    <2> QED BY <2>8, <2>13 DEF s
  <1> QED BY <1>2, <1>3

(* So is the line of a thread whose function throws, and a worker is back   *)
(* in main_loop only at the end of its task.                                *)
LEMMA ThrowKeepsShape ==
  ASSUME Shape, NEW t \in Threads, NEW kind \in {"inline", "func"}, At(t, kind),
         todo' = [todo EXCEPT ![t] = Unwound(todo[t])]
  PROVE  /\ todo' \in [Threads -> Seq(Steps)]
         /\ \A u \in Threads : Ends(todo[u], u)'
         /\ Busy' = Busy
  <1> DEFINE s == todo[t]
             rest == Unwound(s)
  <1>1. s # <<>> /\ Head(s)[1] = kind
    BY DEF At
  <1>2. PICK d \in 1 .. Len(s) : UnwoundBy(s, d)
    BY <1>1, UnwoundIsSuffix
  <1>3. /\ Len(s) \in Nat \ {0} /\ DOMAIN s = 1 .. Len(s) /\ Head(s) = s[1]
        /\ \A n \in 1 .. Len(s) : s[n] \in Steps
    BY <1>1, HeadStep, ElementOfSeq
  <1>4. \A n \in 1 .. Len(s) : s[n] = Finish <=> t \in Workers /\ n = Len(s)
    BY <1>3 DEF Shape, Ends
  <1>5. /\ rest \in Seq(Steps) /\ Len(rest) = Len(s) - d /\ DOMAIN rest = 1 .. Len(s) - d
        /\ \A n \in 1 .. Len(s) - d : rest[n] = s[n + d]
    BY <1>2 DEF UnwoundBy
  <1>6. t \in Workers => d < Len(s)
    <2> SUFFICES ASSUME t \in Workers PROVE d < Len(s)
      OBVIOUS
    <2>1. Len(s) \in 1 .. Len(s) /\ s[Len(s)] = Finish /\ s[Len(s)][1] = "finish"
      BY <1>3, <1>4 DEF Finish
    <2>2. Len(s) # 1
      BY <2>1, <1>1, <1>3
    <2>3. d = 1 \/ d < Len(s)
      BY <1>2 DEF UnwoundBy
    <2>4. \A m \in Nat : m # 0 /\ m # 1 => 1 < m
      OBVIOUS
    <2> QED BY <2>2, <2>3, <2>4, <1>3, Zenon
  <1>7. todo' = [todo EXCEPT ![t] = rest] /\ todo \in [Threads -> Seq(Steps)]
    BY DEF Shape, Typed
  <1> HIDE DEF rest, s
  <1>8. ASSUME NEW n \in DOMAIN rest PROVE rest[n] = Finish <=> t \in Workers /\ n = Len(rest)
    <2>1. n + d \in 1 .. Len(s) /\ rest[n] = s[n + d] /\ (n = Len(rest) <=> n + d = Len(s))
      BY <1>3, <1>5
    <2> QED BY <2>1, <1>4
  <1>9. ASSUME NEW u \in Threads PROVE Ends(todo[u], u)'
    BY <1>7, <1>8 DEF Ends, Shape
  <1>10. t \in Workers => rest # <<>>
    BY <1>3, <1>5, <1>6, EmptySeq
  <1>11. Busy' = Busy
    BY <1>1, <1>7, <1>10 DEF Busy, Threads, s
  <1> QED BY <1>5, <1>7, <1>9, <1>11

-----------------------------------------------------------------------------
(* The steps that the calls put in front. *)
LEMMA ShortLines ==
  /\ <<>> \in Seq(Working)
  /\ \A s \in Working : <<s>> \in Seq(Working) /\ Len(<<s>>) = 1 /\ <<s>>[1] = s
  /\ \A s, u \in Working : <<s, u>> \in Seq(Working) /\ Len(<<s, u>>) = 2
  /\ \A s, u, v \in Working : <<s, u, v>> \in Seq(Working) /\ Len(<<s, u, v>>) = 3
  OBVIOUS

LEMMA BodyIsWork ==
  ASSUME NEW x \in Jobs \cup Launched
  PROVE  Body[x] \in Seq(Working)
  <1>1. Body[x] \in Seq(CallSteps)
    BY ParallelAssumption
  <1> QED BY <1>1, MakeSteps, SeqMonotonic

LEMMA ArgsAt ==
  ASSUME Shape, NEW t \in Threads, NEW kind, At(t, kind)
  PROVE  Head(todo[t]) \in Steps /\ Head(todo[t])[1] = kind /\ Arg(t) = Head(todo[t])[2]
  BY HeadStep DEF At, Arg

(* Thread t does a step that is not the end of a task: work replaces it, or *)
(* its function throws, or the thread falls asleep.                         *)
Moves(t) ==
    /\ t \notin asleep /\ todo[t] # <<>> /\ Head(todo[t])[1] # "finish"
    /\ \/ \E steps \in Seq(Working) : Continue(t, steps)
       \/ Head(todo[t])[1] \in {"inline", "func"} /\ todo' = [todo EXCEPT ![t] = Unwound(todo[t])]
       \/ UNCHANGED todo

LEMMA MovesKeeps ==
  ASSUME Shape, NEW t \in Threads, Moves(t)
  PROVE  /\ todo' \in [Threads -> Seq(Steps)]
         /\ \A u \in Threads : Ends(todo[u], u)'
         /\ Busy' = Busy
  <1> DEFINE kind == Head(todo[t])[1]
  <1>1. At(t, kind) /\ kind # "finish"
    BY DEF At, Moves
  <1>2. ASSUME NEW steps \in Seq(Working), Continue(t, steps)
        PROVE  /\ todo' \in [Threads -> Seq(Steps)]
               /\ \A u \in Threads : Ends(todo[u], u)'
               /\ Busy' = Busy
    <2> HIDE DEF kind
    <2> QED BY <1>1, <1>2, Advance
  <1>3. ASSUME kind \in {"inline", "func"}, todo' = [todo EXCEPT ![t] = Unwound(todo[t])]
        PROVE  /\ todo' \in [Threads -> Seq(Steps)]
               /\ \A u \in Threads : Ends(todo[u], u)'
               /\ Busy' = Busy
    <2> HIDE DEF kind
    <2> QED BY <1>1, <1>3, ThrowKeepsShape
  <1>4. ASSUME UNCHANGED todo
        PROVE  /\ todo' \in [Threads -> Seq(Steps)]
               /\ \A u \in Threads : Ends(todo[u], u)'
               /\ Busy' = Busy
    BY <1>4 DEF Shape, Typed, Ends, Busy
  <1> QED BY <1>2, <1>3, <1>4 DEF Moves

LEMMA PoolMoves ==
  ASSUME Shape, NEW t \in Threads, WaitWorkComplete(t) \/ Destroy(t) \/ JoinWorkers(t)
  PROVE  Moves(t)
  <1>1. CASE WaitWorkComplete(t)
    BY <1>1, ShortLines DEF WaitWorkComplete, At, Sleep, Moves
  <1>2. CASE Destroy(t)
    <2>1. <<<<"join_workers">>>> \in Seq(Working)
      BY MakeSteps, ShortLines
    <2> QED BY <1>2, <2>1 DEF Destroy, At, Moves
  <1>3. CASE JoinWorkers(t)
    BY <1>3, ShortLines DEF JoinWorkers, At, Moves
  <1> QED BY <1>1, <1>2, <1>3

LEMMA CallsAreWork ==
  ASSUME Shape, NEW f \in Futures
  PROVE  /\ Calls(f) \in Seq(Working) /\ Len(Calls(f)) = Len(callbacks[f])
         /\ <<<<"notify", f>>>> \o Calls(f) \in Seq(Working)
         /\ Len(<<<<"notify", f>>>> \o Calls(f)) = 1 + Len(callbacks[f])
         /\ \A n \in 1 .. 1 + Len(callbacks[f]) :
               (<<<<"notify", f>>>> \o Calls(f))[n] =
                  IF n = 1 THEN <<"notify", f>> ELSE <<"call", callbacks[f][n - 1]>>
  <1> DEFINE n0 == Len(callbacks[f])
  <1>1. callbacks[f] \in Seq(Callbacks) /\ n0 \in Nat /\ \A i \in 1 .. n0 : callbacks[f][i] \in Callbacks
    BY LenProperties, ElementOfSeq DEF Shape, Typed
  <1>2. \A i \in 1 .. n0 : <<"call", callbacks[f][i]>> \in Working
    BY <1>1, MakeSteps
  <1>3. Calls(f) \in Seq(Working) /\ Len(Calls(f)) = n0
    <2> HIDE DEF n0
    <2> QED BY <1>1, <1>2 DEF Calls, n0
  <1>4. <<<<"notify", f>>>> \in Seq(Working) /\ Len(<<<<"notify", f>>>>) = 1
    BY MakeSteps, ShortLines
  <1>5. /\ <<<<"notify", f>>>> \o Calls(f) \in Seq(Working)
        /\ Len(<<<<"notify", f>>>> \o Calls(f)) = 1 + n0
        /\ \A n \in 1 .. 1 + n0 : (<<<<"notify", f>>>> \o Calls(f))[n] =
              IF n <= 1 THEN <<<<"notify", f>>>>[n] ELSE Calls(f)[n - 1]
    BY <1>3, <1>4, ConcatProperties
  <1>6. ASSUME NEW n \in 1 .. 1 + n0
        PROVE  (<<<<"notify", f>>>> \o Calls(f))[n] =
                  IF n = 1 THEN <<"notify", f>> ELSE <<"call", callbacks[f][n - 1]>>
    <2>1. CASE n = 1
      BY <1>5, <2>1
    <2>2. CASE n # 1
      <3>1. n - 1 \in 1 .. n0 /\ ~(n <= 1)
        BY <2>2, <1>1
      <3>2. Calls(f)[n - 1] = <<"call", callbacks[f][n - 1]>>
        BY <3>1 DEF Calls
      <3> QED BY <1>5, <2>2, <3>1, <3>2
    <2> QED BY <2>1, <2>2
  <1> QED BY <1>3, <1>5, <1>6

LEMMA AddsAreWork ==
  ASSUME NEW f \in Futures, Kind[f] \in {"then", "all"}
  PROVE  /\ Sources[f] \in Seq(Futures) /\ Len(Sources[f]) \in Nat
         /\ Adds(f) \in Seq(Working) /\ Len(Adds(f)) = Len(Sources[f])
         /\ \A n \in 1 .. Len(Sources[f]) : Adds(f)[n] = <<"add", <<f, n>>>> /\ <<f, n>> \in Callbacks
  <1> DEFINE n0 == Len(Sources[f])
  <1>1. Sources[f] \in Seq(Futures) /\ n0 \in Nat
    BY FutureAssumption, LenProperties
  <1>2. \A i \in 1 .. n0 : <<f, i>> \in Callbacks
    BY <1>1 DEF Callbacks
  <1>3. \A i \in 1 .. n0 : <<"add", <<f, i>>>> \in Working
    BY <1>2, MakeSteps
  <1>4. Adds(f) = [i \in 1 .. n0 |-> <<"add", <<f, i>>>>]
    BY DEF Adds
  <1> HIDE DEF n0
  <1>5. Adds(f) \in Seq(Working) /\ Len(Adds(f)) = n0
    BY <1>1, <1>3, <1>4
  <1> QED BY <1>1, <1>2, <1>4, <1>5 DEF n0

LEMMA FutureMoves ==
  ASSUME Shape, NEW t \in Threads, FutureStep(t)
  PROVE  Moves(t) /\ callbacks' \in [Futures -> Seq(Callbacks)]
  <1> DEFINE s == Head(todo[t])
  <1>0. callbacks \in [Futures -> Seq(Callbacks)]
    BY DEF Shape, Typed
  <1>1. CASE FutureWait(t)
    <2>1. Moves(t)
      BY <1>1, ShortLines DEF FutureWait, At, Sleep, Moves
    <2> QED BY <2>1, <1>1, <1>0 DEF FutureWait, futureState
  <1>2. CASE Mark(t)
    <2>1. At(t, "mark") /\ s \in Steps /\ s[1] = "mark" /\ Arg(t) = s[2]
      BY <1>2, ArgsAt DEF Mark
    <2>2. Arg(t) \in Futures
      BY <2>1, StepArgs
    <2>3. <<<<"notify", Arg(t)>>>> \o Calls(Arg(t)) \in Seq(Working)
      BY <2>2, CallsAreWork
    <2>4. Moves(t)
      BY <1>2, <2>1, <2>3, ShortLines DEF Mark, At, TakeCallbacks, Moves
    <2>5. callbacks' \in [Futures -> Seq(Callbacks)]
      <3>1. callbacks' = [callbacks EXCEPT ![Arg(t)] = <<>>] \/ callbacks' = callbacks
        BY <1>2 DEF Mark, TakeCallbacks
      <3>2. <<>> \in Seq(Callbacks)
        OBVIOUS
      <3> QED BY <3>1, <3>2, <1>0
    <2> QED BY <2>4, <2>5
  <1>3. CASE SetErrorIfNeeded(t)
    <2>1. At(t, "error_if_needed") /\ s \in Steps /\ s[1] = "error_if_needed" /\ Arg(t) = s[2]
      BY <1>3, ArgsAt DEF SetErrorIfNeeded
    <2>2. Arg(t) \in Futures
      BY <2>1, StepArgs
    <2>3. <<<<"notify", Arg(t)>>>> \o Calls(Arg(t)) \in Seq(Working)
      BY <2>2, CallsAreWork
    <2>4. Moves(t)
      BY <1>3, <2>1, <2>3, ShortLines DEF SetErrorIfNeeded, At, TakeCallbacks, Moves
    <2>5. callbacks' \in [Futures -> Seq(Callbacks)]
      <3>1. callbacks' = [callbacks EXCEPT ![Arg(t)] = <<>>] \/ callbacks' = callbacks
        BY <1>3 DEF SetErrorIfNeeded, TakeCallbacks
      <3>2. <<>> \in Seq(Callbacks)
        OBVIOUS
      <3> QED BY <3>1, <3>2, <1>0
    <2> QED BY <2>4, <2>5
  <1>4. CASE Notify(t)
    <2>1. Moves(t)
      BY <1>4, ShortLines DEF Notify, At, Moves
    <2> QED BY <2>1, <1>4, <1>0 DEF Notify, futureState
  <1>5. CASE AddCallback(t)
    <2>1. At(t, "add") /\ s \in Steps /\ s[1] = "add" /\ Arg(t) = s[2]
      BY <1>5, ArgsAt DEF AddCallback
    <2>2. Arg(t) \in Callbacks /\ Source(Arg(t)) \in Futures
      BY <2>1, StepArgs, CallbackArgs
    <2>3. <<<<"call", Arg(t)>>>> \in Seq(Working)
      BY <2>2, MakeSteps, ShortLines
    <2>4. Moves(t)
      BY <1>5, <2>1, <2>3, ShortLines DEF AddCallback, At, Moves
    <2>5. callbacks' \in [Futures -> Seq(Callbacks)]
      <3>1. Append(callbacks[Source(Arg(t))], Arg(t)) \in Seq(Callbacks)
        BY <1>0, <2>2, AppendProperties
      <3> QED BY <1>5, <1>0, <2>2, <3>1 DEF AddCallback
    <2> QED BY <2>4, <2>5
  <1>6. CASE CallThen(t)
    <2>1. At(t, "call") /\ s \in Steps /\ s[1] = "call"
      BY <1>6, ArgsAt DEF CallThen
    <2>2. PICK res \in {"value", "error"} : Continue(t, <<<<"mark", s[2][1], res>>>>)
      BY <1>6 DEF CallThen, Arg
    <2>3. s[2][1] \in Futures /\ res \in Outcome
      BY <2>1, StepArgs, CallbackArgs DEF Outcome
    <2>4. <<<<"mark", s[2][1], res>>>> \in Seq(Working)
      BY <2>3, MakeSteps, ShortLines
    <2>5. Moves(t)
      BY <2>1, <2>2, <2>4 DEF At, Moves
    <2> QED BY <2>5, <1>6, <1>0 DEF CallThen, futureState
  <1>7. CASE CallAll(t)
    <2>1. At(t, "call") /\ s \in Steps /\ s[1] = "call"
      BY <1>7, ArgsAt DEF CallAll
    <2>2. s[2][1] \in Futures
      BY <2>1, StepArgs, CallbackArgs
    <2>3. <<<<"error_if_needed", s[2][1]>>>> \in Seq(Working) /\ <<<<"check", s[2][1]>>>> \in Seq(Working)
      BY <2>2, MakeSteps, ShortLines
    <2>4. \E steps \in Seq(Working) : Continue(t, steps)
      BY <1>7, <2>3, ShortLines DEF CallAll, Arg
    <2>5. Moves(t)
      BY <2>1, <2>4 DEF At, Moves
    <2> QED BY <2>5, <1>7, <1>0 DEF CallAll
  <1>8. CASE CheckCompleted(t)
    <2>1. At(t, "check") /\ s \in Steps /\ s[1] = "check" /\ Arg(t) = s[2]
      BY <1>8, ArgsAt DEF CheckCompleted
    <2>2. Arg(t) \in Futures /\ "value" \in Outcome
      BY <2>1, StepArgs DEF Outcome
    <2>3. <<<<"mark", Arg(t), "value">>>> \in Seq(Working)
      BY <2>2, MakeSteps, ShortLines
    <2>4. \E steps \in Seq(Working) : Continue(t, steps)
      BY <1>8, <2>3, ShortLines DEF CheckCompleted
    <2>5. Moves(t)
      BY <2>1, <2>4 DEF At, Moves
    <2> QED BY <2>5, <1>8, <1>0 DEF CheckCompleted, futureState
  <1>9. CASE MakeDependent(t)
    <2>1. At(t, "make") /\ s \in Steps /\ s[1] = "make" /\ Arg(t) = s[2]
      BY <1>9, ArgsAt DEF MakeDependent
    <2>2. Arg(t) \in Futures /\ "value" \in Outcome
      BY <2>1, StepArgs DEF Outcome
    <2>3. <<<<"mark", Arg(t), "value">>>> \in Seq(Working) /\ Adds(Arg(t)) \in Seq(Working)
      BY <2>1, <2>2, MakeSteps, ShortLines, StepKinds, AddsAreWork
    <2>4. \E steps \in Seq(Working) : Continue(t, steps)
      BY <1>9, <2>3 DEF MakeDependent
    <2>5. Moves(t)
      BY <2>1, <2>4 DEF At, Moves
    <2> QED BY <2>5, <1>9, <1>0 DEF MakeDependent
  <1> QED BY <1>1, <1>2, <1>3, <1>4, <1>5, <1>6, <1>7, <1>8, <1>9 DEF FutureStep

(* calc_num_tasks_and_chunk_size, where parallel_for uses the pool. *)
LEMMA ChunkNumbers ==
  ASSUME NEW j \in Jobs, Size[j] > Grain[j], Size[j] > 1
  PROVE  /\ get_num_threads \in Nat \ {0} /\ ChunkSize(j) \in Nat \ {0}
         /\ NumTasks(j) = (Size[j] + ChunkSize(j) - 1) \div ChunkSize(j)
         /\ NumTasks(j) \in Nat \ {0}
  <1>1. Size[j] \in Nat /\ Grain[j] \in Nat
    BY ParallelAssumption
  <1>2. get_num_threads \in Nat \ {0}
    BY ThreadPoolAssumption, FS_CardinalityType DEF get_num_threads
  <1>3. \A n \in Nat, m \in Nat \ {0} : n > 0 => (n + m - 1) \div m \in Nat \ {0}
    <2> SUFFICES ASSUME NEW n \in Nat, NEW m \in Nat \ {0}, n > 0
                 PROVE  (n + m - 1) \div m \in Nat \ {0}
      OBVIOUS
    <2> QED BY Z3T(20)
  <1>4. divup(Size[j], get_num_threads) \in Nat \ {0}
    BY <1>1, <1>2, <1>3 DEF divup
  <1>5. ChunkSize(j) \in Nat \ {0}
    BY <1>1, <1>4 DEF ChunkSize, AtLeast
  <1>6. NumTasks(j) = (Size[j] + ChunkSize(j) - 1) \div ChunkSize(j)
    BY <1>1 DEF NumTasks, divup
  <1> QED BY <1>1, <1>2, <1>3, <1>5, <1>6

(* The steps of a parallel_for that uses the pool. *)
ForLine(j) ==
    [i \in 1 .. NumTasks(j) - 1 |-> <<"enqueue", j, i>>]
        \o <<<<"chunk", j, 0>>, <<"join", j>>, <<"return", j>>>>

LEMMA ForLineIsWork ==
  ASSUME NEW j \in Jobs, Size[j] > Grain[j], Size[j] > 1
  PROVE  /\ ForLine(j) \in Seq(Working) /\ Len(ForLine(j)) = NumTasks(j) + 2
         /\ NumTasks(j) \in Nat \ {0}
         /\ \A n \in 1 .. NumTasks(j) - 1 : ForLine(j)[n] = <<"enqueue", j, n>>
         /\ ForLine(j)[NumTasks(j)] = <<"chunk", j, 0>>
         /\ ForLine(j)[NumTasks(j) + 1] = <<"join", j>>
         /\ ForLine(j)[NumTasks(j) + 2] = <<"return", j>>
  <1> DEFINE N == NumTasks(j)
             first == [i \in 1 .. N - 1 |-> <<"enqueue", j, i>>]
             last == <<<<"chunk", j, 0>>, <<"join", j>>, <<"return", j>>>>
  <1>1. N \in Nat \ {0}
    BY ChunkNumbers
  <1> HIDE DEF N
  <1>2. \A i \in 1 .. N - 1 : <<"enqueue", j, i>> \in Working
    <2>1. \A i \in 1 .. N - 1 : i \in Index
      BY <1>1 DEF Index
    <2> QED BY <2>1, MakeSteps
  <1>3. first \in Seq(Working) /\ Len(first) = N - 1
    BY <1>1, <1>2
  <1>4. last \in Seq(Working) /\ Len(last) = 3
    <2>1. 0 \in Index
      BY DEF Index
    <2>2. <<"chunk", j, 0>> \in Working /\ <<"join", j>> \in Working /\ <<"return", j>> \in Working
      BY <2>1, MakeSteps
    <2> QED BY <2>2, ShortLines
  <1>5. last[1] = <<"chunk", j, 0>> /\ last[2] = <<"join", j>> /\ last[3] = <<"return", j>>
    OBVIOUS
  <1>6. \A n \in 1 .. N - 1 : first[n] = <<"enqueue", j, n>>
    OBVIOUS
  <1> HIDE DEF first, last
  <1>7. /\ first \o last \in Seq(Working) /\ Len(first \o last) = (N - 1) + 3
        /\ \A n \in 1 .. (N - 1) + 3 : (first \o last)[n] =
               IF n <= N - 1 THEN first[n] ELSE last[n - (N - 1)]
    <2>1. /\ first \o last \in Seq(Working) /\ Len(first \o last) = Len(first) + Len(last)
          /\ \A n \in 1 .. Len(first) + Len(last) : (first \o last)[n] =
                IF n <= Len(first) THEN first[n] ELSE last[n - Len(first)]
      BY <1>3, <1>4, ConcatProperties
    <2> QED BY <2>1, <1>3, <1>4, Zenon
  <1>8. ForLine(j) = first \o last
    BY DEF ForLine, first, last, N
  <1>9. ASSUME NEW n \in 1 .. N - 1 PROVE ForLine(j)[n] = <<"enqueue", j, n>>
    <2>1. n \in 1 .. (N - 1) + 3 /\ n <= N - 1
      BY <1>1
    <2> QED BY <2>1, <1>6, <1>7, <1>8
  <1>10. ASSUME NEW k \in 1 .. 3 PROVE ForLine(j)[N - 1 + k] = last[k]
    <2>1. N - 1 + k \in 1 .. (N - 1) + 3 /\ ~(N - 1 + k <= N - 1) /\ (N - 1 + k) - (N - 1) = k
      BY <1>1
    <2>2. ForLine(j)[N - 1 + k] = last[(N - 1 + k) - (N - 1)]
      BY <2>1, <1>7, <1>8
    <2> QED BY <2>1, <2>2
  <1>11. /\ ForLine(j)[N] = last[1] /\ ForLine(j)[N + 1] = last[2] /\ ForLine(j)[N + 2] = last[3]
    <2>1. N - 1 + 1 = N /\ N - 1 + 2 = N + 1 /\ N - 1 + 3 = N + 2
      BY <1>1
    <2>2. ForLine(j)[N - 1 + 1] = last[1] /\ ForLine(j)[N - 1 + 2] = last[2] /\ ForLine(j)[N - 1 + 3] = last[3]
      BY <1>10
    <2> QED BY <2>1, <2>2
  <1>12. Len(ForLine(j)) = N + 2
    BY <1>1, <1>7, <1>8
  <1> QED BY <1>1, <1>5, <1>7, <1>8, <1>9, <1>11, <1>12 DEF N

(* What RunChunk puts in front. *)
LEMMA ChunkLineIsWork ==
  ASSUME NEW j \in Jobs, NEW i \in Index
  PROVE  /\ <<<<"sub", j, i>>>> \in Seq(Working)
         /\ Body[j] \o <<<<"sub", j, i>>>> \in Seq(Working)
         /\ <<>> \o <<<<"sub", j, i>>>> = <<<<"sub", j, i>>>>
         /\ Len(Body[j]) \in Nat /\ Len(Body[j] \o <<<<"sub", j, i>>>>) = Len(Body[j]) + 1
         /\ \A n \in 1 .. Len(Body[j]) : (Body[j] \o <<<<"sub", j, i>>>>)[n] = Body[j][n]
         /\ (Body[j] \o <<<<"sub", j, i>>>>)[Len(Body[j]) + 1] = <<"sub", j, i>>
  <1> DEFINE last == <<<<"sub", j, i>>>>
  <1>1. last \in Seq(Working) /\ Len(last) = 1 /\ last[1] = <<"sub", j, i>>
    BY MakeSteps, ShortLines
  <1>2. Body[j] \in Seq(Working) /\ Len(Body[j]) \in Nat
    BY BodyIsWork, LenProperties
  <1>3. <<>> \o last = last
    BY <1>1, ConcatEmptySeq
  <1> HIDE DEF last
  <1>4. /\ Body[j] \o last \in Seq(Working) /\ Len(Body[j] \o last) = Len(Body[j]) + Len(last)
        /\ \A n \in 1 .. Len(Body[j]) + Len(last) : (Body[j] \o last)[n] =
               IF n <= Len(Body[j]) THEN Body[j][n] ELSE last[n - Len(Body[j])]
    BY <1>1, <1>2, ConcatProperties
  <1>5. (Body[j] \o last)[Len(Body[j]) + 1] = last[1]
    <2>1. /\ Len(Body[j]) + 1 \in 1 .. Len(Body[j]) + Len(last) /\ ~(Len(Body[j]) + 1 <= Len(Body[j]))
          /\ (Len(Body[j]) + 1) - Len(Body[j]) = 1
      BY <1>1, <1>2
    <2> QED BY <2>1, <1>4
  <1>6. ASSUME NEW n \in 1 .. Len(Body[j]) PROVE (Body[j] \o last)[n] = Body[j][n]
    <2>1. n \in 1 .. Len(Body[j]) + Len(last) /\ n <= Len(Body[j])
      BY <1>1, <1>2
    <2> QED BY <2>1, <1>4
  <1> QED BY <1>1, <1>2, <1>3, <1>4, <1>5, <1>6 DEF last

LEMMA JobMoves ==
  ASSUME Shape, NEW t \in Threads,
         \/ ParallelFor(t) \/ RunInline(t) \/ RunChunk(t) \/ ChunkDone(t) \/ Join(t) \/ Joined(t)
         \/ Return(t) \/ CallFunc(t) \/ Fulfil(t)
  PROVE  Moves(t)
  <1> DEFINE s == Head(todo[t])
  <1>1. CASE ParallelFor(t)
    <2>1. At(t, "for") /\ s \in Steps /\ s[1] = "for" /\ Arg(t) = s[2]
      BY <1>1, ArgsAt DEF ParallelFor
    <2>2. Arg(t) \in Jobs
      BY <2>1, StepArgs
    <2>3. <<<<"inline", Arg(t)>>>> \in Seq(Working)
      BY <2>2, MakeSteps, ShortLines
    <2>4. Size[Arg(t)] > Grain[Arg(t)] /\ Size[Arg(t)] > 1 => ForLine(Arg(t)) \in Seq(Working)
      BY <2>2, ForLineIsWork
    <2>5. \E steps \in Seq(Working) : Continue(t, steps)
      BY <1>1, <2>3, <2>4, ShortLines DEF ParallelFor, ForLine
    <2> QED BY <2>1, <2>5 DEF At, Moves
  <1>2. CASE RunInline(t)
    <2>1. At(t, "inline") /\ s \in Steps /\ s[1] = "inline" /\ Arg(t) = s[2]
      BY <1>2, ArgsAt DEF RunInline
    <2>2. Arg(t) \in Jobs
      BY <2>1, StepArgs
    <2>3. Body[Arg(t)] \in Seq(Working)
      BY <2>2, BodyIsWork
    <2>4. Continue(t, Body[Arg(t)]) \/ todo' = [todo EXCEPT ![t] = Unwound(todo[t])]
      BY <1>2 DEF RunInline, Throws
    <2> QED BY <2>1, <2>3, <2>4 DEF At, Moves
  <1>3. CASE RunChunk(t)
    <2>1. At(t, "chunk") /\ s \in Steps /\ s[1] = "chunk" /\ Arg(t) = s[2]
      BY <1>3, ArgsAt DEF RunChunk
    <2>2. Arg(t) \in Jobs /\ s[3] \in Index
      BY <2>1, StepArgs
    <2>3. /\ <<<<"sub", Arg(t), s[3]>>>> \in Seq(Working)
          /\ Body[Arg(t)] \o <<<<"sub", Arg(t), s[3]>>>> \in Seq(Working)
          /\ <<>> \o <<<<"sub", Arg(t), s[3]>>>> = <<<<"sub", Arg(t), s[3]>>>>
      BY <2>2, ChunkLineIsWork
    <2>4. \/ Continue(t, <<<<"sub", Arg(t), s[3]>>>>)
          \/ Continue(t, (IF s[3] = 0 THEN Body[Arg(t)] ELSE <<>>) \o <<<<"sub", Arg(t), s[3]>>>>)
      BY <1>3 DEF RunChunk
    <2>5. \E steps \in Seq(Working) : Continue(t, steps)
      BY <2>3, <2>4
    <2> QED BY <2>1, <2>5 DEF At, Moves
  <1>4. CASE ChunkDone(t)
    BY <1>4, ShortLines DEF ChunkDone, At, Moves
  <1>5. CASE Join(t)
    <2>1. At(t, "join") /\ s \in Steps /\ s[1] = "join" /\ Arg(t) = s[2]
      BY <1>5, ArgsAt DEF Join
    <2>2. <<<<"joined", Arg(t)>>>> \in Seq(Working)
      BY <2>1, StepArgs, MakeSteps, ShortLines
    <2>3. \E steps \in Seq(Working) : Continue(t, steps)
      BY <1>5, <2>2, ShortLines DEF Join
    <2> QED BY <2>1, <2>3 DEF At, Moves
  <1>6. CASE Joined(t)
    BY <1>6, ShortLines DEF Joined, At, Moves
  <1>7. CASE Return(t)
    BY <1>7, ShortLines DEF Return, At, Moves
  <1>8. CASE CallFunc(t)
    <2>1. At(t, "func") /\ s \in Steps /\ s[1] = "func" /\ Arg(t) = s[2]
      BY <1>8, ArgsAt DEF CallFunc
    <2>2. Body[Arg(t)] \in Seq(Working)
      BY <2>1, StepArgs, BodyIsWork
    <2>3. Continue(t, Body[Arg(t)]) \/ todo' = [todo EXCEPT ![t] = Unwound(todo[t])]
      BY <1>8 DEF CallFunc, Throws
    <2> QED BY <2>1, <2>2, <2>3 DEF At, Moves
  <1>9. CASE Fulfil(t)
    <2>1. At(t, "fulfil") /\ s \in Steps /\ s[1] = "fulfil" /\ Arg(t) = s[2]
      BY <1>9, ArgsAt DEF Fulfil
    <2>2. PICK res \in {"value", "error"} : Continue(t, <<<<"mark", Arg(t), res>>>>)
      BY <1>9 DEF Fulfil
    <2>3. Arg(t) \in Futures /\ res \in Outcome
      BY <2>1, StepArgs DEF Outcome
    <2>4. <<<<"mark", Arg(t), res>>>> \in Seq(Working)
      BY <2>3, MakeSteps, ShortLines
    <2> QED BY <2>1, <2>2, <2>4 DEF At, Moves
  <1> QED BY <1>1, <1>2, <1>3, <1>4, <1>5, <1>6, <1>7, <1>8, <1>9

(* A task that is given to the pool. *)
LEMMA RunMoves ==
  ASSUME Shape, NEW t \in Threads, Enqueue(t) \/ Launch(t)
  PROVE  /\ Moves(t)
         /\ \/ \E task \in Seq(Working) : Run(task)
            \/ UNCHANGED poolState
  <1> DEFINE s == Head(todo[t])
  <1>1. CASE Enqueue(t)
    <2>1. At(t, "enqueue") /\ s \in Steps /\ s[1] = "enqueue" /\ Arg(t) = s[2]
      BY <1>1, ArgsAt DEF Enqueue
    <2>2. <<<<"chunk", Arg(t), s[3]>>>> \in Seq(Working)
      BY <2>1, StepArgs, MakeSteps, ShortLines
    <2> QED BY <1>1, <2>1, <2>2, ShortLines DEF Enqueue, At, Moves
  <1>2. CASE Launch(t)
    <2> DEFINE task == <<<<"func", Arg(t)>>, <<"mark", Arg(t), "value">>>>
    <2>1. At(t, "launch") /\ s \in Steps /\ s[1] = "launch" /\ Arg(t) = s[2]
      BY <1>2, ArgsAt DEF Launch
    <2>2. Arg(t) \in Launched /\ Arg(t) \in Futures /\ "value" \in Outcome
      BY <2>1, StepArgs DEF Launched, Outcome
    <2>3. task \in Seq(Working)
      BY <2>2, MakeSteps, ShortLines
    <2>4. \/ Continue(t, task) /\ UNCHANGED poolState
          \/ Run(task) /\ Continue(t, <<>>)
      BY <1>2 DEF Launch
    <2> HIDE DEF task
    <2> QED BY <2>1, <2>3, <2>4, ShortLines DEF At, Moves
  <1> QED BY <1>1, <1>2

-----------------------------------------------------------------------------
(* The pool.  available_ counts the workers without a task. *)
Counted == available = Cardinality(Workers) - Cardinality(Busy)

PoolInv == Shape /\ Counted /\ CompleteIsExact

LEMMA BusyIsFinite ==
  /\ IsFiniteSet(Workers) /\ Cardinality(Workers) \in Nat
  /\ IsFiniteSet(Busy) /\ Cardinality(Busy) \in Nat /\ Busy \subseteq Workers
  BY ThreadPoolAssumption, FS_Subset, FS_CardinalityType DEF Busy

LEMMA CompleteMeans == CompleteIsExact <=> (complete <=> tasks = <<>> /\ Busy = {})
  BY DEF CompleteIsExact, Busy

(* The line of a worker that takes a task. *)
LEMMA TaskLine ==
  ASSUME NEW w \in Workers, NEW task \in Seq(Working)
  PROVE  LET line == Append(task, Finish)
         IN  /\ line \in Seq(Steps) /\ line # <<>> /\ Len(task) \in Nat
             /\ Len(line) = Len(task) + 1 /\ DOMAIN line = 1 .. Len(task) + 1
             /\ \A n \in 1 .. Len(task) : line[n] = task[n] /\ task[n] \in Working
             /\ line[Len(task) + 1] = Finish
             /\ Ends(line, w)
  <1> DEFINE line == Append(task, Finish)
  <1>1. task \in Seq(Steps) /\ Finish \in Steps /\ Finish \notin Working
    BY MakeSteps, SeqMonotonic
  <1>2. /\ line \in Seq(Steps) /\ line # <<>> /\ Len(line) = Len(task) + 1
        /\ \A n \in 1 .. Len(task) : line[n] = task[n]
        /\ line[Len(task) + 1] = Finish
    BY <1>1, AppendProperties
  <1>3. Len(task) \in Nat /\ \A n \in 1 .. Len(task) : task[n] \in Working
    BY LenProperties, ElementOfSeq
  <1>4. DOMAIN line = 1 .. Len(task) + 1
    BY <1>2, LenProperties
  <1> HIDE DEF line
  <1>5. Ends(line, w)
    <2> SUFFICES ASSUME NEW n \in 1 .. Len(task) + 1
                 PROVE  line[n] = Finish <=> n = Len(task) + 1
      BY <1>2, <1>4 DEF Ends
    <2>1. CASE n \in 1 .. Len(task)
      BY <2>1, <1>1, <1>2, <1>3
    <2>2. CASE n = Len(task) + 1
      BY <2>2, <1>2
    <2> QED BY <2>1, <2>2, <1>3
  <1> QED BY <1>2, <1>3, <1>4, <1>5 DEF line

(* main_loop's loop condition, its wait, and the next task. *)
LEMMA LoopHeadKeepsShape ==
  ASSUME Shape, NEW w \in Workers, NEW avail, NEW awaited, LoopHead(w, avail, awaited),
         UNCHANGED callbacks
  PROVE  /\ Shape'
         /\ \/ /\ tasks' = tasks /\ available' = avail /\ Busy' = Busy \ {w}
               /\ todo' = [todo EXCEPT ![w] = <<>>]
            \/ /\ tasks # <<>> /\ available' = avail - 1 /\ Busy' = Busy \cup {w}
               /\ tasks' = Tail(tasks)
               /\ todo' = [todo EXCEPT ![w] = Append(Head(tasks), Finish)]
  <1>1. /\ todo \in [Threads -> Seq(Steps)] /\ tasks \in Seq(Seq(Working)) /\ w \in Threads
        /\ callbacks \in [Futures -> Seq(Callbacks)] /\ \A u \in Threads : Ends(todo[u], u)
    BY DEF Shape, Typed, Threads
  <1>2. CASE todo' = [todo EXCEPT ![w] = <<>>] /\ available' = avail /\ tasks' = tasks
    <2>1. Typed'
      <3>1. <<>> \in Seq(Steps)
        OBVIOUS
      <3>2. todo' \in [Threads -> Seq(Steps)]
        BY <1>1, <1>2, <3>1
      <3> QED BY <1>1, <1>2, <3>2 DEF Typed
    <2>2. ASSUME NEW u \in Threads PROVE Ends(todo[u], u)'
      BY <1>1, <1>2 DEF Ends
    <2>3. Busy' = Busy \ {w}
      BY <1>1, <1>2 DEF Busy, Threads
    <2> QED BY <1>2, <2>1, <2>2, <2>3 DEF Shape
  <1>3. CASE /\ todo' = [todo EXCEPT ![w] = Append(Head(tasks), Finish)] /\ available' = avail - 1
             /\ tasks' = Tail(tasks) /\ tasks # <<>>
    <2> DEFINE line == Append(Head(tasks), Finish)
    <2>1. Head(tasks) \in Seq(Working) /\ Tail(tasks) \in Seq(Seq(Working))
      BY <1>1, <1>3, HeadTailProperties
    <2>2. line \in Seq(Steps) /\ line # <<>> /\ Ends(line, w)
      BY <2>1, TaskLine
    <2> HIDE DEF line
    <2>3. todo' = [todo EXCEPT ![w] = line]
      BY <1>3 DEF line
    <2>4. Typed'
      BY <1>1, <1>3, <2>1, <2>2, <2>3 DEF Typed
    <2>5. ASSUME NEW u \in Threads PROVE Ends(todo[u], u)'
      <3>1. CASE u = w
        <4>1. todo'[u] = line
          BY <3>1, <2>3, <1>1
        <4> QED BY <4>1, <2>2, <3>1 DEF Ends
      <3>2. CASE u # w
        <4>1. todo'[u] = todo[u]
          BY <3>2, <2>3, <1>1
        <4> QED BY <4>1, <1>1 DEF Ends
      <3> QED BY <3>1, <3>2
    <2>6. Busy' = Busy \cup {w}
      BY <1>1, <2>2, <2>3 DEF Busy, Threads
    <2> QED BY <1>3, <2>4, <2>5, <2>6 DEF Shape
  <1> QED BY <1>2, <1>3 DEF LoopHead, Finish

(* A step that neither gives a task to the pool nor ends one. *)
LEMMA QuietPool ==
  ASSUME PoolInv, NEW t \in Threads, Moves(t), UNCHANGED poolState,
         callbacks' \in [Futures -> Seq(Callbacks)]
  PROVE  PoolInv'
  <1>1. /\ todo' \in [Threads -> Seq(Steps)] /\ Busy' = Busy
        /\ \A u \in Threads : Ends(todo[u], u)'
    BY MovesKeeps DEF PoolInv
  <1>2. Shape'
    BY <1>1 DEF PoolInv, Shape, Typed, poolState
  <1>3. Counted'
    BY <1>1 DEF PoolInv, Counted, poolState
  <1>4. (complete <=> tasks = <<>> /\ Busy = {})'
    BY <1>1, CompleteMeans DEF PoolInv, poolState
  <1>5. CompleteIsExact'
    BY <1>4 DEF CompleteIsExact, Busy
  <1> QED BY <1>2, <1>3, <1>5 DEF PoolInv

LEMMA RunKeepsPool ==
  ASSUME PoolInv, NEW t \in Threads, Moves(t), NEW task \in Seq(Working), Run(task),
         UNCHANGED callbacks
  PROVE  PoolInv'
  <1>1. /\ todo' \in [Threads -> Seq(Steps)] /\ Busy' = Busy
        /\ \A u \in Threads : Ends(todo[u], u)'
    BY MovesKeeps DEF PoolInv
  <1>2. /\ tasks \in Seq(Seq(Working)) /\ callbacks \in [Futures -> Seq(Callbacks)]
    BY DEF PoolInv, Shape, Typed
  <1>3. tasks' \in Seq(Seq(Working)) /\ tasks' # <<>> /\ complete' = FALSE /\ available' = available
    BY <1>2, AppendProperties DEF Run
  <1>4. Shape'
    BY <1>1, <1>2, <1>3 DEF Shape, Typed
  <1>5. Counted'
    BY <1>1, <1>3 DEF PoolInv, Counted
  <1>6. CompleteIsExact'
    BY <1>3 DEF CompleteIsExact
  <1> QED BY <1>4, <1>5, <1>6 DEF PoolInv

LEMMA WakeKeepsPool ==
  ASSUME PoolInv, NEW w \in Workers, WorkerWakes(w), UNCHANGED callbacks
  PROVE  PoolInv'
  <1>1. w \notin Busy /\ LoopHead(w, available, asleep) /\ complete' = complete
    BY DEF WorkerWakes, Busy
  <1>2. /\ Shape'
        /\ \/ tasks' = tasks /\ available' = available /\ Busy' = Busy \ {w}
           \/ tasks # <<>> /\ available' = available - 1 /\ Busy' = Busy \cup {w}
    BY <1>1, LoopHeadKeepsShape DEF PoolInv
  <1>3. available = Cardinality(Workers) - Cardinality(Busy) /\ (complete <=> tasks = <<>> /\ Busy = {})
    BY CompleteMeans DEF PoolInv, Counted
  <1>4. Cardinality(Busy \cup {w}) = Cardinality(Busy) + 1 /\ Busy \ {w} = Busy
    BY <1>1, BusyIsFinite, FS_AddElement
  <1>5. available' = Cardinality(Workers) - Cardinality(Busy')
    <2>1. CASE available' = available /\ Busy' = Busy \ {w}
      BY <2>1, <1>3, <1>4
    <2>2. CASE available' = available - 1 /\ Busy' = Busy \cup {w}
      <3>1. Cardinality(Busy') = Cardinality(Busy) + 1
        BY <2>2, <1>4
      <3> QED BY <3>1, <2>2, <1>3, BusyIsFinite
    <2> QED BY <2>1, <2>2, <1>2
  <1>6. complete' <=> tasks' = <<>> /\ Busy' = {}
    BY <1>1, <1>2, <1>3, <1>4
  <1> QED BY <1>2, <1>5, <1>6 DEF PoolInv, Counted, CompleteIsExact, Busy

LEMMA FinishKeepsPool ==
  ASSUME PoolInv, NEW w \in Threads, FinishTask(w), UNCHANGED callbacks
  PROVE  PoolInv'
  <1> DEFINE avail == available + 1
  <1>1. At(w, "finish") /\ todo[w] # <<>> /\ Head(todo[w])[1] = "finish"
    BY DEF FinishTask, At
  <1>2. w \in Workers
    <2>1. Head(todo[w]) = Finish /\ Head(todo[w]) = todo[w][1] /\ 1 \in DOMAIN todo[w]
      BY <1>1, HeadStep, StepArgs DEF PoolInv
    <2> QED BY <2>1 DEF PoolInv, Shape, Ends
  <1>3. w \in Busy
    BY <1>1, <1>2 DEF Busy
  <1>4. PICK awaited : LoopHead(w, avail, awaited)
    BY DEF FinishTask
  <1>5. /\ Shape'
        /\ \/ tasks' = tasks /\ available' = avail /\ Busy' = Busy \ {w}
           \/ tasks # <<>> /\ available' = avail - 1 /\ Busy' = Busy \cup {w}
    BY <1>2, <1>4, LoopHeadKeepsShape DEF PoolInv
  <1>6. available = Cardinality(Workers) - Cardinality(Busy) /\ (complete <=> tasks = <<>> /\ Busy = {})
    BY CompleteMeans DEF PoolInv, Counted
  <1>7. complete' = (tasks = <<>> /\ avail = Cardinality(Workers))
    BY <1>3, <1>6 DEF FinishTask, AllDone
  <1>8. Cardinality(Busy \ {w}) = Cardinality(Busy) - 1 /\ IsFiniteSet(Busy \ {w}) /\ Busy \cup {w} = Busy
    BY <1>3, BusyIsFinite, FS_RemoveElement
  <1>9. Cardinality(Busy \ {w}) = 0 <=> Busy \ {w} = {}
    BY <1>8, FS_EmptySet
  <1>10. available' = Cardinality(Workers) - Cardinality(Busy')
    <2>1. CASE available' = avail /\ Busy' = Busy \ {w}
      <3>1. Cardinality(Busy') = Cardinality(Busy) - 1
        BY <2>1, <1>8
      <3> QED BY <3>1, <2>1, <1>6, BusyIsFinite
    <2>2. CASE available' = avail - 1 /\ Busy' = Busy \cup {w}
      <3>1. Busy' = Busy
        BY <2>2, <1>8
      <3>2. available \in Int
        BY <1>6, BusyIsFinite
      <3>3. available' = available
        BY <3>2, <2>2
      <3> QED BY <3>1, <3>3, <1>6
    <2> QED BY <2>1, <2>2, <1>5
  <1>11. avail = Cardinality(Workers) <=> Busy \ {w} = {}
    BY <1>6, <1>8, <1>9, BusyIsFinite
  <1>12. complete' <=> tasks' = <<>> /\ Busy' = {}
    BY <1>5, <1>7, <1>8, <1>11, <1>3
  <1> QED BY <1>5, <1>10, <1>12 DEF PoolInv, Counted, CompleteIsExact, Busy

LEMMA InitPool == Init => PoolInv
  <1> SUFFICES ASSUME Init PROVE PoolInv
    OBVIOUS
  <1>1. PICK p \in Programs : todo = [t \in Threads |-> IF t \in Mains THEN p[t] ELSE <<>>]
    BY DEF Init
  <1>2. /\ tasks = <<>> /\ complete = TRUE /\ available = Cardinality(Workers)
        /\ callbacks = [f \in Futures |-> <<>>]
    BY DEF Init, PoolInit, FutureInit
  <1>3. \A m \in Mains : p[m] \in Seq(Working)
    <2>1. p \in [Mains -> Seq(CallSteps)]
      BY ParallelAssumption
    <2> QED BY <2>1, MakeSteps, SeqMonotonic
  <1>4. \A m \in Mains : p[m] \in Seq(Steps)
    BY <1>3, MakeSteps, SeqMonotonic
  <1>5. Typed
    <2>1. <<>> \in Seq(Steps) /\ <<>> \in Seq(Seq(Working)) /\ <<>> \in Seq(Callbacks)
      OBVIOUS
    <2>2. todo \in [Threads -> Seq(Steps)]
      BY <1>1, <1>4, <2>1
    <2> QED BY <1>2, <2>1, <2>2 DEF Typed
  <1>6. \A w \in Workers : todo[w] = <<>>
    BY <1>1, ThreadPoolAssumption DEF Threads
  <1>7. ASSUME NEW t \in Threads PROVE Ends(todo[t], t)
    <2>1. CASE t \in Workers
      BY <2>1, <1>6 DEF Ends
    <2>2. CASE t \in Mains
      <3>1. todo[t] = p[t] /\ t \notin Workers
        BY <1>1, <2>2, ThreadPoolAssumption
      <3>2. \A n \in DOMAIN todo[t] : todo[t][n] \in Working
        BY <3>1, <1>3, <2>2, LenProperties, ElementOfSeq
      <3> QED BY <3>1, <3>2, MakeSteps DEF Ends
    <2> QED BY <2>1, <2>2 DEF Threads
  <1>8. Busy = {}
    BY <1>6 DEF Busy
  <1>9. Counted
    BY <1>2, <1>8, FS_EmptySet, BusyIsFinite DEF Counted
  <1>10. CompleteIsExact
    BY <1>2, <1>6 DEF CompleteIsExact
  <1> QED BY <1>5, <1>7, <1>9, <1>10 DEF PoolInv, Shape

LEMMA NextPool == PoolInv /\ [Next]_vars => PoolInv'
  <1> SUFFICES ASSUME PoolInv, [Next]_vars PROVE PoolInv'
    OBVIOUS
  <1>0. Shape /\ callbacks \in [Futures -> Seq(Callbacks)]
    BY DEF PoolInv, Shape, Typed
  <1>1. ASSUME NEW t \in Threads, Step(t) PROVE PoolInv'
    <2>1. CASE PoolStep(t) /\ UNCHANGED <<futureState, jobState>>
      <3>0. UNCHANGED callbacks
        BY <2>1 DEF futureState
      <3>1. CASE FinishTask(t)
        BY <3>0, <3>1, FinishKeepsPool
      <3>2. CASE WaitWorkComplete(t) \/ JoinWorkers(t)
        <4>1. Moves(t) /\ UNCHANGED poolState
          BY <3>2, <1>0, PoolMoves DEF WaitWorkComplete, JoinWorkers
        <4> QED BY <4>1, <3>0, <1>0, QuietPool
      <3>3. CASE Destroy(t)
        <4>1. Moves(t) /\ UNCHANGED <<tasks, complete, available>>
          BY <3>3, <1>0, PoolMoves DEF Destroy
        <4>2. /\ todo' \in [Threads -> Seq(Steps)] /\ Busy' = Busy
              /\ \A u \in Threads : Ends(todo[u], u)'
          BY <4>1, <1>0, MovesKeeps
        <4>3. Shape'
          BY <4>1, <4>2, <3>0, <1>0 DEF Shape, Typed
        <4>4. Counted'
          BY <4>1, <4>2 DEF PoolInv, Counted
        <4>5. (complete <=> tasks = <<>> /\ Busy = {})'
          BY <4>1, <4>2, CompleteMeans DEF PoolInv
        <4>6. CompleteIsExact'
          BY <4>5 DEF CompleteIsExact, Busy
        <4> QED BY <4>3, <4>4, <4>6 DEF PoolInv
      <3> QED BY <2>1, <3>1, <3>2, <3>3 DEF PoolStep
    <2>2. CASE FutureStep(t) /\ UNCHANGED jobState
      <3>1. Moves(t) /\ callbacks' \in [Futures -> Seq(Callbacks)]
        BY <2>2, <1>0, FutureMoves
      <3>2. UNCHANGED poolState
        BY <2>2 DEF FutureStep, FutureWait, Mark, SetErrorIfNeeded, Notify, AddCallback, CallThen,
                    CallAll, CheckCompleted, MakeDependent
      <3> QED BY <3>1, <3>2, QuietPool
    <2>3. CASE \/ ParallelFor(t) \/ RunInline(t) \/ RunChunk(t) \/ ChunkDone(t) \/ Join(t) \/ Joined(t)
               \/ Return(t) \/ CallFunc(t) \/ Fulfil(t)
      <3>1. Moves(t)
        BY <2>3, <1>0, JobMoves
      <3>2. UNCHANGED poolState /\ UNCHANGED futureState
        BY <2>3 DEF ParallelFor, RunInline, RunChunk, ChunkDone, Join, Joined, Return, CallFunc, Fulfil
      <3>3. UNCHANGED callbacks
        BY <3>2 DEF futureState
      <3> QED BY <3>1, <3>2, <3>3, <1>0, QuietPool
    <2>4. CASE Enqueue(t) \/ Launch(t)
      <3>1. Moves(t) /\ ((\E task \in Seq(Working) : Run(task)) \/ UNCHANGED poolState)
        BY <2>4, <1>0, RunMoves
      <3>2. UNCHANGED callbacks
        BY <2>4 DEF Enqueue, Launch, futureState
      <3>3. CASE UNCHANGED poolState
        BY <3>1, <3>2, <3>3, <1>0, QuietPool
      <3>4. CASE \E task \in Seq(Working) : Run(task)
        BY <3>1, <3>2, <3>4, RunKeepsPool
      <3> QED BY <3>1, <3>3, <3>4
    <2> QED BY <1>1, <2>1, <2>2, <2>3, <2>4 DEF Step
  <1>2. ASSUME NEW w \in Workers, Wake(w) PROVE PoolInv'
    BY <1>2, WakeKeepsPool DEF Wake, futureState
  <1>3. CASE (\E t \in Mains : SpuriousWakeUp(t)) \/ UNCHANGED vars
    <2>1. UNCHANGED <<poolState, todo, futureState>>
      BY <1>3 DEF SpuriousWakeUp, vars
    <2> QED BY <2>1 DEF PoolInv, Shape, Typed, Ends, Counted, Busy, CompleteIsExact, poolState, futureState
  <1> QED BY <1>1, <1>2, <1>3 DEF Next

(* ThreadPool::complete_ is true exactly when no task is queued or running, *)
(* so that waitWorkComplete neither returns early nor waits for nothing.    *)
THEOREM CompleteIsAlwaysExact == Spec => []CompleteIsExact
  <1>1. PoolInv => CompleteIsExact
    BY DEF PoolInv
  <1> QED BY <1>1, InitPool, NextPool, PTL DEF Spec

-----------------------------------------------------------------------------
(* parallel_for.  A step is a token: a call, a chunk or a function that is  *)
(* on a thread or in the queue.                                             *)
OnThread(P) == \E t \in Threads : \E n \in DOMAIN todo[t] : todo[t][n] \in P
InQueue(P)  == \E k \in DOMAIN tasks : \E n \in DOMAIN tasks[k] : tasks[k][n] \in P
Present(P)  == OnThread(P) \/ InQueue(P)

(* At most one place holds one of P *)
Single(P) ==
    /\ \A t, u \in Threads : \A n \in DOMAIN todo[t], k \in DOMAIN todo[u] :
          todo[t][n] \in P /\ todo[u][k] \in P => t = u /\ n = k
    /\ \A a, b \in DOMAIN tasks : \A n \in DOMAIN tasks[a], k \in DOMAIN tasks[b] :
          tasks[a][n] \in P /\ tasks[b][k] \in P => a = b /\ n = k
    /\ ~(OnThread(P) /\ InQueue(P))

CallToken(j)     == {<<"for", j>>, <<"inline", j>>, <<"return", j>>}
BegunToken(j)    == {<<"inline", j>>, <<"return", j>>}
ChunkToken(j, i) == {<<"enqueue", j, i>>, <<"chunk", j, i>>, <<"sub", j, i>>}
UnrunToken(j, i) == {<<"enqueue", j, i>>, <<"chunk", j, i>>}

(* The function of x is still to be called, or x itself *)
Starter(x) == {<<"for", x>>, <<"inline", x>>, <<"chunk", x, 0>>, <<"launch", x>>, <<"func", x>>}
CallOf(x)  == {<<"for", x>>, <<"launch", x>>}

UsesPool(j) == Size[j] > Grain[j] /\ Size[j] > 1
Slots(j)    == IF UsesPool(j) THEN 0 .. NumTasks(j) - 1 ELSE {}
Flight(j)   == {i \in Slots(j) : Present(ChunkToken(j, i))}
Begun(x)    == x \in returned \/ x \in made \cap Launched \/ Present(BegunToken(x))

(* Where the steps of a parallel_for may be.  The steps of a call that uses *)
(* the pool are on a thread of the program, outside of every chunk          *)
WellPlaced(line, t) ==
    \A n \in DOMAIN line :
        /\ line[n][1] \in {"enqueue", "chunk", "sub"} => line[n][3] \in Slots(line[n][2])
        /\ line[n][1] = "enqueue" => line[n][3] # 0
        /\ line[n][1] \in {"inline", "joined"} => n = 1
        /\ line[n][1] \in {"enqueue", "return"} \/ (line[n][1] = "chunk" /\ n > 1) =>
              t \in Mains /\ \A k \in DOMAIN line : k > n => line[k][1] # "sub"
        /\ line[n][1] = "return" /\ n > 1 =>
              line[n - 1] \in {<<"join", line[n][2]>>, <<"joined", line[n][2]>>}
        /\ line[n][1] \in {"join", "joined"} => n < Len(line) /\ line[n + 1] = <<"return", line[n][2]>>

Placed ==
    /\ \A t \in Threads : WellPlaced(todo[t], t)
    /\ \A a \in DOMAIN tasks : \A n \in DOMAIN tasks[a] :
          /\ tasks[a][n][1] \in {"chunk", "func", "mark"}
          /\ tasks[a][n][1] = "chunk" => n = 1 /\ tasks[a][n][3] \in Slots(tasks[a][n][2])

JobTyped ==
    /\ returned \subseteq Jobs
    /\ left \in [Jobs -> Int]
    /\ DOMAIN ran = Jobs /\ \A j \in Jobs : ran[j] \in [0 .. Size[j] - 1 -> Nat]

(* A call that has not begun, or whose function runs on the caller, has no  *)
(* chunk                                                                    *)
Fresh(j) ==
    ~Begun(j) \/ Present({<<"inline", j>>}) =>
        left[j] = 0 /\ Flight(j) = {} /\ \A x \in DOMAIN ran[j] : ran[j][x] = 0

(* A thread is past the wait of parallel_for *)
AfterJoin(j) ==
    \E t \in Threads \ asleep : todo[t] # <<>> /\ Head(todo[t]) \in {<<"joined", j>>, <<"return", j>>}

(* remaining counts the chunks that are not done, until parallel_for returns *)
LeftIsExact(j) ==
    /\ j \notin returned => left[j] = Cardinality(Flight(j))
    /\ j \in returned \ early => Flight(j) = {}
    /\ AfterJoin(j) /\ j \notin early => left[j] = 0

RanIsExact(j) ==
    /\ \A x \in DOMAIN ran[j] : ran[j][x] <= 1
    /\ \A i \in Slots(j) : Present(UnrunToken(j, i)) => \A x \in Chunk(j, i) : ran[j][x] = 0
    /\ j \notin eptr /\ (j \in returned \/ Present({<<"return", j>>})) =>
          \A x \in DOMAIN ran[j] :
              ran[j][x] = 1 \/ \E i \in Slots(j) : x \in Chunk(j, i) /\ Present(UnrunToken(j, i))

Tokens(j) ==
    /\ Single(CallToken(j)) /\ Single(Starter(j)) /\ \A i \in Slots(j) : Single(ChunkToken(j, i))
    /\ j \in returned => ~Present(CallToken(j))

JobInv(j) == Tokens(j) /\ Fresh(j) /\ LeftIsExact(j) /\ RanIsExact(j)

LaunchInv(f) ==
    /\ Single(Starter(f))
    /\ f \in made => ~Present({<<"launch", f>>})
    /\ f \notin made => ~Present({<<"func", f>>})

(* A call in the text of a function is made after the function started, and *)
(* the function starts once                                                 *)
Nested(x, z) ==
    (\E n \in DOMAIN Body[x] : Body[x][n] \in CallOf(z)) /\ (Begun(z) \/ Present(CallOf(z)))
        => Begun(x) /\ ~Present(Starter(x))

LoopInv ==
    /\ PoolInv /\ Placed /\ JobTyped
    /\ \A j \in Jobs : JobInv(j)
    /\ \A f \in Launched : LaunchInv(f)
    /\ \A x, z \in Jobs \cup Launched : Nested(x, z)

-----------------------------------------------------------------------------
(* What a step does to the tokens.  First the places of a thread after the  *)
(* head was replaced.                                                       *)
LEMMA NewPlaces ==
  ASSUME Shape, NEW t \in Threads, todo[t] # <<>>, NEW steps \in Seq(Working), Continue(t, steps)
  PROVE  /\ \A u \in Threads : u # t => todo'[u] = todo[u]
         /\ Len(steps) \in Nat /\ Len(todo[t]) \in Nat \ {0}
         /\ DOMAIN steps = 1 .. Len(steps) /\ DOMAIN todo[t] = 1 .. Len(todo[t])
         /\ Head(todo[t]) = todo[t][1]
         /\ DOMAIN todo'[t] = 1 .. Len(steps) + Len(todo[t]) - 1
         /\ \A n \in 1 .. Len(steps) : todo'[t][n] = steps[n]
         /\ \A n \in DOMAIN todo'[t] : n > Len(steps) =>
                /\ todo'[t][n] = todo[t][n - Len(steps) + 1]
                /\ n - Len(steps) + 1 \in DOMAIN todo[t] /\ n - Len(steps) + 1 # 1
         /\ \A n \in DOMAIN todo[t] : n # 1 =>
                n + Len(steps) - 1 \in DOMAIN todo'[t] /\ todo'[t][n + Len(steps) - 1] = todo[t][n]
         /\ Len(todo'[t]) = Len(steps) + Len(todo[t]) - 1
  <1> DEFINE line == steps \o Tail(todo[t])
  <1>1. todo' = [todo EXCEPT ![t] = line] /\ todo \in [Threads -> Seq(Steps)]
    BY DEF Continue, Shape, Typed
  <1>2. /\ line \in Seq(Steps) /\ Len(line) = Len(steps) + Len(todo[t]) - 1
        /\ Len(line) \in Nat /\ Len(steps) \in Nat /\ DOMAIN line = 1 .. Len(line)
        /\ \A n \in 1 .. Len(steps) : line[n] = steps[n] /\ steps[n] \in Working
        /\ \A n \in Len(steps) + 1 .. Len(line) :
              line[n] = todo[t][n - Len(steps) + 1] /\ n - Len(steps) + 1 \in 2 .. Len(todo[t])
    BY Replaced
  <1>3. Len(todo[t]) \in Nat \ {0} /\ DOMAIN todo[t] = 1 .. Len(todo[t]) /\ Head(todo[t]) = todo[t][1]
    BY HeadStep
  <1>4. DOMAIN steps = 1 .. Len(steps)
    BY LenProperties
  <1> HIDE DEF line
  <1>5. todo'[t] = line
    BY <1>1
  <1>6. ASSUME NEW n \in DOMAIN line, n > Len(steps)
        PROVE  /\ line[n] = todo[t][n - Len(steps) + 1]
               /\ n - Len(steps) + 1 \in DOMAIN todo[t] /\ n - Len(steps) + 1 # 1
    <2>1. n \in Len(steps) + 1 .. Len(line)
      BY <1>2, <1>6
    <2>2. line[n] = todo[t][n - Len(steps) + 1] /\ n - Len(steps) + 1 \in 2 .. Len(todo[t])
      BY <2>1, <1>2
    <2>3. n - Len(steps) + 1 \in 1 .. Len(todo[t]) /\ n - Len(steps) + 1 # 1
      BY <2>2, <1>3
    <2> QED BY <2>2, <2>3, <1>3
  <1>7. ASSUME NEW n \in DOMAIN todo[t], n # 1
        PROVE  n + Len(steps) - 1 \in DOMAIN line /\ line[n + Len(steps) - 1] = todo[t][n]
    <2> DEFINE k == n + Len(steps) - 1
    <2>0. n \in 2 .. Len(todo[t]) /\ Len(steps) \in Nat /\ Len(line) = Len(steps) + Len(todo[t]) - 1
      BY <1>2, <1>3, <1>7
    <2>1. k \in Len(steps) + 1 .. Len(line) /\ k - Len(steps) + 1 = n
      BY <2>0, <1>3
    <2>2. line[k] = todo[t][k - Len(steps) + 1]
      BY <2>1, <1>2
    <2>3. k \in DOMAIN line
      BY <2>1, <1>2
    <2> QED BY <2>1, <2>2, <2>3
  <1> QED BY <1>1, <1>2, <1>3, <1>4, <1>5, <1>6, <1>7

(* Where a token is after the head was replaced, and where it comes from *)
LEMMA ContinueTokens ==
  ASSUME Shape, NEW t \in Threads, todo[t] # <<>>, NEW steps \in Seq(Working), Continue(t, steps),
         tasks' = tasks, NEW P
  PROVE  /\ (\A n \in DOMAIN steps : steps[n] \notin P) =>
               /\ Present(P)' => Present(P)
               /\ Single(P) => Single(P)'
               /\ Single(P) /\ Head(todo[t]) \in P => ~Present(P)'
         /\ Head(todo[t]) \notin P /\ Present(P) => Present(P)'
         /\ (\E n \in DOMAIN steps : steps[n] \in P) => Present(P)'
         /\ /\ ~Present(P) \/ (Single(P) /\ Head(todo[t]) \in P)
            /\ \A n, k \in DOMAIN steps : steps[n] \in P /\ steps[k] \in P => n = k
            => Single(P)'
  <1> DEFINE L == Len(steps)
  <1>1. /\ \A u \in Threads : u # t => todo'[u] = todo[u]
        /\ L \in Nat /\ Len(todo[t]) \in Nat \ {0}
        /\ DOMAIN steps = 1 .. L /\ DOMAIN todo[t] = 1 .. Len(todo[t])
        /\ Head(todo[t]) = todo[t][1]
        /\ DOMAIN todo'[t] = 1 .. L + Len(todo[t]) - 1
        /\ \A n \in 1 .. L : todo'[t][n] = steps[n]
        /\ \A n \in DOMAIN todo'[t] : n > L =>
               /\ todo'[t][n] = todo[t][n - L + 1]
               /\ n - L + 1 \in DOMAIN todo[t] /\ n - L + 1 # 1
        /\ \A n \in DOMAIN todo[t] : n # 1 =>
               n + L - 1 \in DOMAIN todo'[t] /\ todo'[t][n + L - 1] = todo[t][n]
    BY NewPlaces
  <1> HIDE DEF L
  <1>2. InQueue(P)' <=> InQueue(P)
    BY DEF InQueue
  \* a place on a thread is new, or was there
  <1>3. ASSUME NEW u \in Threads, NEW n \in DOMAIN todo'[u], todo'[u][n] \in P,
               ~(u = t /\ n \in DOMAIN steps)
        PROVE  \E k \in DOMAIN todo[u] : /\ todo[u][k] \in P /\ ~(u = t /\ k = 1)
                                         /\ k = IF u = t THEN n - L + 1 ELSE n
    <2>1. CASE u # t
      BY <2>1, <1>1, <1>3
    <2>2. CASE u = t
      <3>1. n > L
        BY <2>2, <1>1, <1>3
      <3> QED BY <3>1, <2>2, <1>1, <1>3
    <2> QED BY <2>1, <2>2
  <1>4. ASSUME NEW u \in Threads, NEW k \in DOMAIN todo[u], todo[u][k] \in P, ~(u = t /\ k = 1)
        PROVE  OnThread(P)'
    <2>1. CASE u # t
      BY <2>1, <1>1, <1>4 DEF OnThread
    <2>2. CASE u = t
      BY <2>2, <1>1, <1>4 DEF OnThread
    <2> QED BY <2>1, <2>2
  <1>5. 1 \in DOMAIN todo[t]
    BY <1>1
  <1>6. ASSUME \A n \in DOMAIN steps : steps[n] \notin P
        PROVE  /\ OnThread(P)' => OnThread(P)
               /\ Single(P) => Single(P)'
               /\ Single(P) /\ Head(todo[t]) \in P => ~Present(P)'
    <2>1. ASSUME NEW u \in Threads, NEW n \in DOMAIN todo'[u], todo'[u][n] \in P
          PROVE  ~(u = t /\ n \in DOMAIN steps)
      BY <2>1, <1>1, <1>6
    <2>2. OnThread(P)' => OnThread(P)
      BY <1>3, <2>1 DEF OnThread
    <2>3. ASSUME Single(P) PROVE Single(P)'
      <3>1. ASSUME NEW u \in Threads, NEW v \in Threads, NEW n \in DOMAIN todo'[u], NEW k \in DOMAIN todo'[v],
                   todo'[u][n] \in P, todo'[v][k] \in P
            PROVE  u = v /\ n = k
        <4>1. PICK a \in DOMAIN todo[u] : todo[u][a] \in P /\ a = IF u = t THEN n - L + 1 ELSE n
          BY <3>1, <2>1, <1>3
        <4>2. PICK b \in DOMAIN todo[v] : todo[v][b] \in P /\ b = IF v = t THEN k - L + 1 ELSE k
          BY <3>1, <2>1, <1>3
        <4>3. u = v /\ a = b
          BY <2>3, <4>1, <4>2 DEF Single
        <4>4. u = t => n \in 1 .. L + Len(todo[t]) - 1 /\ k \in 1 .. L + Len(todo[t]) - 1
          BY <4>3, <1>1
        <4> QED BY <4>1, <4>2, <4>3, <4>4, <1>1
      <3>2. ~(OnThread(P) /\ InQueue(P))'
        BY <2>2, <2>3, <1>2 DEF Single
      <3>3. (\A a, b \in DOMAIN tasks : \A n \in DOMAIN tasks[a], k \in DOMAIN tasks[b] :
                tasks[a][n] \in P /\ tasks[b][k] \in P => a = b /\ n = k)'
        BY <2>3 DEF Single
      <3> QED BY <3>1, <3>2, <3>3 DEF Single
    <2>4. ASSUME Single(P), Head(todo[t]) \in P PROVE ~Present(P)'
      <3>1. OnThread(P) /\ ~InQueue(P)
        BY <2>4, <1>1, <1>5 DEF Single, OnThread
      <3>2. ASSUME OnThread(P)' PROVE FALSE
        <4>1. PICK u \in Threads : \E n \in DOMAIN todo'[u] : todo'[u][n] \in P
          BY <3>2 DEF OnThread
        <4>2. PICK k \in DOMAIN todo[u] : todo[u][k] \in P /\ ~(u = t /\ k = 1)
          BY <4>1, <2>1, <1>3
        <4> QED BY <4>2, <2>4, <1>1, <1>5 DEF Single
      <3> QED BY <3>1, <3>2, <1>2 DEF Present
    <2> QED BY <2>2, <2>3, <2>4
  <1>7. ASSUME Head(todo[t]) \notin P, Present(P) PROVE Present(P)'
    BY <1>1, <1>2, <1>4, <1>7 DEF Present, OnThread
  <1>8. ASSUME NEW n \in DOMAIN steps, steps[n] \in P PROVE Present(P)'
    <2>1. n \in DOMAIN todo'[t] /\ todo'[t][n] = steps[n]
      BY <1>1
    <2> QED BY <2>1, <1>8 DEF Present, OnThread
  <1>9. ASSUME ~Present(P) \/ (Single(P) /\ Head(todo[t]) \in P),
               \A n, k \in DOMAIN steps : steps[n] \in P /\ steps[k] \in P => n = k
        PROVE  Single(P)'
    <2>1. ~InQueue(P) /\ ~InQueue(P)'
      BY <1>1, <1>2, <1>5, <1>9 DEF Present, Single, OnThread
    <2>2. ASSUME NEW u \in Threads, NEW k \in DOMAIN todo[u], todo[u][k] \in P PROVE u = t /\ k = 1
      BY <2>2, <1>1, <1>5, <1>9 DEF Present, Single, OnThread
    <2>3. ASSUME NEW u \in Threads, NEW n \in DOMAIN todo'[u], todo'[u][n] \in P
          PROVE  u = t /\ n \in DOMAIN steps /\ steps[n] \in P
      <3>1. u = t /\ n \in DOMAIN steps
        BY <2>2, <2>3, <1>3
      <3> QED BY <3>1, <2>3, <1>1
    <2>4. ASSUME NEW u \in Threads, NEW v \in Threads, NEW n \in DOMAIN todo'[u], NEW k \in DOMAIN todo'[v],
                 todo'[u][n] \in P, todo'[v][k] \in P
          PROVE  u = v /\ n = k
      BY <2>3, <2>4, <1>9
    <2>5. (\A a, b \in DOMAIN tasks : \A n \in DOMAIN tasks[a], k \in DOMAIN tasks[b] :
              tasks[a][n] \in P /\ tasks[b][k] \in P => a = b /\ n = k)'
      BY <2>1 DEF InQueue
    <2> QED BY <2>1, <2>4, <2>5 DEF Single
  <1> QED BY <1>2, <1>6, <1>7, <1>8, <1>9 DEF Present

(* The head goes to the pool as a task. *)
LEMMA RunTokens ==
  ASSUME Shape, NEW t \in Threads, todo[t] # <<>>, Continue(t, <<>>),
         NEW task \in Seq(Working), tasks' = Append(tasks, task), NEW P
  PROVE  /\ (\A n \in DOMAIN task : task[n] \notin P) =>
               /\ Present(P)' => Present(P)
               /\ Single(P) => Single(P)'
               /\ Single(P) /\ Head(todo[t]) \in P => ~Present(P)'
         /\ Head(todo[t]) \notin P /\ Present(P) => Present(P)'
         /\ (\E n \in DOMAIN task : task[n] \in P) => Present(P)'
         /\ /\ ~Present(P) \/ (Single(P) /\ Head(todo[t]) \in P)
            /\ \A n, k \in DOMAIN task : task[n] \in P /\ task[k] \in P => n = k
            => Single(P)'
  <1> DEFINE M == Len(tasks)
  <1>1. /\ \A u \in Threads : u # t => todo'[u] = todo[u]
        /\ Len(todo[t]) \in Nat \ {0} /\ DOMAIN todo[t] = 1 .. Len(todo[t])
        /\ Head(todo[t]) = todo[t][1]
        /\ \A n \in DOMAIN todo'[t] : todo'[t][n] = todo[t][n + 1] /\ n + 1 \in DOMAIN todo[t] /\ n \in Nat \ {0}
        /\ \A n \in DOMAIN todo[t] : n # 1 => n - 1 \in DOMAIN todo'[t] /\ todo'[t][n - 1] = todo[t][n]
    <2>1. PICK steps \in Seq(Working) : steps = <<>> /\ Len(steps) = 0
      BY ShortLines
    <2>2. Continue(t, steps)
      BY <2>1
    <2>3. /\ \A u \in Threads : u # t => todo'[u] = todo[u]
          /\ Len(todo[t]) \in Nat \ {0} /\ DOMAIN todo[t] = 1 .. Len(todo[t])
          /\ Head(todo[t]) = todo[t][1] /\ DOMAIN todo'[t] = 1 .. Len(steps) + Len(todo[t]) - 1
          /\ \A n \in DOMAIN todo'[t] : n > Len(steps) =>
                 todo'[t][n] = todo[t][n - Len(steps) + 1] /\ n - Len(steps) + 1 \in DOMAIN todo[t]
          /\ \A n \in DOMAIN todo[t] : n # 1 =>
                 n + Len(steps) - 1 \in DOMAIN todo'[t] /\ todo'[t][n + Len(steps) - 1] = todo[t][n]
      BY <2>2, NewPlaces
    <2>4. DOMAIN todo'[t] = 1 .. Len(todo[t]) - 1
      BY <2>1, <2>3
    <2>5. ASSUME NEW n \in DOMAIN todo'[t]
          PROVE  todo'[t][n] = todo[t][n + 1] /\ n + 1 \in DOMAIN todo[t] /\ n \in Nat \ {0}
      <3>1. n > Len(steps) /\ n - Len(steps) + 1 = n + 1 /\ n \in Nat \ {0}
        BY <2>1, <2>3, <2>4
      <3>2. todo'[t][n] = todo[t][n - Len(steps) + 1] /\ n - Len(steps) + 1 \in DOMAIN todo[t]
        BY <2>3, <3>1
      <3> QED BY <3>1, <3>2
    <2>6. ASSUME NEW n \in DOMAIN todo[t], n # 1
          PROVE  n - 1 \in DOMAIN todo'[t] /\ todo'[t][n - 1] = todo[t][n]
      <3>1. n + Len(steps) - 1 = n - 1
        BY <2>1, <2>3
      <3>2. n + Len(steps) - 1 \in DOMAIN todo'[t] /\ todo'[t][n + Len(steps) - 1] = todo[t][n]
        BY <2>3, <2>6
      <3> QED BY <3>1, <3>2
    <2> QED BY <2>3, <2>5, <2>6
  <1>2. /\ tasks \in Seq(Seq(Working)) /\ M \in Nat /\ DOMAIN tasks = 1 .. M /\ DOMAIN tasks' = 1 .. M + 1
        /\ \A a \in 1 .. M : tasks'[a] = tasks[a]
        /\ tasks'[M + 1] = task
    <2>1. tasks \in Seq(Seq(Working))
      BY DEF Shape, Typed
    <2>2. /\ tasks' \in Seq(Seq(Working)) /\ Len(tasks') = M + 1
          /\ \A a \in 1 .. M : tasks'[a] = tasks[a]
          /\ tasks'[M + 1] = task
      BY <2>1, AppendProperties
    <2> QED BY <2>1, <2>2, LenProperties
  <1> HIDE DEF M
  <1>3. 1 \in DOMAIN todo[t] /\ M + 1 \in DOMAIN tasks' /\ \A a \in DOMAIN tasks : a \in DOMAIN tasks' /\ a # M + 1
    BY <1>1, <1>2
  <1>4. ASSUME NEW u \in Threads, NEW n \in DOMAIN todo'[u], todo'[u][n] \in P
        PROVE  \E k \in DOMAIN todo[u] : /\ todo[u][k] \in P /\ ~(u = t /\ k = 1)
                                         /\ k = IF u = t THEN n + 1 ELSE n
    BY <1>1, <1>4
  <1>5. ASSUME NEW u \in Threads, NEW k \in DOMAIN todo[u], todo[u][k] \in P, ~(u = t /\ k = 1)
        PROVE  OnThread(P)'
    BY <1>1, <1>5 DEF OnThread
  <1>6. ASSUME NEW a \in DOMAIN tasks' PROVE a = M + 1 \/ (a \in DOMAIN tasks /\ tasks'[a] = tasks[a])
    BY <1>2
  <1>7. InQueue(P)' <=> InQueue(P) \/ \E n \in DOMAIN task : task[n] \in P
    BY <1>2, <1>3, <1>6 DEF InQueue
  <1>8. OnThread(P)' => OnThread(P)
    BY <1>4 DEF OnThread
  <1>9. ASSUME \A n \in DOMAIN task : task[n] \notin P
        PROVE  Single(P) => Single(P)'
    <2> SUFFICES ASSUME Single(P) PROVE Single(P)'
      OBVIOUS
    <2>1. ASSUME NEW u \in Threads, NEW v \in Threads, NEW n \in DOMAIN todo'[u], NEW k \in DOMAIN todo'[v],
                 todo'[u][n] \in P, todo'[v][k] \in P
          PROVE  u = v /\ n = k
      <3>1. PICK a \in DOMAIN todo[u] : todo[u][a] \in P /\ a = IF u = t THEN n + 1 ELSE n
        BY <2>1, <1>4
      <3>2. PICK b \in DOMAIN todo[v] : todo[v][b] \in P /\ b = IF v = t THEN k + 1 ELSE k
        BY <2>1, <1>4
      <3>3. u = v /\ a = b
        BY <3>1, <3>2 DEF Single
      <3>4. u = t => n \in Nat /\ k \in Nat
        BY <3>3, <1>1
      <3> QED BY <3>1, <3>2, <3>3, <3>4
    <2>2. ASSUME NEW a \in DOMAIN tasks', NEW b \in DOMAIN tasks', NEW n \in DOMAIN tasks'[a], NEW k \in DOMAIN tasks'[b],
                 tasks'[a][n] \in P, tasks'[b][k] \in P
          PROVE  a = b /\ n = k
      <3>1. a # M + 1 /\ b # M + 1
        BY <2>2, <1>2, <1>9
      <3> QED BY <3>1, <2>2, <1>6 DEF Single
    <2>3. ~(OnThread(P) /\ InQueue(P))'
      BY <1>7, <1>8, <1>9 DEF Single
    <2> QED BY <2>1, <2>2, <2>3 DEF Single
  <1>10. ASSUME Single(P), Head(todo[t]) \in P PROVE ~OnThread(P)' /\ ~InQueue(P)
    <2>1. OnThread(P) /\ ~InQueue(P)
      BY <1>1, <1>3, <1>10 DEF Single, OnThread
    <2>2. ASSUME OnThread(P)' PROVE FALSE
      <3>1. PICK u \in Threads : \E n \in DOMAIN todo'[u] : todo'[u][n] \in P
        BY <2>2 DEF OnThread
      <3>2. PICK k \in DOMAIN todo[u] : todo[u][k] \in P /\ ~(u = t /\ k = 1)
        BY <3>1, <1>4
      <3> QED BY <3>2, <1>1, <1>3, <1>10 DEF Single
    <2> QED BY <2>1, <2>2
  <1>11. ASSUME Head(todo[t]) \notin P, Present(P) PROVE Present(P)'
    BY <1>1, <1>5, <1>7, <1>11 DEF Present, OnThread
  <1>12. ASSUME ~Present(P) \/ (Single(P) /\ Head(todo[t]) \in P),
                \A n, k \in DOMAIN task : task[n] \in P /\ task[k] \in P => n = k
         PROVE  Single(P)'
    <2>1. ~OnThread(P)' /\ ~InQueue(P)
      BY <1>8, <1>10, <1>12 DEF Present
    <2>2. ASSUME NEW a \in DOMAIN tasks', NEW n \in DOMAIN tasks'[a], tasks'[a][n] \in P
          PROVE  a = M + 1 /\ n \in DOMAIN task /\ task[n] \in P
      <3>1. a = M + 1
        BY <2>1, <2>2, <1>6 DEF InQueue
      <3> QED BY <3>1, <2>2, <1>2
    <2>3. ASSUME NEW a \in DOMAIN tasks', NEW b \in DOMAIN tasks', NEW n \in DOMAIN tasks'[a], NEW k \in DOMAIN tasks'[b],
                 tasks'[a][n] \in P, tasks'[b][k] \in P
          PROVE  a = b /\ n = k
      BY <2>2, <2>3, <1>12
    <2>4. (\A u, v \in Threads : \A n \in DOMAIN todo[u], k \in DOMAIN todo[v] :
              todo[u][n] \in P /\ todo[v][k] \in P => u = v /\ n = k)'
      BY <2>1 DEF OnThread
    <2> QED BY <2>1, <2>3, <2>4 DEF Single
  <1> QED BY <1>7, <1>8, <1>9, <1>10, <1>11, <1>12 DEF Present

(* A function throws: tokens are only dropped. *)
LEMMA ThrowTokens ==
  ASSUME Shape, NEW t \in Threads, todo[t] # <<>>, NEW d \in 1 .. Len(todo[t]), UnwoundBy(todo[t], d),
         todo' = [todo EXCEPT ![t] = Unwound(todo[t])], tasks' = tasks, NEW P
  PROVE  /\ Present(P)' => Present(P)
         /\ Single(P) => Single(P)'
         /\ Single(P) /\ Head(todo[t]) \in P => ~Present(P)'
         /\ Present(P) /\ (\A n \in 1 .. d : todo[t][n] \notin P) => Present(P)'
  <1>1. /\ \A u \in Threads : u # t => todo'[u] = todo[u]
        /\ todo'[t] = Unwound(todo[t])
    BY DEF Shape, Typed
  <1>2. /\ Len(todo[t]) \in Nat \ {0} /\ DOMAIN todo[t] = 1 .. Len(todo[t])
        /\ Head(todo[t]) = todo[t][1]
    BY HeadStep
  <1>3. /\ \A n \in DOMAIN todo'[t] : todo'[t][n] = todo[t][n + d] /\ n + d \in DOMAIN todo[t] /\ n \in Nat \ {0}
        /\ \A n \in DOMAIN todo[t] : n > d => n - d \in DOMAIN todo'[t] /\ todo'[t][n - d] = todo[t][n]
    <2>1. /\ DOMAIN todo'[t] = 1 .. Len(todo[t]) - d
          /\ \A n \in 1 .. Len(todo[t]) - d : todo'[t][n] = todo[t][n + d]
      BY <1>1 DEF UnwoundBy
    <2>2. ASSUME NEW n \in DOMAIN todo'[t] PROVE todo'[t][n] = todo[t][n + d] /\ n + d \in DOMAIN todo[t] /\ n \in Nat \ {0}
      BY <2>1, <1>2
    <2>3. ASSUME NEW n \in DOMAIN todo[t], n > d PROVE n - d \in DOMAIN todo'[t] /\ todo'[t][n - d] = todo[t][n]
      <3>1. n - d \in 1 .. Len(todo[t]) - d /\ (n - d) + d = n
        BY <2>3, <1>2
      <3>2. todo'[t][n - d] = todo[t][(n - d) + d]
        BY <3>1, <2>1
      <3> QED BY <3>1, <3>2, <2>1
    <2> QED BY <2>2, <2>3
  <1>4. 1 \in DOMAIN todo[t] /\ d \in Nat \ {0}
    BY <1>2
  <1>5. ASSUME NEW u \in Threads, NEW n \in DOMAIN todo'[u], todo'[u][n] \in P
        PROVE  \E k \in DOMAIN todo[u] : /\ todo[u][k] \in P /\ ~(u = t /\ k = 1)
                                         /\ k = IF u = t THEN n + d ELSE n
    <2>1. CASE u # t
      BY <2>1, <1>1, <1>5
    <2>2. CASE u = t
      BY <2>2, <1>3, <1>4, <1>5
    <2> QED BY <2>1, <2>2
  <1>6. OnThread(P)' => OnThread(P)
    BY <1>5 DEF OnThread
  <1>7. InQueue(P)' <=> InQueue(P)
    BY DEF InQueue
  <1>8. ASSUME Single(P) PROVE Single(P)'
    <2>1. ASSUME NEW u \in Threads, NEW v \in Threads, NEW n \in DOMAIN todo'[u], NEW k \in DOMAIN todo'[v],
                 todo'[u][n] \in P, todo'[v][k] \in P
          PROVE  u = v /\ n = k
      <3>1. PICK a \in DOMAIN todo[u] : todo[u][a] \in P /\ a = IF u = t THEN n + d ELSE n
        BY <2>1, <1>5
      <3>2. PICK b \in DOMAIN todo[v] : todo[v][b] \in P /\ b = IF v = t THEN k + d ELSE k
        BY <2>1, <1>5
      <3>3. u = v /\ a = b
        BY <3>1, <3>2, <1>8 DEF Single
      <3>4. u = t => n \in Nat /\ k \in Nat
        BY <3>3, <1>3
      <3> QED BY <3>1, <3>2, <3>3, <3>4, <1>4
    <2>2. (\A a, b \in DOMAIN tasks : \A n \in DOMAIN tasks[a], k \in DOMAIN tasks[b] :
              tasks[a][n] \in P /\ tasks[b][k] \in P => a = b /\ n = k)'
      BY <1>8 DEF Single
    <2>3. ~(OnThread(P) /\ InQueue(P))'
      BY <1>6, <1>7, <1>8 DEF Single
    <2> QED BY <2>1, <2>2, <2>3 DEF Single
  <1>9. ASSUME Single(P), Head(todo[t]) \in P PROVE ~Present(P)'
    <2>1. OnThread(P) /\ ~InQueue(P)
      BY <1>2, <1>4, <1>9 DEF Single, OnThread
    <2>2. ASSUME OnThread(P)' PROVE FALSE
      <3>1. PICK u \in Threads : \E n \in DOMAIN todo'[u] : todo'[u][n] \in P
        BY <2>2 DEF OnThread
      <3>2. PICK k \in DOMAIN todo[u] : todo[u][k] \in P /\ ~(u = t /\ k = 1)
        BY <3>1, <1>5
      <3> QED BY <3>2, <1>2, <1>4, <1>9 DEF Single
    <2> QED BY <2>1, <2>2, <1>7 DEF Present
  <1>10. ASSUME OnThread(P), \A n \in 1 .. d : todo[t][n] \notin P PROVE OnThread(P)'
    <2>1. PICK u \in Threads, k \in Nat : k \in DOMAIN todo[u] /\ todo[u][k] \in P
      <3>1. \A u \in Threads : DOMAIN todo[u] \subseteq Nat
        BY LenProperties DEF Shape, Typed
      <3> QED BY <3>1, <1>10 DEF OnThread
    <2>2. CASE u # t
      BY <2>1, <2>2, <1>1 DEF OnThread
    <2>3. CASE u = t
      <3>1. k > d
        BY <2>1, <2>3, <1>2, <1>10
      <3> QED BY <3>1, <2>1, <2>3, <1>3 DEF OnThread
    <2> QED BY <2>2, <2>3
  <1> QED BY <1>6, <1>7, <1>8, <1>9, <1>10 DEF Present

(* A worker takes the first task, or finds none.  Before, it had at most    *)
(* the end of its last task to do.                                          *)
Idle(w) == \A n \in DOMAIN todo[w] : todo[w][n] = Finish

LEMMA TakeTokens ==
  ASSUME Shape, NEW w \in Workers, Idle(w), tasks # <<>>, tasks' = Tail(tasks),
         todo' = [todo EXCEPT ![w] = Append(Head(tasks), Finish)], NEW P, Finish \notin P
  PROVE  /\ Present(P)' <=> Present(P)
         /\ Single(P) => Single(P)'
  <1> DEFINE task == Head(tasks)
             line == Append(task, Finish)
             L == Len(task)
  <1>1. /\ todo \in [Threads -> Seq(Steps)] /\ tasks \in Seq(Seq(Working)) /\ w \in Threads
    BY DEF Shape, Typed, Threads
  <1>2. /\ Len(tasks) \in Nat \ {0} /\ DOMAIN tasks = 1 .. Len(tasks) /\ task = tasks[1]
    BY <1>1, EmptySeq, LenProperties
  <1>3. /\ task \in Seq(Working) /\ Tail(tasks) \in Seq(Seq(Working)) /\ Len(Tail(tasks)) = Len(tasks) - 1
        /\ \A n \in 1 .. Len(Tail(tasks)) : Tail(tasks)[n] = tasks[n + 1]
    BY <1>1, HeadTailProperties
  <1>4. /\ DOMAIN line = 1 .. L + 1 /\ L \in Nat
        /\ \A n \in 1 .. L : line[n] = task[n]
        /\ line[L + 1] = Finish
    BY <1>3, TaskLine
  <1>5. DOMAIN task = 1 .. L
    BY <1>3, LenProperties
  <1>6. /\ \A u \in Threads : u # w => todo'[u] = todo[u]
        /\ todo'[w] = line
    BY <1>1
  <1>7. DOMAIN tasks' = 1 .. Len(tasks) - 1 /\ \A n \in DOMAIN tasks' : tasks'[n] = tasks[n + 1]
    BY <1>3, LenProperties
  <1> HIDE DEF task, line, L
  <1>8. 1 \in DOMAIN tasks
    BY <1>2
  \* where a token is now, and where it was
  <1>9. ASSUME NEW n \in DOMAIN todo'[w], todo'[w][n] \in P PROVE n \in DOMAIN tasks[1] /\ tasks[1][n] \in P
    BY <1>2, <1>4, <1>5, <1>6, <1>9
  <1>10. ASSUME NEW n \in DOMAIN tasks[1], tasks[1][n] \in P PROVE n \in DOMAIN todo'[w] /\ todo'[w][n] \in P
    <2>1. n \in 1 .. L /\ n \in 1 .. L + 1
      BY <1>2, <1>4, <1>5, <1>10
    <2> QED BY <2>1, <1>2, <1>4, <1>6, <1>10
  <1>11. ASSUME NEW a \in DOMAIN tasks' PROVE a + 1 \in DOMAIN tasks /\ a \in Nat \ {0} /\ tasks'[a] = tasks[a + 1]
    BY <1>2, <1>7
  <1>12. ASSUME NEW a \in DOMAIN tasks, a # 1 PROVE a - 1 \in DOMAIN tasks' /\ tasks'[a - 1] = tasks[a]
    <2>1. a - 1 \in DOMAIN tasks' /\ (a - 1) + 1 = a
      BY <1>2, <1>7, <1>12
    <2> QED BY <2>1, <1>7
  <1>13. ASSUME NEW u \in Threads, NEW n \in DOMAIN todo[u], todo[u][n] \in P PROVE u # w
    BY <1>13 DEF Idle
  <1>14. ASSUME Present(P)' PROVE Present(P)
    <2>1. CASE OnThread(P)'
      <3>1. PICK u \in Threads : \E n \in DOMAIN todo'[u] : todo'[u][n] \in P
        BY <2>1 DEF OnThread
      <3>2. CASE u = w
        BY <3>1, <3>2, <1>8, <1>9 DEF Present, InQueue
      <3>3. CASE u # w
        BY <3>1, <3>3, <1>6 DEF Present, OnThread
      <3> QED BY <3>2, <3>3
    <2>2. CASE InQueue(P)'
      BY <2>2, <1>11 DEF InQueue, Present
    <2> QED BY <2>1, <2>2, <1>14 DEF Present
  <1>15. ASSUME Present(P) PROVE Present(P)'
    <2>1. CASE OnThread(P)
      BY <2>1, <1>6, <1>13 DEF Present, OnThread
    <2>2. CASE InQueue(P)
      <3>1. PICK a \in DOMAIN tasks : \E n \in DOMAIN tasks[a] : tasks[a][n] \in P
        BY <2>2 DEF InQueue
      <3>2. CASE a = 1
        BY <3>1, <3>2, <1>1, <1>10 DEF Present, OnThread
      <3>3. CASE a # 1
        BY <3>1, <3>3, <1>12 DEF Present, InQueue
      <3> QED BY <3>2, <3>3
    <2> QED BY <2>1, <2>2, <1>15 DEF Present
  <1>16. ASSUME Single(P) PROVE Single(P)'
    <2>1. ASSUME NEW u \in Threads, NEW v \in Threads, NEW n \in DOMAIN todo'[u], NEW k \in DOMAIN todo'[v],
                 todo'[u][n] \in P, todo'[v][k] \in P
          PROVE  u = v /\ n = k
      <3>1. CASE u = w /\ v = w
        BY <2>1, <3>1, <1>8, <1>9, <1>16 DEF Single
      <3>2. CASE u # w /\ v # w
        BY <2>1, <3>2, <1>6, <1>16 DEF Single
      <3>3. CASE u = w <=> v # w
        <4>1. InQueue(P)
          BY <2>1, <3>3, <1>8, <1>9 DEF InQueue
        <4>2. OnThread(P)
          BY <2>1, <3>3, <1>6 DEF OnThread
        <4> QED BY <4>1, <4>2, <1>16 DEF Single
      <3> QED BY <3>1, <3>2, <3>3
    <2>2. ASSUME NEW a \in DOMAIN tasks', NEW b \in DOMAIN tasks', NEW n \in DOMAIN tasks'[a], NEW k \in DOMAIN tasks'[b],
                 tasks'[a][n] \in P, tasks'[b][k] \in P
          PROVE  a = b /\ n = k
      <3>1. /\ a + 1 \in DOMAIN tasks /\ a \in Nat \ {0} /\ tasks'[a] = tasks[a + 1]
            /\ b + 1 \in DOMAIN tasks /\ b \in Nat \ {0} /\ tasks'[b] = tasks[b + 1]
        BY <1>11
      <3>2. a + 1 = b + 1 /\ n = k
        BY <2>2, <3>1, <1>16 DEF Single
      <3> QED BY <3>1, <3>2
    <2>3. ASSUME OnThread(P)', InQueue(P)' PROVE FALSE
      <3>1. PICK a \in DOMAIN tasks' : \E n \in DOMAIN tasks'[a] : tasks'[a][n] \in P
        BY <2>3 DEF InQueue
      <3>2. a + 1 \in DOMAIN tasks /\ a + 1 # 1 /\ \E n \in DOMAIN tasks[a + 1] : tasks[a + 1][n] \in P
        BY <3>1, <1>11
      <3>3. PICK u \in Threads : \E n \in DOMAIN todo'[u] : todo'[u][n] \in P
        BY <2>3 DEF OnThread
      <3>4. CASE u = w
        BY <3>2, <3>3, <3>4, <1>8, <1>9, <1>16 DEF Single
      <3>5. CASE u # w
        BY <3>2, <3>3, <3>5, <1>6, <1>16 DEF Single, OnThread, InQueue
      <3> QED BY <3>4, <3>5
    <2> QED BY <2>1, <2>2, <2>3 DEF Single
  <1> QED BY <1>14, <1>15, <1>16

LEMMA IdleTokens ==
  ASSUME Shape, NEW w \in Workers, Idle(w), tasks' = tasks, todo' = [todo EXCEPT ![w] = <<>>],
         NEW P, Finish \notin P
  PROVE  /\ Present(P)' <=> Present(P)
         /\ Single(P) => Single(P)'
  <1>1. todo \in [Threads -> Seq(Steps)] /\ w \in Threads
    BY DEF Shape, Typed, Threads
  <1>2. todo'[w] = <<>> /\ \A u \in Threads : u # w => todo'[u] = todo[u]
    BY <1>1
  <1>3. \A u \in Threads : \A n \in DOMAIN todo'[u] : u # w /\ n \in DOMAIN todo[u] /\ todo'[u][n] = todo[u][n]
    BY <1>2
  <1>4. \A n \in DOMAIN todo[w] : todo[w][n] \notin P
    BY DEF Idle
  <1>5. OnThread(P)' <=> OnThread(P)
    <2>1. ASSUME OnThread(P) PROVE OnThread(P)'
      BY <2>1, <1>2, <1>4 DEF OnThread
    <2>2. ASSUME OnThread(P)' PROVE OnThread(P)
      BY <2>2, <1>3 DEF OnThread
    <2> QED BY <2>1, <2>2
  <1>6. InQueue(P)' <=> InQueue(P)
    BY DEF InQueue
  <1>7. ASSUME Single(P) PROVE Single(P)'
    BY <1>3, <1>5, <1>6, <1>7 DEF Single
  <1> QED BY <1>5, <1>6, <1>7 DEF Present

-----------------------------------------------------------------------------
(* What a step leaves alone.  A step is about a job or a launch if it is    *)
(* one of its tokens                                                        *)
Kinds == {"for", "inline", "enqueue", "chunk", "sub", "join", "joined", "return", "launch", "func"}
Foreign(s, z) == s[1] \in Kinds => s[2] # z

Lasting(z) ==
    {{<<"inline", z>>}, {<<"return", z>>}, BegunToken(z)}
        \cup {ChunkToken(z, i) : i \in Index} \cup {UnrunToken(z, i) : i \in Index}
Family(z) ==
    Lasting(z) \cup {CallToken(z), Starter(z), CallOf(z), {<<"launch", z>>}, {<<"func", z>>}}

(* No token of z is new, and none but calls are dropped *)
Quiet(z) ==
    /\ \A P \in Family(z) : (Present(P)' => Present(P)) /\ (Single(P) => Single(P)')
    /\ \A P \in Lasting(z) : Present(P) => Present(P)'

(* Thread t does its step, and steps come next, on t or in a task *)
Emits(t, steps) ==
    \/ Continue(t, steps) /\ tasks' = tasks
    \/ Continue(t, <<>>) /\ tasks' = Append(tasks, steps)

LEMMA ForeignTokens ==
  ASSUME NEW s \in Steps, NEW z, Foreign(s, z), NEW P \in Family(z)
  PROVE  s \notin P
  <1> SUFFICES ASSUME s \in P PROVE FALSE
    OBVIOUS
  <1>1. s[1] \in Kinds /\ s[2] = z
    <2>1. CASE P \in {{<<"inline", z>>}, {<<"return", z>>}, BegunToken(z), CallToken(z), Starter(z), CallOf(z),
                      {<<"launch", z>>}, {<<"func", z>>}}
      BY <2>1 DEF Kinds, BegunToken, CallToken, Starter, CallOf
    <2>2. ASSUME NEW i \in Index, P = ChunkToken(z, i) \/ P = UnrunToken(z, i) PROVE s[1] \in Kinds /\ s[2] = z
      BY <2>2 DEF Kinds, ChunkToken, UnrunToken
    <2> QED BY <2>1, <2>2 DEF Family, Lasting
  <1> QED BY <1>1 DEF Foreign

LEMMA EmitTokens ==
  ASSUME Shape, NEW t \in Threads, todo[t] # <<>>, NEW steps \in Seq(Working), Emits(t, steps), NEW P
  PROVE  /\ (\A n \in DOMAIN steps : steps[n] \notin P) =>
               /\ Present(P)' => Present(P)
               /\ Single(P) => Single(P)'
               /\ Single(P) /\ Head(todo[t]) \in P => ~Present(P)'
         /\ Head(todo[t]) \notin P /\ Present(P) => Present(P)'
         /\ (\E n \in DOMAIN steps : steps[n] \in P) => Present(P)'
         /\ /\ ~Present(P) \/ (Single(P) /\ Head(todo[t]) \in P)
            /\ \A n, k \in DOMAIN steps : steps[n] \in P /\ steps[k] \in P => n = k
            => Single(P)'
  <1>1. CASE Continue(t, steps) /\ tasks' = tasks
    BY <1>1, ContinueTokens
  <1>2. CASE Continue(t, <<>>) /\ tasks' = Append(tasks, steps)
    BY <1>2, RunTokens
  <1> QED BY <1>1, <1>2 DEF Emits

LEMMA EmitQuiet ==
  ASSUME Shape, NEW t \in Threads, todo[t] # <<>>, NEW steps \in Seq(Working), Emits(t, steps),
         NEW z, Foreign(Head(todo[t]), z), \A n \in DOMAIN steps : Foreign(steps[n], z)
  PROVE  Quiet(z)
  <1>1. Head(todo[t]) \in Steps /\ \A n \in DOMAIN steps : steps[n] \in Steps
    BY HeadStep, MakeSteps, LenProperties, ElementOfSeq
  <1>2. ASSUME NEW P \in Family(z)
        PROVE  (Present(P)' <=> Present(P)) /\ (Single(P) => Single(P)')
    <2>1. Head(todo[t]) \notin P /\ \A n \in DOMAIN steps : steps[n] \notin P
      BY <1>1, ForeignTokens
    <2> QED BY <2>1, EmitTokens
  <1> QED BY <1>2 DEF Quiet, Family

LEMMA WorkerQuiet ==
  ASSUME Shape, NEW w \in Workers, Idle(w), NEW z,
         \/ tasks # <<>> /\ tasks' = Tail(tasks) /\ todo' = [todo EXCEPT ![w] = Append(Head(tasks), Finish)]
         \/ tasks' = tasks /\ todo' = [todo EXCEPT ![w] = <<>>]
  PROVE  Quiet(z)
  <1>1. Finish \in Steps /\ Foreign(Finish, z)
    BY MakeSteps DEF Finish, Foreign, Kinds
  <1>2. ASSUME NEW P \in Family(z)
        PROVE  (Present(P)' <=> Present(P)) /\ (Single(P) => Single(P)')
    <2>1. Finish \notin P
      BY <1>1, ForeignTokens
    <2> QED BY <2>1, TakeTokens, IdleTokens
  <1> QED BY <1>2 DEF Quiet, Family

LEMMA StillQuiet ==
  ASSUME UNCHANGED <<todo, tasks>>, NEW z
  PROVE  Quiet(z)
  BY DEF Quiet, Present, OnThread, InQueue, Single

(* A function that throws drops calls, never a chunk or the end of a        *)
(* parallel_for: those are on threads of the program, outside of a chunk.   *)
LEMMA ThrowDrops ==
  ASSUME Shape, Placed, NEW t \in Threads, todo[t] # <<>>, Head(todo[t])[1] \in {"inline", "func"}
  PROVE  \E d \in 1 .. Len(todo[t]) :
            /\ UnwoundBy(todo[t], d)
            /\ \A n \in 2 .. d : todo[t][n][1] \notin {"inline", "return", "enqueue", "chunk", "sub"}
  <1> DEFINE s == todo[t]
  <1>1. PICK d \in 1 .. Len(s) : UnwoundBy(s, d)
    BY UnwoundIsSuffix
  <1>2. Len(s) \in Nat \ {0} /\ DOMAIN s = 1 .. Len(s) /\ \A n \in 1 .. Len(s) : s[n] \in Steps
    BY HeadStep, ElementOfSeq
  <1>3. WellPlaced(s, t) /\ Ends(s, t)
    BY DEF Placed, Shape
  <1> HIDE DEF s
  <1>4. ASSUME NEW n \in 2 .. d PROVE s[n][1] \notin {"inline", "return", "enqueue", "chunk", "sub"}
    <2>1. n \in 1 .. Len(s) /\ n > 1 /\ n # 1 /\ d # 1
      BY <1>2
    <2>2. s[n][1] \notin {"sub", "finish"} /\ s[n][1] # "inline"
      BY <1>1, <1>2, <1>3, <2>1 DEF UnwoundBy, WellPlaced
    <2>3. d < Len(s) /\ s[d + 1][1] \in {"sub", "finish"}
      BY <1>1, <2>1 DEF UnwoundBy
    <2>4. d + 1 \in 1 .. Len(s) /\ d + 1 > n
      BY <1>2, <2>3
    <2>5. ASSUME s[n][1] \in {"return", "enqueue", "chunk"} PROVE FALSE
      <3>1. t \in Mains /\ s[d + 1][1] # "sub"
        BY <1>2, <1>3, <2>1, <2>4, <2>5 DEF WellPlaced
      <3>2. s[d + 1] = Finish
        BY <1>2, <2>3, <2>4, <3>1, StepArgs
      <3>3. t \in Workers
        BY <1>2, <1>3, <2>4, <3>2 DEF Ends
      <3> QED BY <3>1, <3>3, ThreadPoolAssumption
    <2> QED BY <2>2, <2>5
  <1> QED BY <1>1, <1>4 DEF s

LEMMA ThrowKeeps ==
  ASSUME Shape, Placed, NEW t \in Threads, todo[t] # <<>>, Head(todo[t])[1] \in {"inline", "func"},
         todo' = [todo EXCEPT ![t] = Unwound(todo[t])], tasks' = tasks, NEW z
  PROVE  /\ \A P \in Family(z) : /\ Present(P)' => Present(P)
                                 /\ Single(P) => Single(P)'
                                 /\ Single(P) /\ Head(todo[t]) \in P => ~Present(P)'
         /\ \A P \in Lasting(z) : Head(todo[t]) \notin P /\ Present(P) => Present(P)'
  <1>1. PICK d \in 1 .. Len(todo[t]) :
            /\ UnwoundBy(todo[t], d)
            /\ \A n \in 2 .. d : todo[t][n][1] \notin {"inline", "return", "enqueue", "chunk", "sub"}
    BY ThrowDrops
  <1>2. ASSUME NEW P PROVE /\ Present(P)' => Present(P)
                           /\ Single(P) => Single(P)'
                           /\ Single(P) /\ Head(todo[t]) \in P => ~Present(P)'
                           /\ Present(P) /\ (\A n \in 1 .. d : todo[t][n] \notin P) => Present(P)'
    BY <1>1, ThrowTokens
  <1>3. ASSUME NEW P \in Lasting(z), Head(todo[t]) \notin P PROVE \A n \in 1 .. d : todo[t][n] \notin P
    <2>1. \A s \in P : s[1] \in {"inline", "return", "enqueue", "chunk", "sub"}
      <3>1. CASE P \in {{<<"inline", z>>}, {<<"return", z>>}, BegunToken(z)}
        BY <3>1 DEF BegunToken
      <3>2. ASSUME NEW i \in Index, P = ChunkToken(z, i) \/ P = UnrunToken(z, i)
            PROVE  \A s \in P : s[1] \in {"inline", "return", "enqueue", "chunk", "sub"}
        BY <3>2 DEF ChunkToken, UnrunToken
      <3> QED BY <3>1, <3>2 DEF Lasting
    <2>2. Head(todo[t]) = todo[t][1] /\ d \in Nat
      BY HeadStep
    <2>3. ASSUME NEW n \in 1 .. d PROVE todo[t][n] \notin P
      <3>1. n = 1 \/ n \in 2 .. d
        BY <2>2
      <3> QED BY <3>1, <2>1, <2>2, <1>1, <1>3
    <2> QED BY <2>3
  <1> QED BY <1>2, <1>3

LEMMA ThrowQuiet ==
  ASSUME Shape, Placed, NEW t \in Threads, todo[t] # <<>>, Head(todo[t])[1] \in {"inline", "func"},
         todo' = [todo EXCEPT ![t] = Unwound(todo[t])], tasks' = tasks, NEW z, Foreign(Head(todo[t]), z)
  PROVE  Quiet(z)
  <1>1. Head(todo[t]) \in Steps
    BY HeadStep
  <1>2. \A P \in Family(z) : Head(todo[t]) \notin P
    BY <1>1, ForeignTokens
  <1> QED BY <1>2, ThrowKeeps DEF Quiet, Family

(* Nobody comes past the wait of a job that the step is not about. *)
LEMMA JoinKept ==
  ASSUME NEW t \in Threads, NEW z, \A u \in Threads \ {t} : todo'[u] = todo[u],
         \A u \in asleep \ asleep' : todo[u] = <<>> \/ Head(todo[u]) \notin {<<"joined", z>>, <<"return", z>>},
         todo'[t] = <<>> \/ Head(todo'[t]) \notin {<<"joined", z>>, <<"return", z>>}
  PROVE  AfterJoin(z)' => AfterJoin(z)
  <1> SUFFICES ASSUME AfterJoin(z)' PROVE AfterJoin(z)
    OBVIOUS
  <1>1. PICK u \in Threads : u \notin asleep' /\ todo'[u] # <<>> /\ Head(todo'[u]) \in {<<"joined", z>>, <<"return", z>>}
    BY DEF AfterJoin
  <1>2. u # t /\ todo'[u] = todo[u]
    BY <1>1
  <1>3. u \notin asleep
    BY <1>1, <1>2
  <1> QED BY <1>1, <1>2, <1>3 DEF AfterJoin

(* The step at the head after the step is not past a wait of another job. *)
LEMMA NewHead ==
  ASSUME Shape, Placed, NEW t \in Threads, todo[t] # <<>>, NEW steps \in Seq(Working), Emits(t, steps),
         NEW z, Head(todo[t]) \notin {<<"join", z>>, <<"joined", z>>},
         \A n \in DOMAIN steps : steps[n] \notin {<<"joined", z>>, <<"return", z>>}
  PROVE  /\ todo'[t] = <<>> \/ Head(todo'[t]) \notin {<<"joined", z>>, <<"return", z>>}
         /\ \A u \in Threads \ {t} : todo'[u] = todo[u]
  <1>1. PICK line \in Seq(Working) : /\ Continue(t, line)
                                    /\ \A n \in DOMAIN line : line[n] \notin {<<"joined", z>>, <<"return", z>>}
    <2>1. CASE Continue(t, steps)
      BY <2>1
    <2>2. CASE Continue(t, <<>>)
      <3>1. PICK line \in Seq(Working) : line = <<>>
        BY ShortLines
      <3>2. Continue(t, line)
        BY <2>2, <3>1
      <3>3. DOMAIN line = {}
        BY <3>1
      <3> QED BY <3>2, <3>3
    <2> QED BY <2>1, <2>2 DEF Emits
  <1>2. /\ \A u \in Threads : u # t => todo'[u] = todo[u]
        /\ Len(line) \in Nat /\ Len(todo[t]) \in Nat \ {0}
        /\ DOMAIN line = 1 .. Len(line) /\ DOMAIN todo[t] = 1 .. Len(todo[t])
        /\ Head(todo[t]) = todo[t][1]
        /\ DOMAIN todo'[t] = 1 .. Len(line) + Len(todo[t]) - 1
        /\ \A n \in 1 .. Len(line) : todo'[t][n] = line[n]
        /\ \A n \in DOMAIN todo'[t] : n > Len(line) =>
               /\ todo'[t][n] = todo[t][n - Len(line) + 1]
               /\ n - Len(line) + 1 \in DOMAIN todo[t] /\ n - Len(line) + 1 # 1
    BY <1>1, NewPlaces
  <1>3. ASSUME todo'[t] # <<>>, Head(todo'[t]) \in {<<"joined", z>>, <<"return", z>>} PROVE FALSE
    <2>1. todo'[t] \in Seq(Steps)
      <3>1. todo' = [todo EXCEPT ![t] = line \o Tail(todo[t])] /\ todo \in [Threads -> Seq(Steps)]
        BY <1>1 DEF Continue, Shape, Typed
      <3>2. line \o Tail(todo[t]) \in Seq(Steps)
        BY Replaced
      <3> QED BY <3>1, <3>2
    <2>2. 1 \in DOMAIN todo'[t] /\ Head(todo'[t]) = todo'[t][1]
      BY <2>1, <1>3, EmptySeq, LenProperties
    <2>3. CASE Len(line) > 0
      <3>1. 1 \in DOMAIN line /\ todo'[t][1] = line[1]
        BY <2>3, <1>2
      <3> QED BY <3>1, <2>2, <1>1, <1>3
    <2>4. CASE Len(line) = 0
      <3>1. todo'[t][1] = todo[t][2] /\ 2 \in DOMAIN todo[t]
        BY <2>2, <2>4, <1>2
      <3>2. /\ todo[t][2][1] # "joined"
            /\ todo[t][2][1] = "return" => todo[t][2 - 1] \in {<<"join", todo[t][2][2]>>, <<"joined", todo[t][2][2]>>}
        <4>1. WellPlaced(todo[t], t)
          BY DEF Placed
        <4> QED BY <4>1, <3>1 DEF WellPlaced
      <3>3. todo[t][2] = <<"return", z>>
        BY <1>3, <2>2, <3>1, <3>2
      <3>4. todo[t][1] \in {<<"join", z>>, <<"joined", z>>}
        BY <3>2, <3>3
      <3> QED BY <3>4, <1>2
    <2> QED BY <2>3, <2>4, <1>2
  <1> QED BY <1>2, <1>3

LEMMA EmitJoin ==
  ASSUME Shape, Placed, NEW t \in Threads, todo[t] # <<>>, NEW steps \in Seq(Working), Emits(t, steps),
         NEW z, Head(todo[t]) \notin {<<"join", z>>, <<"joined", z>>},
         \A n \in DOMAIN steps : steps[n] \notin {<<"joined", z>>, <<"return", z>>},
         \A u \in asleep \ asleep' : todo[u] = <<>> \/ Head(todo[u]) \notin {<<"joined", z>>, <<"return", z>>}
  PROVE  AfterJoin(z)' => AfterJoin(z)
  BY NewHead, JoinKept

LEMMA ThrowJoin ==
  ASSUME Shape, Placed, NEW t \in Threads, todo[t] # <<>>, Head(todo[t])[1] \in {"inline", "func"},
         todo' = [todo EXCEPT ![t] = Unwound(todo[t])], asleep' = asleep, NEW z
  PROVE  AfterJoin(z)' => AfterJoin(z)
  <1>1. todo'[t] = Unwound(todo[t]) /\ \A u \in Threads \ {t} : todo'[u] = todo[u]
    BY DEF Shape, Typed
  <1>2. PICK d \in 1 .. Len(todo[t]) : UnwoundBy(todo[t], d)
    BY UnwoundIsSuffix
  <1>3. /\ Len(todo[t]) \in Nat \ {0} /\ DOMAIN todo[t] = 1 .. Len(todo[t])
        /\ Head(todo[t]) = todo[t][1]
    BY HeadStep
  <1>4. ASSUME todo'[t] # <<>> PROVE Head(todo'[t]) \notin {<<"joined", z>>, <<"return", z>>}
    <2>1. todo'[t] \in Seq(Steps) /\ Len(todo'[t]) = Len(todo[t]) - d /\ DOMAIN todo'[t] = 1 .. Len(todo[t]) - d
      BY <1>1, <1>2 DEF UnwoundBy
    <2>2. 1 \in DOMAIN todo'[t] /\ Head(todo'[t]) = todo'[t][1]
      BY <2>1, <1>4, EmptySeq, LenProperties
    <2>3. todo'[t][1] = todo[t][1 + d] /\ 1 + d \in DOMAIN todo[t]
      <3>1. 1 \in 1 .. Len(todo[t]) - d
        BY <2>1, <2>2
      <3>2. todo'[t][1] = todo[t][1 + d]
        BY <3>1, <1>1, <1>2 DEF UnwoundBy
      <3> QED BY <3>1, <3>2, <1>3
    <2>4. CASE todo[t][d + 1][1] \in {"sub", "finish"}
      <3>1. d + 1 = 1 + d
        BY <1>3
      <3> QED BY <3>1, <2>2, <2>3, <2>4
    <2>5. CASE d = 1
      <3>1. WellPlaced(todo[t], t) /\ 2 \in DOMAIN todo[t] /\ todo'[t][1] = todo[t][2]
        BY <2>3, <2>5 DEF Placed
      <3>2. /\ todo[t][2][1] # "joined"
            /\ todo[t][2][1] = "return" => todo[t][2 - 1] \in {<<"join", todo[t][2][2]>>, <<"joined", todo[t][2][2]>>}
        BY <3>1 DEF WellPlaced
      <3>3. todo[t][2] # <<"return", z>>
        BY <3>2, <1>3
      <3> QED BY <3>1, <3>2, <3>3, <2>2
    <2> QED BY <2>4, <2>5, <1>2 DEF UnwoundBy
  <1> QED BY <1>1, <1>4, JoinKept

LEMMA WorkerJoin ==
  ASSUME Shape, Placed, NEW w \in Workers, NEW z,
         \/ tasks # <<>> /\ tasks' = Tail(tasks) /\ todo' = [todo EXCEPT ![w] = Append(Head(tasks), Finish)]
         \/ tasks' = tasks /\ todo' = [todo EXCEPT ![w] = <<>>],
         \A u \in asleep \ asleep' : todo[u] = <<>> \/ Head(todo[u]) \notin {<<"joined", z>>, <<"return", z>>}
  PROVE  AfterJoin(z)' => AfterJoin(z)
  <1>1. todo \in [Threads -> Seq(Steps)] /\ tasks \in Seq(Seq(Working)) /\ w \in Threads
    BY DEF Shape, Typed, Threads
  <1>2. \A u \in Threads \ {w} : todo'[u] = todo[u]
    BY <1>1
  <1>3. ASSUME todo'[w] # <<>> PROVE Head(todo'[w]) \notin {<<"joined", z>>, <<"return", z>>}
    <2>1. tasks # <<>> /\ todo'[w] = Append(Head(tasks), Finish)
      BY <1>1, <1>3
    <2>2. Head(tasks) = tasks[1] /\ 1 \in DOMAIN tasks /\ Head(tasks) \in Seq(Working)
      BY <1>1, <2>1, EmptySeq, LenProperties, HeadTailProperties
    <2> DEFINE task == Head(tasks)
               line == Append(task, Finish)
    <2>3. /\ line \in Seq(Steps) /\ line # <<>> /\ Len(task) \in Nat
          /\ \A n \in 1 .. Len(task) : line[n] = task[n]
          /\ line[Len(task) + 1] = Finish
      BY <2>2, TaskLine
    <2>4. Head(line) = line[1]
      BY <2>3
    <2>5. DOMAIN task = 1 .. Len(task)
      BY <2>2, LenProperties
    <2> HIDE DEF task, line
    <2>6. CASE Len(task) = 0
      BY <2>1, <2>3, <2>4, <2>6 DEF Finish, line, task
    <2>7. CASE Len(task) > 0
      <3>1. 1 \in DOMAIN task /\ line[1] = task[1]
        BY <2>3, <2>5, <2>7
      <3>2. task[1][1] \in {"chunk", "func", "mark"}
        BY <3>1, <2>2 DEF Placed, task
      <3> QED BY <3>1, <3>2, <2>1, <2>4 DEF line, task
    <2> QED BY <2>3, <2>6, <2>7
  <1> QED BY <1>1, <1>2, <1>3, JoinKept

(* A notification wakes threads that wait for something else. *)
LEMMA WakesOthers ==
  ASSUME NEW z, NEW cv, cv \notin {<<"joined", z>>, <<"return", z>>},
         NotifyOne(cv) \/ NotifyAll(cv) \/ asleep \subseteq asleep' \/ asleep' = asleep
  PROVE  \A u \in asleep \ asleep' : todo[u] = <<>> \/ Head(todo[u]) \notin {<<"joined", z>>, <<"return", z>>}
  <1>1. asleep \ asleep' \subseteq Waiting(cv)
    <2>1. CASE NotifyOne(cv)
      BY <2>1 DEF NotifyOne, OneOf
    <2>2. CASE NotifyAll(cv)
      BY <2>2 DEF NotifyAll
    <2> QED BY <2>1, <2>2
  <1> QED BY <1>1 DEF Waiting

-----------------------------------------------------------------------------
(* The step is not about z *)
Frame(z) ==
    /\ Quiet(z)
    /\ (z \in returned' <=> z \in returned) /\ (z \in Launched => (z \in made' <=> z \in made))
    /\ z \in Jobs => /\ left'[z] = left[z] /\ ran'[z] = ran[z]
                     /\ (z \in early => z \in early') /\ (z \in eptr => z \in eptr')
                     /\ (AfterJoin(z)' => AfterJoin(z))

(* x stays begun, is not called again and does not start again *)
Calm(x) ==
    /\ Begun(x) => Begun(x)'
    /\ Begun(x)' \/ Present(CallOf(x))' => Begun(x) \/ Present(CallOf(x))
    /\ Present(Starter(x))' => Present(Starter(x))

Kept(z) == (z \in Jobs => JobInv(z)') /\ (z \in Launched => LaunchInv(z)')

LEMMA Members ==
  ASSUME NEW z
  PROVE  /\ {<<"inline", z>>} \in Lasting(z) /\ {<<"return", z>>} \in Lasting(z) /\ BegunToken(z) \in Lasting(z)
         /\ \A i \in Index : ChunkToken(z, i) \in Lasting(z) /\ UnrunToken(z, i) \in Lasting(z)
         /\ CallToken(z) \in Family(z) /\ Starter(z) \in Family(z) /\ CallOf(z) \in Family(z)
         /\ {<<"launch", z>>} \in Family(z) /\ {<<"func", z>>} \in Family(z)
         /\ Lasting(z) \subseteq Family(z)
  BY DEF Lasting, Family

LEMMA SlotsAreIndices ==
  ASSUME NEW j \in Jobs
  PROVE  /\ Slots(j) \subseteq Index /\ IsFiniteSet(Slots(j))
         /\ UsesPool(j) => NumTasks(j) \in Nat \ {0} /\ Cardinality(Slots(j)) = NumTasks(j) /\ 0 \in Slots(j)
  <1>1. CASE ~UsesPool(j)
    BY <1>1, FS_EmptySet DEF Slots
  <1>2. CASE UsesPool(j)
    <2>1. NumTasks(j) \in Nat \ {0} /\ Slots(j) = 0 .. NumTasks(j) - 1
      BY <1>2, ChunkNumbers DEF Slots, UsesPool
    <2>2. IsFiniteSet(Slots(j)) /\ Cardinality(Slots(j)) = NumTasks(j)
      BY <2>1, FS_Interval
    <2> QED BY <2>1, <2>2 DEF Index
  <1> QED BY <1>1, <1>2

LEMMA FlightIsFinite ==
  ASSUME NEW j \in Jobs
  PROVE  /\ IsFiniteSet(Flight(j)) /\ Cardinality(Flight(j)) \in Nat
         /\ Cardinality(Flight(j)) = 0 <=> Flight(j) = {}
  <1>1. IsFiniteSet(Flight(j))
    BY SlotsAreIndices, FS_Subset DEF Flight
  <1> QED BY <1>1, FS_CardinalityType, FS_EmptySet

(* What is true of the chunks and of the call stays true if the tokens and  *)
(* the variables of the job do.                                             *)
LEMMA SameJob ==
  ASSUME NEW z \in Jobs, JobInv(z), Tokens(z)', \A P \in Lasting(z) : Present(P)' <=> Present(P),
         z \in returned' <=> z \in returned, left'[z] = left[z], ran'[z] = ran[z],
         z \in early => z \in early', z \in eptr => z \in eptr',
         AfterJoin(z)' => AfterJoin(z) \/ left[z] = 0 \/ z \in early'
  PROVE  JobInv(z)' /\ (Begun(z)' <=> Begun(z))
  <1>1. /\ Present({<<"inline", z>>})' <=> Present({<<"inline", z>>})
        /\ Present({<<"return", z>>})' <=> Present({<<"return", z>>})
        /\ Present(BegunToken(z))' <=> Present(BegunToken(z))
        /\ \A i \in Index : Present(ChunkToken(z, i))' <=> Present(ChunkToken(z, i))
        /\ \A i \in Index : Present(UnrunToken(z, i))' <=> Present(UnrunToken(z, i))
    BY Members
  <1>2. Slots(z) \subseteq Index
    BY SlotsAreIndices
  <1>3. Flight(z)' = Flight(z)
    BY <1>1, <1>2 DEF Flight
  <1>4. z \notin Launched
    BY ParallelAssumption DEF Launched
  <1>5. Begun(z)' <=> Begun(z)
    BY <1>1, <1>4 DEF Begun
  <1>6. Fresh(z)'
    BY <1>1, <1>3, <1>5 DEF JobInv, Fresh
  <1>7. LeftIsExact(z)'
    BY <1>3 DEF JobInv, LeftIsExact
  <1>8. RanIsExact(z)'
    BY <1>1, <1>2 DEF JobInv, RanIsExact
  <1> QED BY <1>5, <1>6, <1>7, <1>8 DEF JobInv

LEMMA FrameKeeps ==
  ASSUME NEW z \in Jobs \cup Launched, Frame(z), z \in Jobs => JobInv(z), z \in Launched => LaunchInv(z)
  PROVE  Kept(z) /\ Calm(z)
  <1>1. \A P \in Family(z) : (Present(P)' => Present(P)) /\ (Single(P) => Single(P)')
    BY DEF Frame, Quiet
  <1>2. \A P \in Lasting(z) : Present(P)' <=> Present(P)
    BY <1>1, Members DEF Frame, Quiet
  <1>3. ASSUME z \in Jobs PROVE JobInv(z)'
    <2>1. Tokens(z)'
      <3>1. JobInv(z) /\ Tokens(z)
        BY <1>3 DEF JobInv
      <3>2. Single(CallToken(z))' /\ Single(Starter(z))' /\ \A i \in Slots(z) : Single(ChunkToken(z, i))'
        BY <1>1, <1>3, <3>1, Members, SlotsAreIndices DEF Tokens
      <3>3. z \in returned' => ~Present(CallToken(z))'
        BY <1>1, <3>1, Members DEF Tokens, Frame
      <3> QED BY <3>2, <3>3 DEF Tokens
    <2> QED BY <1>2, <1>3, <2>1, SameJob DEF Frame
  <1>4. ASSUME z \in Launched PROVE LaunchInv(z)'
    BY <1>1, <1>4, Members DEF LaunchInv, Frame
  <1>5. Calm(z)
    <2>1. Begun(z)' <=> Begun(z)
      BY <1>2, Members DEF Begun, Frame
    <2> QED BY <2>1, <1>1, Members DEF Calm
  <1> QED BY <1>3, <1>4, <1>5 DEF Kept

(* A function that started stays so, and does not start again *)
Started(x) == Begun(x) /\ ~Present(Starter(x))
StayStarted == \A x \in Jobs \cup Launched : Started(x) => Started(x)'

(* The invariant about the loops after the step *)
Preserved ==
    /\ Placed' /\ JobTyped' /\ \A z \in Jobs \cup Launched : Kept(z)
    /\ \A x, z \in Jobs \cup Launched : Nested(x, z)'
    /\ StayStarted

LEMMA AllCalm ==
  ASSUME \A x, z \in Jobs \cup Launched : Nested(x, z), \A x \in Jobs \cup Launched : Calm(x)
  PROVE  (\A x, z \in Jobs \cup Launched : Nested(x, z)') /\ StayStarted
  BY DEF Nested, Calm, StayStarted, Started

(* A token that is somewhere is a step, and a chunk has its number. *)
LEMMA TokenIsStep ==
  ASSUME Shape, Placed, NEW P, Present(P)
  PROVE  \E s \in P : /\ s \in Steps /\ Present({s})
                      /\ s[1] \in {"enqueue", "chunk", "sub"} => s[3] \in Slots(s[2])
  <1>1. CASE OnThread(P)
    <2>1. PICK t \in Threads : \E n \in DOMAIN todo[t] : todo[t][n] \in P
      BY <1>1 DEF OnThread
    <2>2. PICK n \in DOMAIN todo[t] : todo[t][n] \in P
      BY <2>1
    <2>3. todo[t][n] \in Steps
      BY LenProperties, ElementOfSeq DEF Shape, Typed
    <2>4. todo[t][n][1] \in {"enqueue", "chunk", "sub"} => todo[t][n][3] \in Slots(todo[t][n][2])
      BY DEF Placed, WellPlaced
    <2>5. Present({todo[t][n]})
      BY DEF Present, OnThread
    <2> QED BY <2>2, <2>3, <2>4, <2>5
  <1>2. CASE InQueue(P)
    <2>1. PICK a \in DOMAIN tasks : \E n \in DOMAIN tasks[a] : tasks[a][n] \in P
      BY <1>2 DEF InQueue
    <2>2. PICK n \in DOMAIN tasks[a] : tasks[a][n] \in P
      BY <2>1
    <2>3. tasks[a][n] \in Steps
      <3>1. tasks \in Seq(Seq(Working))
        BY DEF Shape, Typed
      <3>2. tasks[a] \in Seq(Working)
        BY <3>1, LenProperties, ElementOfSeq
      <3> QED BY <3>2, LenProperties, ElementOfSeq, MakeSteps
    <2>4. /\ tasks[a][n][1] \in {"chunk", "func", "mark"}
          /\ tasks[a][n][1] = "chunk" => tasks[a][n][3] \in Slots(tasks[a][n][2])
      BY DEF Placed
    <2>5. Present({tasks[a][n]})
      BY DEF Present, InQueue
    <2> QED BY <2>2, <2>3, <2>4, <2>5
  <1> QED BY <1>1, <1>2 DEF Present

LEMMA MorePresent ==
  ASSUME NEW P, NEW Q, P \subseteq Q, Present(P)
  PROVE  Present(Q)
  BY DEF Present, OnThread, InQueue

(* Jobs and launches are told apart. *)
LEMMA Apart ==
  ASSUME NEW s \in Steps, NEW z
  PROVE  /\ z \in Jobs /\ s[2] = z => s[1] \notin {"launch", "func"}
         /\ z \in Launched /\ s[2] = z =>
                s[1] \notin {"for", "inline", "enqueue", "chunk", "sub", "join", "joined", "return", "make"}
  <1>1. Launched \subseteq Futures /\ Jobs \cap Futures = {}
    BY ParallelAssumption DEF Launched
  <1>2. s[1] = "make" => s[2] \notin Launched
    <2>1. \A f \in Launched : Kind[f] = "launch"
      BY DEF Launched
    <2>2. s[1] = "make" => s \in {"make"} \X {f \in Futures : Kind[f] \in {"then", "all"}}
      BY DEF Steps, Working, CallSteps, Finish
    <2> QED BY <2>1, <2>2
  <1>3. s[1] \in {"launch", "func"} => s[2] \in Launched
    BY StepArgs
  <1>4. s[1] \in {"for", "inline", "join", "joined", "return", "enqueue", "chunk", "sub"} => s[2] \in Jobs
    BY StepArgs
  <1> QED BY <1>1, <1>2, <1>3, <1>4

LEMMA NotStarted ==
  ASSUME LoopInv, NEW z \in Jobs \cup Launched, ~Begun(z), ~Present(CallOf(z))
  PROVE  /\ ~Present(Starter(z)) /\ (z \in Launched => z \notin made)
         /\ z \in Jobs => ~Present(CallToken(z)) /\ z \notin returned
  <1>1. Shape /\ Placed
    BY DEF LoopInv, PoolInv
  <1>2. z \notin returned /\ (z \in Launched => z \notin made)
    BY DEF Begun
  <1>3. /\ ~Present({<<"inline", z>>}) /\ ~Present({<<"return", z>>})
    BY MorePresent DEF Begun, BegunToken
  <1>4. ~Present({<<"for", z>>}) /\ ~Present({<<"launch", z>>})
    BY MorePresent DEF CallOf
  <1>5. ASSUME Present(Starter(z)) PROVE FALSE
    <2>1. PICK s \in Starter(z) : /\ s \in Steps /\ Present({s})
                                  /\ s[1] \in {"enqueue", "chunk", "sub"} => s[3] \in Slots(s[2])
      BY <1>1, <1>5, TokenIsStep
    <2>2. s = <<"chunk", z, 0>> \/ s = <<"func", z>>
      BY <2>1, <1>3, <1>4 DEF Starter
    <2>3. CASE s = <<"chunk", z, 0>>
      <3>1. s[1] = "chunk" /\ s[2] = z /\ s[3] = 0
        BY <2>3
      <3>2. z \in Jobs /\ 0 \in Slots(z)
        BY <2>1, <3>1, Apart
      <3>3. Present(ChunkToken(z, 0))
        BY <2>1, <2>3, MorePresent DEF ChunkToken
      <3>4. Flight(z) = {}
        BY <3>2 DEF LoopInv, JobInv, Fresh
      <3> QED BY <3>2, <3>3, <3>4 DEF Flight
    <2>4. CASE s = <<"func", z>>
      <3>1. s[1] = "func" /\ s[2] = z
        BY <2>4
      <3>2. z \in Launched
        BY <2>1, <3>1, Apart
      <3> QED BY <2>1, <2>4, <3>2, <1>2 DEF LoopInv, LaunchInv
    <2> QED BY <2>2, <2>3, <2>4
  <1>6. ASSUME Present(CallToken(z)) PROVE FALSE
    <2>1. PICK s \in CallToken(z) : s \in Steps /\ Present({s})
      BY <1>1, <1>6, TokenIsStep
    <2> QED BY <2>1, <1>3, <1>4 DEF CallToken
  <1> QED BY <1>2, <1>5, <1>6

(* The calls in the text of a function. *)
LEMMA BodyCalls ==
  ASSUME NEW x \in Jobs \cup Launched, NEW n \in DOMAIN Body[x]
  PROVE  /\ Body[x][n] \in CallSteps /\ Body[x][n] \in Steps
         /\ Body[x][n][1] \in {"for", "launch", "wait", "make", "fulfil", "complete", "destroy"}
         /\ \A z \in Jobs \cup Launched : ~Foreign(Body[x][n], z) =>
               Body[x][n] \in CallOf(z) /\ Body[x][n] = IF z \in Jobs THEN <<"for", z>> ELSE <<"launch", z>>
         /\ \A z : Body[x][n] \in CallOf(z) => ~Foreign(Body[x][n], z) /\ Body[x][n][1] \in Once
  <1> DEFINE s == Body[x][n]
  <1>1. s \in CallSteps
    <2>1. Body[x] \in Seq(CallSteps)
      BY ParallelAssumption
    <2> QED BY <2>1, LenProperties, ElementOfSeq
  <1>2. s \in Steps
    BY <1>1, MakeSteps
  <1> HIDE DEF s
  <1>3. s[1] \in {"for", "launch", "wait", "make", "fulfil", "complete", "destroy"}
    BY <1>1 DEF CallSteps
  <1>4. ASSUME NEW z \in Jobs \cup Launched, ~Foreign(s, z)
        PROVE  s \in CallOf(z) /\ s = IF z \in Jobs THEN <<"for", z>> ELSE <<"launch", z>>
    <2>1. s[1] \in {"for", "launch"} /\ s[2] = z
      BY <1>3, <1>4 DEF Foreign, Kinds
    <2>2. s = <<s[1], s[2]>>
      BY <2>1, <1>2, StepArgs
    <2>3. z \in Jobs => s[1] = "for"
      BY <2>1, <1>2, Apart
    <2>4. z \in Launched => s[1] = "launch"
      BY <2>1, <1>2, Apart
    <2> QED BY <2>1, <2>2, <2>3, <2>4 DEF CallOf
  <1>5. ASSUME NEW z, s \in CallOf(z) PROVE ~Foreign(s, z) /\ s[1] \in Once
    BY <1>5 DEF CallOf, Foreign, Kinds, Once
  <1> QED BY <1>1, <1>2, <1>3, <1>4, <1>5 DEF s

LEMMA OneCall ==
  ASSUME NEW x \in Jobs \cup Launched, NEW y \in Jobs \cup Launched, NEW n \in DOMAIN Body[x], NEW k \in DOMAIN Body[y],
         NEW z \in Jobs \cup Launched, ~Foreign(Body[x][n], z), ~Foreign(Body[y][k], z)
  PROVE  x = y /\ n = k
  <1>1. Body[x][n] = Body[y][k] /\ Body[x][n][1] \in Once
    <2>1. Body[x][n] \in CallOf(z) /\ Body[x][n] = IF z \in Jobs THEN <<"for", z>> ELSE <<"launch", z>>
      BY BodyCalls
    <2>2. Body[y][k] = IF z \in Jobs THEN <<"for", z>> ELSE <<"launch", z>>
      BY BodyCalls
    <2>3. Body[x][n][1] \in Once
      BY <2>1, BodyCalls
    <2> QED BY <2>1, <2>2, <2>3
  <1>2. DOMAIN Body = Jobs \cup Launched
    BY ParallelAssumption
  <1> QED BY <1>1, <1>2, ParallelAssumption

(* The step at the head of t is not about z, nor is what it puts in front. *)
LEMMA EmitFrame ==
  ASSUME Shape, Placed, NEW t \in Threads, todo[t] # <<>>, NEW steps \in Seq(Working), Emits(t, steps),
         NEW z, Foreign(Head(todo[t]), z), \A n \in DOMAIN steps : Foreign(steps[n], z),
         \A u \in asleep \ asleep' : todo[u] = <<>> \/ Head(todo[u]) \notin {<<"joined", z>>, <<"return", z>>},
         (z \in returned' <=> z \in returned), z \in Launched => (z \in made' <=> z \in made),
         z \in Jobs => /\ left'[z] = left[z] /\ ran'[z] = ran[z]
                       /\ (z \in early => z \in early') /\ (z \in eptr => z \in eptr')
  PROVE  Frame(z)
  <1>1. Quiet(z)
    BY EmitQuiet
  <1>2. Head(todo[t]) \notin {<<"join", z>>, <<"joined", z>>}
    BY DEF Foreign, Kinds
  <1>3. \A n \in DOMAIN steps : steps[n] \notin {<<"joined", z>>, <<"return", z>>}
    BY DEF Foreign, Kinds
  <1>4. AfterJoin(z)' => AfterJoin(z)
    BY <1>2, <1>3, EmitJoin
  <1> QED BY <1>1, <1>4 DEF Frame

(* A function starts: the calls in its text come next, for the first time.  *)
LEMMA SpawnKeeps ==
  ASSUME LoopInv, NEW t \in Threads, todo[t] # <<>>, NEW steps \in Seq(Working), Emits(t, steps),
         NEW x \in Jobs \cup Launched, Head(todo[t]) \in Starter(x), Begun(x),
         \A n \in DOMAIN steps : (n \in DOMAIN Body[x] /\ steps[n] = Body[x][n]) \/ steps[n][2] = x,
         asleep' = asleep, made' = made,
         \A z \in (Jobs \cup Launched) \ {x} :
            /\ z \in returned' <=> z \in returned
            /\ z \in Jobs => /\ left'[z] = left[z] /\ ran'[z] = ran[z]
                             /\ (z \in early => z \in early') /\ (z \in eptr => z \in eptr'),
         Kept(x), Calm(x), Begun(x)', ~Present(Starter(x))'
  PROVE  /\ \A z \in Jobs \cup Launched : Kept(z)
         /\ \A y, z \in Jobs \cup Launched : Nested(y, z)'
         /\ StayStarted
  <1> DEFINE Called(z) == \E n \in DOMAIN Body[x] : ~Foreign(Body[x][n], z)
  <1>1. Shape /\ Placed
    BY DEF LoopInv, PoolInv
  <1>2. /\ Head(todo[t]) \in Steps /\ Head(todo[t]) = todo[t][1] /\ 1 \in DOMAIN todo[t]
        /\ \A n \in DOMAIN steps : steps[n] \in Steps
    BY <1>1, HeadStep, MakeSteps, LenProperties, ElementOfSeq
  <1>3. Present(Starter(x)) /\ Head(todo[t])[2] = x
    <2>1. Present(Starter(x))
      BY <1>2 DEF Present, OnThread
    <2>2. Head(todo[t])[2] = x
      BY DEF Starter
    <2> QED BY <2>1, <2>2
  <1>4. \A u \in asleep \ asleep' : FALSE
    OBVIOUS
  <1>5. ASSUME NEW z \in Jobs \cup Launched, z # x, ~Called(z) PROVE Kept(z) /\ Calm(z)
    <2>1. Foreign(Head(todo[t]), z)
      BY <1>3, <1>5 DEF Foreign
    <2>2. \A n \in DOMAIN steps : Foreign(steps[n], z)
      BY <1>5 DEF Foreign
    <2>3. Frame(z)
      BY <1>1, <1>4, <1>5, <2>1, <2>2, EmitFrame
    <2>4. (z \in Jobs => JobInv(z)) /\ (z \in Launched => LaunchInv(z))
      BY DEF LoopInv
    <2> QED BY <2>3, <2>4, FrameKeeps
  <1>6. ASSUME NEW z \in Jobs \cup Launched, Called(z) PROVE ~Begun(z) /\ Kept(z) /\ z # x
    <2>1. PICK m \in DOMAIN Body[x] : ~Foreign(Body[x][m], z)
      BY <1>6
    <2>2. Body[x][m] \in CallOf(z)
      BY <2>1, BodyCalls
    <2>3. ~Begun(z) /\ ~Present(CallOf(z))
      BY <2>2, <1>3 DEF LoopInv, Nested
    <2>4. z # x
      BY <2>3
    <2>5. /\ ~Present(Starter(z)) /\ (z \in Launched => z \notin made)
          /\ z \in Jobs => ~Present(CallToken(z)) /\ z \notin returned
      BY <2>3, NotStarted
    <2>6. ASSUME NEW n \in DOMAIN steps, ~Foreign(steps[n], z)
          PROVE  n = m /\ steps[n] = IF z \in Jobs THEN <<"for", z>> ELSE <<"launch", z>>
      <3>1. n \in DOMAIN Body[x] /\ steps[n] = Body[x][n]
        BY <2>4, <2>6 DEF Foreign
      <3> QED BY <3>1, <2>1, <2>6, OneCall, BodyCalls
    <2>7. ASSUME NEW n \in DOMAIN steps, NEW P \in Lasting(z) \cup {{<<"func", z>>}} PROVE steps[n] \notin P
      <3>1. CASE Foreign(steps[n], z)
        BY <3>1, <1>2, ForeignTokens, Members
      <3>2. CASE ~Foreign(steps[n], z)
        <4>1. steps[n][1] \in {"for", "launch"}
          BY <3>2, <2>6
        <4>2. CASE P \in {{<<"inline", z>>}, {<<"return", z>>}, BegunToken(z), {<<"func", z>>}}
          BY <4>1, <4>2 DEF BegunToken
        <4>3. ASSUME NEW i \in Index, P = ChunkToken(z, i) \/ P = UnrunToken(z, i) PROVE steps[n] \notin P
          BY <4>1, <4>3 DEF ChunkToken, UnrunToken
        <4> QED BY <4>2, <4>3 DEF Lasting
      <3> QED BY <3>1, <3>2
    <2>8. ASSUME NEW P \in Family(z) PROVE Head(todo[t]) \notin P
      BY <1>2, <1>3, <2>4, ForeignTokens DEF Foreign
    <2>9. ASSUME NEW P \in Family(z), ~Present(P) PROVE Single(P)'
      <3>1. \A n, k \in DOMAIN steps : steps[n] \in P /\ steps[k] \in P => n = k
        BY <2>6, <1>2, ForeignTokens
      <3> QED BY <3>1, <2>9, <1>1, EmitTokens
    <2>10. ASSUME NEW P \in Lasting(z) \cup {{<<"func", z>>}}
           PROVE  (Present(P)' <=> Present(P)) /\ (Single(P) => Single(P)')
      BY <2>7, <2>8, <1>1, EmitTokens, Members
    <2>11. ASSUME z \in Jobs PROVE JobInv(z)'
      <3>1. JobInv(z) /\ Tokens(z)
        BY <2>11 DEF LoopInv, JobInv
      <3>2. Single(CallToken(z))' /\ Single(Starter(z))'
        BY <2>5, <2>9, <2>11, Members
      <3>3. \A i \in Slots(z) : Single(ChunkToken(z, i))'
        BY <2>10, <2>11, <3>1, Members, SlotsAreIndices DEF Tokens
      <3>4. z \notin returned'
        BY <2>4, <2>5, <2>11
      <3>5. Tokens(z)'
        BY <3>2, <3>3, <3>4 DEF Tokens
      <3>6. AfterJoin(z)' => AfterJoin(z)
        <4>1. Head(todo[t]) \notin {<<"join", z>>, <<"joined", z>>}
          BY <1>3, <2>4
        <4>2. ASSUME NEW n \in DOMAIN steps PROVE steps[n] \notin {<<"joined", z>>, <<"return", z>>}
          <5>1. CASE Foreign(steps[n], z)
            BY <5>1 DEF Foreign, Kinds
          <5>2. CASE ~Foreign(steps[n], z)
            BY <5>2, <2>6
          <5> QED BY <5>1, <5>2
        <4> QED BY <4>1, <4>2, <1>1, <1>4, EmitJoin
      <3> QED BY <3>1, <3>5, <3>6, <2>4, <2>10, <2>11, SameJob
    <2>12. ASSUME z \in Launched PROVE LaunchInv(z)'
      <3>1. Single(Starter(z))' /\ z \notin made'
        BY <2>5, <2>9, <2>12, Members
      <3>2. ~Present({<<"func", z>>})'
        BY <2>5, <2>10, <2>12 DEF LoopInv, LaunchInv
      <3> QED BY <3>1, <3>2 DEF LaunchInv
    <2> QED BY <2>3, <2>4, <2>11, <2>12 DEF Kept
  <1>7. ASSUME NEW z \in Jobs \cup Launched PROVE Kept(z)
    BY <1>5, <1>6
  <1>8. ASSUME NEW y \in Jobs \cup Launched, NEW z \in Jobs \cup Launched PROVE Nested(y, z)'
    <2> SUFFICES ASSUME NEW n \in DOMAIN Body[y], Body[y][n] \in CallOf(z), Begun(z)' \/ Present(CallOf(z))'
                 PROVE  Begun(y)' /\ ~Present(Starter(y))'
      BY DEF Nested
    <2>1. ~Foreign(Body[y][n], z)
      BY BodyCalls
    <2>2. CASE Called(z)
      <3>1. y = x
        BY <2>1, <2>2, OneCall
      <3> QED BY <3>1
    <2>3. CASE ~Called(z)
      <3>1. Calm(z)
        BY <2>3, <1>5
      <3>2. Begun(z) \/ Present(CallOf(z))
        BY <3>1 DEF Calm
      <3>3. Begun(y) /\ ~Present(Starter(y))
        BY <3>2 DEF LoopInv, Nested
      <3>4. Calm(y)
        BY <3>3, <1>5, <1>6
      <3> QED BY <3>3, <3>4 DEF Calm
    <2> QED BY <2>2, <2>3
  <1>9. ASSUME NEW y \in Jobs \cup Launched, Started(y) PROVE Started(y)'
    <2>1. y # x /\ ~Called(y)
      BY <1>3, <1>6, <1>9 DEF Started
    <2> QED BY <1>5, <1>9, <2>1 DEF Calm, Started
  <1> QED BY <1>7, <1>8, <1>9 DEF StayStarted

-----------------------------------------------------------------------------
(* Where the steps of a parallel_for are after a step. *)
LEMMA ContinuePlaced ==
  ASSUME Shape, Placed, NEW t \in Threads, todo[t] # <<>>, NEW steps \in Seq(Working), Continue(t, steps),
         \A n \in DOMAIN steps :
            /\ steps[n][1] \in {"enqueue", "chunk", "sub"} => steps[n][3] \in Slots(steps[n][2])
            /\ steps[n][1] = "enqueue" => steps[n][3] # 0
            /\ steps[n][1] \in {"inline", "joined"} => n = 1
            /\ steps[n][1] \in {"enqueue", "chunk", "return"} =>
                  /\ t \in Mains
                  /\ \A k \in DOMAIN steps : steps[k][1] # "sub"
                  /\ \A k \in DOMAIN todo[t] : todo[t][k][1] # "sub"
            /\ steps[n][1] = "return" => n > 1 /\ steps[n - 1] = <<"join", steps[n][2]>>
            /\ steps[n][1] \in {"join", "joined"} =>
                  \/ n < Len(steps) /\ steps[n + 1] = <<"return", steps[n][2]>>
                  \/ n = Len(steps) /\ 2 \in DOMAIN todo[t] /\ todo[t][2] = <<"return", steps[n][2]>>,
         \/ Len(steps) = 0 \/ Head(todo[t])[1] \notin {"join", "joined"}
         \/ steps[Len(steps)] = <<"joined", Head(todo[t])[2]>>
  PROVE  \A u \in Threads : WellPlaced(todo[u], u)'
  <1> DEFINE s == todo[t]
             line == todo'[t]
             L == Len(steps)
  <1>1. /\ \A u \in Threads : u # t => todo'[u] = todo[u]
        /\ L \in Nat /\ Len(s) \in Nat \ {0}
        /\ DOMAIN steps = 1 .. L /\ DOMAIN s = 1 .. Len(s)
        /\ Head(s) = s[1]
        /\ DOMAIN line = 1 .. L + Len(s) - 1 /\ Len(line) = L + Len(s) - 1
        /\ \A n \in 1 .. L : line[n] = steps[n]
        /\ \A n \in DOMAIN line : n > L =>
               line[n] = s[n - L + 1] /\ n - L + 1 \in DOMAIN s /\ n - L + 1 # 1
    BY NewPlaces
  <1>2. WellPlaced(s, t)
    BY DEF Placed
  <1>3. /\ L = 0 \/ s[1][1] \notin {"join", "joined"} \/ steps[L] = <<"joined", s[1][2]>>
    BY <1>1
  <1> HIDE DEF s, line, L
  <1>4. ASSUME NEW n \in DOMAIN line, n > L
        PROVE  /\ line[n][1] \in {"enqueue", "chunk", "sub"} => line[n][3] \in Slots(line[n][2])
               /\ line[n][1] = "enqueue" => line[n][3] # 0
               /\ line[n][1] \notin {"inline", "joined"}
               /\ line[n][1] \in {"enqueue", "chunk", "return"} =>
                     t \in Mains /\ \A k \in DOMAIN line : k > n => line[k][1] # "sub"
               /\ line[n][1] = "return" /\ n > 1 =>
                     line[n - 1] \in {<<"join", line[n][2]>>, <<"joined", line[n][2]>>}
               /\ line[n][1] = "join" => n < Len(line) /\ line[n + 1] = <<"return", line[n][2]>>
    <2> DEFINE k == n - L + 1
    <2>1. line[n] = s[k] /\ k \in 1 .. Len(s) /\ k # 1 /\ k > 1 /\ n = k + L - 1 /\ n \in 1 .. L + Len(s) - 1
      BY <1>1, <1>4
    <2> HIDE DEF k
    <2>2. /\ s[k][1] \in {"enqueue", "chunk", "sub"} => s[k][3] \in Slots(s[k][2])
          /\ s[k][1] = "enqueue" => s[k][3] # 0
          /\ s[k][1] \notin {"inline", "joined"}
          /\ s[k][1] \in {"enqueue", "chunk", "return"} =>
                t \in Mains /\ \A m \in DOMAIN s : m > k => s[m][1] # "sub"
          /\ s[k][1] = "return" => s[k - 1] \in {<<"join", s[k][2]>>, <<"joined", s[k][2]>>}
          /\ s[k][1] = "join" => k < Len(s) /\ s[k + 1] = <<"return", s[k][2]>>
      BY <1>1, <1>2, <2>1 DEF WellPlaced
    <2>3. ASSUME s[k][1] \in {"enqueue", "chunk", "return"}, NEW m \in DOMAIN line, m > n
          PROVE  line[m][1] # "sub"
      <3>0. m \in 1 .. L + Len(s) - 1 /\ L \in Nat /\ Len(s) \in Nat
        BY <1>1
      <3>1. m > L /\ m - L + 1 > k
        BY <3>0, <2>1, <2>3
      <3>2. line[m] = s[m - L + 1] /\ m - L + 1 \in DOMAIN s
        BY <3>1, <1>1
      <3> QED BY <3>1, <3>2, <2>2, <2>3
    <2>4. ASSUME s[k][1] = "return", n > 1
          PROVE  line[n - 1] \in {<<"join", s[k][2]>>, <<"joined", s[k][2]>>}
      <3>1. CASE k = 2
        <4>1. L > 0 /\ n - 1 = L /\ L \in 1 .. L
          BY <3>1, <2>1, <2>4, <1>1
        <4>2. s[1] \in {<<"join", s[k][2]>>, <<"joined", s[k][2]>>}
          BY <3>1, <2>2, <2>4
        <4>3. steps[L] = <<"joined", s[k][2]>>
          BY <4>1, <4>2, <1>3
        <4> QED BY <4>1, <4>3, <1>1
      <3>2. CASE k # 2
        <4>1. n - 1 \in DOMAIN line /\ n - 1 > L /\ (n - 1) - L + 1 = k - 1
          BY <3>2, <2>1, <1>1
        <4>2. line[n - 1] = s[(n - 1) - L + 1]
          BY <4>1, <1>1
        <4> QED BY <4>1, <4>2, <2>2, <2>4
      <3> QED BY <3>1, <3>2
    <2>5. ASSUME s[k][1] = "join" PROVE n < Len(line) /\ line[n + 1] = <<"return", s[k][2]>>
      <3>1. k < Len(s) /\ s[k + 1] = <<"return", s[k][2]>>
        BY <2>2, <2>5
      <3>2. n < Len(line) /\ n + 1 \in DOMAIN line /\ n + 1 > L /\ (n + 1) - L + 1 = k + 1
        BY <3>1, <2>1, <1>1
      <3>3. line[n + 1] = s[(n + 1) - L + 1]
        BY <3>2, <1>1
      <3> QED BY <3>1, <3>2, <3>3
    <2> QED BY <2>1, <2>2, <2>3, <2>4, <2>5
  <1>5. ASSUME NEW n \in 1 .. L
        PROVE  /\ line[n][1] \in {"enqueue", "chunk", "sub"} => line[n][3] \in Slots(line[n][2])
               /\ line[n][1] = "enqueue" => line[n][3] # 0
               /\ line[n][1] \in {"inline", "joined"} => n = 1
               /\ line[n][1] \in {"enqueue", "chunk", "return"} =>
                     t \in Mains /\ \A k \in DOMAIN line : k > n => line[k][1] # "sub"
               /\ line[n][1] = "return" /\ n > 1 =>
                     line[n - 1] \in {<<"join", line[n][2]>>, <<"joined", line[n][2]>>}
               /\ line[n][1] \in {"join", "joined"} => n < Len(line) /\ line[n + 1] = <<"return", line[n][2]>>
    <2>1. line[n] = steps[n] /\ n \in DOMAIN steps
      BY <1>1
    <2>2. /\ steps[n][1] \in {"enqueue", "chunk", "sub"} => steps[n][3] \in Slots(steps[n][2])
          /\ steps[n][1] = "enqueue" => steps[n][3] # 0
          /\ steps[n][1] \in {"inline", "joined"} => n = 1
      BY <2>1
    <2>3. ASSUME steps[n][1] \in {"enqueue", "chunk", "return"}
          PROVE  t \in Mains /\ \A k \in DOMAIN line : k > n => line[k][1] # "sub"
      <3>1. /\ t \in Mains
            /\ \A k \in DOMAIN steps : steps[k][1] # "sub"
            /\ \A k \in DOMAIN s : s[k][1] # "sub"
        BY <2>1, <2>3 DEF s
      <3>2. ASSUME NEW k \in DOMAIN line PROVE line[k][1] # "sub"
        <4>1. CASE k > L
          BY <4>1, <3>1, <1>1
        <4>2. CASE ~(k > L)
          <5>1. k \in 1 .. L
            BY <4>2, <1>1
          <5> QED BY <5>1, <3>1, <1>1
        <4> QED BY <4>1, <4>2
      <3> QED BY <3>1, <3>2
    <2>4. ASSUME steps[n][1] = "return", n > 1 PROVE line[n - 1] = <<"join", steps[n][2]>>
      <3>1. steps[n - 1] = <<"join", steps[n][2]>>
        BY <2>1, <2>4
      <3>2. n - 1 \in 1 .. L
        BY <2>4, <1>1
      <3> QED BY <3>1, <3>2, <1>1
    <2>5. ASSUME steps[n][1] \in {"join", "joined"} PROVE n < Len(line) /\ line[n + 1] = <<"return", steps[n][2]>>
      <3>1. \/ n < L /\ steps[n + 1] = <<"return", steps[n][2]>>
            \/ n = L /\ 2 \in DOMAIN s /\ s[2] = <<"return", steps[n][2]>>
        BY <2>1, <2>5 DEF s, L
      <3>2. CASE n < L /\ steps[n + 1] = <<"return", steps[n][2]>>
        <4>1. n + 1 \in 1 .. L /\ n < Len(line)
          BY <3>2, <1>1
        <4> QED BY <4>1, <3>2, <1>1
      <3>3. CASE n = L /\ 2 \in DOMAIN s /\ s[2] = <<"return", steps[n][2]>>
        <4>1. n + 1 \in DOMAIN line /\ n + 1 > L /\ (n + 1) - L + 1 = 2 /\ n < Len(line)
          BY <3>3, <1>1
        <4>2. line[n + 1] = s[(n + 1) - L + 1]
          BY <4>1, <1>1
        <4> QED BY <4>1, <4>2, <3>3
      <3> QED BY <3>1, <3>2, <3>3
    <2> QED BY <2>1, <2>2, <2>3, <2>4, <2>5
  <1>6. WellPlaced(line, t)
    <2>1. ASSUME NEW n \in DOMAIN line
          PROVE  /\ line[n][1] \in {"enqueue", "chunk", "sub"} => line[n][3] \in Slots(line[n][2])
                 /\ line[n][1] = "enqueue" => line[n][3] # 0
                 /\ line[n][1] \in {"inline", "joined"} => n = 1
                 /\ line[n][1] \in {"enqueue", "return"} \/ (line[n][1] = "chunk" /\ n > 1) =>
                       t \in Mains /\ \A k \in DOMAIN line : k > n => line[k][1] # "sub"
                 /\ line[n][1] = "return" /\ n > 1 =>
                       line[n - 1] \in {<<"join", line[n][2]>>, <<"joined", line[n][2]>>}
                 /\ line[n][1] \in {"join", "joined"} => n < Len(line) /\ line[n + 1] = <<"return", line[n][2]>>
      <3>1. n > L \/ n \in 1 .. L
        BY <1>1
      <3>2. CASE n > L
        BY <3>2, <1>4
      <3>3. CASE n \in 1 .. L
        BY <3>3, <1>5
      <3> QED BY <3>1, <3>2, <3>3
    <2> QED BY <2>1 DEF WellPlaced
  <1>7. ASSUME NEW u \in Threads PROVE WellPlaced(todo'[u], u)
    <2>1. CASE u = t
      BY <2>1, <1>6 DEF line
    <2>2. CASE u # t
      BY <2>2, <1>1 DEF Placed
    <2> QED BY <2>1, <2>2
  <1> QED BY <1>7 DEF WellPlaced, Slots, NumTasks, UsesPool, ChunkSize, divup, AtLeast, get_num_threads

(* Most steps put nothing of a parallel_for in front. *)
Plain(s) == s[1] \notin {"inline", "enqueue", "chunk", "sub", "join", "joined", "return"}

LEMMA PlainPlaced ==
  ASSUME Shape, Placed, NEW t \in Threads, todo[t] # <<>>, NEW steps \in Seq(Working), Continue(t, steps),
         \A n \in DOMAIN steps : Plain(steps[n]),
         steps = <<>> \/ Head(todo[t])[1] \notin {"join", "joined"}
  PROVE  \A u \in Threads : WellPlaced(todo[u], u)'
  <1>1. Len(steps) = 0 \/ Head(todo[t])[1] \notin {"join", "joined"}
    BY EmptySeq
  <1>2. \A n \in DOMAIN steps : steps[n][1] \notin {"inline", "enqueue", "chunk", "sub", "join", "joined", "return"}
    BY DEF Plain
  <1> QED BY <1>1, <1>2, ContinuePlaced

LEMMA ThrowPlaced ==
  ASSUME Shape, Placed, NEW t \in Threads, todo[t] # <<>>, Head(todo[t])[1] \in {"inline", "func"},
         todo' = [todo EXCEPT ![t] = Unwound(todo[t])]
  PROVE  \A u \in Threads : WellPlaced(todo[u], u)'
  <1> DEFINE s == todo[t]
             line == Unwound(s)
  <1>1. todo'[t] = line /\ \A u \in Threads \ {t} : todo'[u] = todo[u]
    BY DEF Shape, Typed
  <1>2. PICK d \in 1 .. Len(s) : UnwoundBy(s, d)
    BY UnwoundIsSuffix
  <1>3. Len(s) \in Nat \ {0} /\ DOMAIN s = 1 .. Len(s)
    BY HeadStep
  <1>4. WellPlaced(s, t)
    BY DEF Placed
  <1>5. /\ DOMAIN line = 1 .. Len(s) - d /\ Len(line) = Len(s) - d
        /\ \A n \in 1 .. Len(s) - d : line[n] = s[n + d]
    BY <1>2 DEF UnwoundBy
  <1> HIDE DEF s, line
  <1>6. ASSUME NEW n \in DOMAIN line
        PROVE  /\ line[n][1] \in {"enqueue", "chunk", "sub"} => line[n][3] \in Slots(line[n][2])
               /\ line[n][1] = "enqueue" => line[n][3] # 0
               /\ line[n][1] \in {"inline", "joined"} => n = 1
               /\ line[n][1] \in {"enqueue", "return"} \/ (line[n][1] = "chunk" /\ n > 1) =>
                     t \in Mains /\ \A k \in DOMAIN line : k > n => line[k][1] # "sub"
               /\ line[n][1] = "return" /\ n > 1 =>
                     line[n - 1] \in {<<"join", line[n][2]>>, <<"joined", line[n][2]>>}
               /\ line[n][1] \in {"join", "joined"} => n < Len(line) /\ line[n + 1] = <<"return", line[n][2]>>
    <2> DEFINE k == n + d
    <2>1. line[n] = s[k] /\ k \in 1 .. Len(s) /\ k # 1 /\ k > 1 /\ n = k - d /\ n \in 1 .. Len(s) - d /\ d \in Nat \ {0}
      BY <1>3, <1>5
    <2> HIDE DEF k
    <2>2. /\ s[k][1] \in {"enqueue", "chunk", "sub"} => s[k][3] \in Slots(s[k][2])
          /\ s[k][1] = "enqueue" => s[k][3] # 0
          /\ s[k][1] \notin {"inline", "joined"}
          /\ s[k][1] \in {"enqueue", "chunk", "return"} =>
                t \in Mains /\ \A m \in DOMAIN s : m > k => s[m][1] # "sub"
          /\ s[k][1] = "return" => s[k - 1] \in {<<"join", s[k][2]>>, <<"joined", s[k][2]>>}
          /\ s[k][1] = "join" => k < Len(s) /\ s[k + 1] = <<"return", s[k][2]>>
      BY <1>3, <1>4, <2>1 DEF WellPlaced
    <2>3. ASSUME s[k][1] \in {"enqueue", "chunk", "return"}, NEW m \in DOMAIN line, m > n
          PROVE  line[m][1] # "sub"
      <3>0. m \in 1 .. Len(s) - d
        BY <1>5
      <3>1. m + d > k /\ m + d \in 1 .. Len(s) /\ line[m] = s[m + d]
        BY <3>0, <2>1, <2>3, <1>3, <1>5
      <3> QED BY <3>1, <2>2, <2>3, <1>3
    <2>4. ASSUME s[k][1] = "return", n > 1
          PROVE  line[n - 1] \in {<<"join", s[k][2]>>, <<"joined", s[k][2]>>}
      <3>1. n - 1 \in 1 .. Len(s) - d /\ (n - 1) + d = k - 1
        BY <2>1, <2>4, <1>3
      <3>2. line[n - 1] = s[(n - 1) + d]
        BY <3>1, <1>5
      <3> QED BY <3>1, <3>2, <2>2, <2>4
    <2>5. ASSUME s[k][1] = "join" PROVE n < Len(line) /\ line[n + 1] = <<"return", s[k][2]>>
      <3>1. k < Len(s) /\ s[k + 1] = <<"return", s[k][2]>>
        BY <2>2, <2>5
      <3>2. n < Len(line) /\ n + 1 \in 1 .. Len(s) - d /\ (n + 1) + d = k + 1
        BY <3>1, <2>1, <1>3, <1>5
      <3>3. line[n + 1] = s[(n + 1) + d]
        BY <3>2, <1>5
      <3> QED BY <3>1, <3>2, <3>3
    <2> QED BY <2>1, <2>2, <2>3, <2>4, <2>5
  <1>7. WellPlaced(line, t)
    BY <1>6 DEF WellPlaced
  <1>8. ASSUME NEW u \in Threads PROVE WellPlaced(todo'[u], u)
    <2>1. CASE u = t
      BY <2>1, <1>1, <1>7 DEF line
    <2>2. CASE u # t
      BY <2>2, <1>1 DEF Placed
    <2> QED BY <2>1, <2>2
  <1> QED BY <1>8 DEF WellPlaced, Slots, NumTasks, UsesPool, ChunkSize, divup, AtLeast, get_num_threads

LEMMA WorkerPlaced ==
  ASSUME Shape, Placed, NEW w \in Workers,
         \/ tasks # <<>> /\ tasks' = Tail(tasks) /\ todo' = [todo EXCEPT ![w] = Append(Head(tasks), Finish)]
         \/ tasks' = tasks /\ todo' = [todo EXCEPT ![w] = <<>>]
  PROVE  Placed'
  <1>1. todo \in [Threads -> Seq(Steps)] /\ tasks \in Seq(Seq(Working)) /\ w \in Threads
    BY DEF Shape, Typed, Threads
  <1>2. \A u \in Threads \ {w} : todo'[u] = todo[u]
    BY <1>1
  <1>3. CASE tasks' = tasks /\ todo' = [todo EXCEPT ![w] = <<>>]
    <2>1. todo'[w] = <<>>
      BY <1>1, <1>3
    <2>2. WellPlaced(todo'[w], w)
      BY <2>1 DEF WellPlaced
    <2>3. ASSUME NEW u \in Threads PROVE WellPlaced(todo'[u], u)
      BY <2>2, <1>2 DEF Placed
    <2>4. \A u \in Threads : WellPlaced(todo[u], u)'
      BY <2>3 DEF WellPlaced, Slots, NumTasks, UsesPool, ChunkSize, divup, AtLeast, get_num_threads
    <2> QED BY <2>4, <1>3 DEF Placed
  <1>4. CASE tasks # <<>> /\ tasks' = Tail(tasks) /\ todo' = [todo EXCEPT ![w] = Append(Head(tasks), Finish)]
    <2> DEFINE task == Head(tasks)
               line == Append(task, Finish)
    <2>1. task = tasks[1] /\ 1 \in DOMAIN tasks /\ task \in Seq(Working) /\ DOMAIN tasks = 1 .. Len(tasks)
      BY <1>1, <1>4, EmptySeq, LenProperties, HeadTailProperties
    <2>2. /\ Len(Tail(tasks)) = Len(tasks) - 1 /\ Len(tasks) \in Nat \ {0}
          /\ \A n \in 1 .. Len(Tail(tasks)) : Tail(tasks)[n] = tasks[n + 1]
          /\ DOMAIN Tail(tasks) = 1 .. Len(Tail(tasks))
      BY <1>1, <1>4, EmptySeq, LenProperties, HeadTailProperties
    <2>3. /\ Len(task) \in Nat /\ DOMAIN line = 1 .. Len(task) + 1
          /\ \A n \in 1 .. Len(task) : line[n] = task[n]
          /\ line[Len(task) + 1] = Finish
      BY <2>1, TaskLine
    <2>4. DOMAIN task = 1 .. Len(task)
      BY <2>1, LenProperties
    <2>5. \A n \in DOMAIN task : /\ task[n][1] \in {"chunk", "func", "mark"}
                                 /\ task[n][1] = "chunk" => n = 1 /\ task[n][3] \in Slots(task[n][2])
      BY <2>1 DEF Placed
    <2>6. todo'[w] = line
      BY <1>1, <1>4
    <2> HIDE DEF task, line
    <2>7. ASSUME NEW n \in DOMAIN line
          PROVE  /\ line[n][1] \in {"chunk", "func", "mark", "finish"}
                 /\ line[n][1] = "chunk" => n = 1 /\ line[n][3] \in Slots(line[n][2])
      <3>1. CASE n = Len(task) + 1
        BY <3>1, <2>3 DEF Finish
      <3>2. CASE n \in 1 .. Len(task)
        BY <3>2, <2>3, <2>4, <2>5
      <3> QED BY <3>1, <3>2, <2>3
    <2>8. WellPlaced(line, w)
      BY <2>7 DEF WellPlaced
    <2>9. ASSUME NEW u \in Threads PROVE WellPlaced(todo'[u], u)
      <3>1. CASE u = w
        BY <3>1, <2>6, <2>8
      <3>2. CASE u # w
        BY <3>2, <1>2 DEF Placed
      <3> QED BY <3>1, <3>2
    <2>10. \A u \in Threads : WellPlaced(todo[u], u)'
      BY <2>9 DEF WellPlaced, Slots, NumTasks, UsesPool, ChunkSize, divup, AtLeast, get_num_threads
    <2>11. ASSUME NEW a \in DOMAIN tasks' PROVE a + 1 \in DOMAIN tasks /\ tasks'[a] = tasks[a + 1]
      <3>1. a \in 1 .. Len(tasks) - 1 /\ a \in 1 .. Len(Tail(tasks))
        BY <2>2, <1>4
      <3>2. tasks'[a] = tasks[a + 1]
        BY <3>1, <2>2, <1>4
      <3>3. a + 1 \in 1 .. Len(tasks)
        BY <3>1, <2>2
      <3> QED BY <3>2, <3>3, <2>1
    <2>12. ASSUME NEW a \in DOMAIN tasks', NEW n \in DOMAIN tasks'[a]
           PROVE  /\ tasks'[a][n][1] \in {"chunk", "func", "mark"}
                  /\ tasks'[a][n][1] = "chunk" => n = 1 /\ tasks'[a][n][3] \in Slots(tasks'[a][n][2])
      BY <2>11, <2>12 DEF Placed
    <2> QED BY <2>10, <2>12 DEF Placed, Slots, NumTasks, UsesPool, ChunkSize, divup, AtLeast, get_num_threads
  <1> QED BY <1>3, <1>4

LEMMA RunPlaced ==
  ASSUME Shape, Placed, NEW task \in Seq(Working), tasks' = Append(tasks, task),
         \A u \in Threads : WellPlaced(todo[u], u)',
         \A n \in DOMAIN task : /\ task[n][1] \in {"chunk", "func", "mark"}
                                /\ task[n][1] = "chunk" => n = 1 /\ task[n][3] \in Slots(task[n][2])
  PROVE  Placed'
  <1>1. tasks \in Seq(Seq(Working))
    BY DEF Shape, Typed
  <1>2. /\ tasks' \in Seq(Seq(Working)) /\ Len(tasks') = Len(tasks) + 1
        /\ \A a \in 1 .. Len(tasks) : tasks'[a] = tasks[a]
        /\ tasks'[Len(tasks) + 1] = task
    BY <1>1, AppendProperties
  <1>3. DOMAIN tasks = 1 .. Len(tasks) /\ DOMAIN tasks' = 1 .. Len(tasks) + 1 /\ Len(tasks) \in Nat
    BY <1>1, <1>2, LenProperties
  <1>4. ASSUME NEW a \in DOMAIN tasks' PROVE tasks'[a] = task \/ (a \in DOMAIN tasks /\ tasks'[a] = tasks[a])
    BY <1>2, <1>3
  <1>5. ASSUME NEW a \in DOMAIN tasks', NEW n \in DOMAIN tasks'[a]
        PROVE  /\ tasks'[a][n][1] \in {"chunk", "func", "mark"}
               /\ tasks'[a][n][1] = "chunk" => n = 1 /\ tasks'[a][n][3] \in Slots(tasks'[a][n][2])
    BY <1>4, <1>5 DEF Placed
  <1> QED BY <1>5 DEF Placed, Slots, NumTasks, UsesPool, ChunkSize, divup, AtLeast, get_num_threads

-----------------------------------------------------------------------------
(* Steps that are about no job and no launch *)
Undisturbed == \A u \in asleep \ asleep' : todo[u] = <<>> \/ Head(todo[u])[1] \notin {"joined", "return"}

Neutral(t) ==
    /\ todo[t] # <<>> /\ Head(todo[t])[1] \notin Kinds
    /\ \/ UNCHANGED todo
       \/ \E steps \in Seq(Working) : Continue(t, steps) /\ \A n \in DOMAIN steps : steps[n][1] \notin Kinds
    /\ Undisturbed
    /\ \A f \in Launched : f \in made' <=> f \in made

LEMMA WakesNobody ==
  ASSUME NEW cv, cv[1] \notin {"joined", "return"},
         NotifyOne(cv) \/ NotifyAll(cv) \/ asleep \subseteq asleep' \/ asleep' = asleep
  PROVE  Undisturbed
  <1>1. asleep \ asleep' \subseteq Waiting(cv)
    <2>1. CASE NotifyOne(cv)
      BY <2>1 DEF NotifyOne, OneOf
    <2>2. CASE NotifyAll(cv)
      BY <2>2 DEF NotifyAll
    <2> QED BY <2>1, <2>2
  <1> QED BY <1>1 DEF Waiting, Undisturbed

LEMMA NeutralKeeps ==
  ASSUME LoopInv, NEW t \in Threads, Neutral(t), tasks' = tasks, UNCHANGED jobState
  PROVE  Preserved
  <1>1. Shape /\ Placed /\ todo[t] # <<>>
    BY DEF LoopInv, PoolInv, Neutral
  <1>2. UNCHANGED <<left, eptr, ran, returned, early>>
    BY DEF jobState
  <1>3. JobTyped'
    BY <1>2 DEF LoopInv, JobTyped
  <1>4. Placed'
    <2>1. CASE UNCHANGED todo
      BY <2>1, <1>1 DEF Placed, WellPlaced, Slots, NumTasks, UsesPool, ChunkSize, divup, AtLeast, get_num_threads
    <2>2. ASSUME NEW steps \in Seq(Working), Continue(t, steps), \A n \in DOMAIN steps : steps[n][1] \notin Kinds
          PROVE  Placed'
      <3>1. \A n \in DOMAIN steps : Plain(steps[n])
        BY <2>2 DEF Plain, Kinds
      <3>2. Head(todo[t])[1] \notin {"join", "joined"}
        BY DEF Neutral, Kinds
      <3>3. \A u \in Threads : WellPlaced(todo[u], u)'
        BY <3>1, <3>2, <2>2, <1>1, PlainPlaced
      <3> QED BY <3>3, <1>1 DEF Placed, Slots, NumTasks, UsesPool, ChunkSize, divup, AtLeast, get_num_threads
    <2> QED BY <2>1, <2>2 DEF Neutral
  <1>5. ASSUME NEW z \in Jobs \cup Launched PROVE Kept(z) /\ Calm(z)
    <2>1. (z \in Jobs => JobInv(z)) /\ (z \in Launched => LaunchInv(z))
      BY DEF LoopInv
    <2>2. CASE UNCHANGED todo
      <3>1. Quiet(z)
        BY <2>2, StillQuiet
      <3>2. AfterJoin(z)' => AfterJoin(z)
        BY <2>2 DEF AfterJoin, Undisturbed, Neutral
      <3>3. Frame(z)
        BY <3>1, <3>2, <1>2 DEF Frame, Neutral
      <3> QED BY <2>1, <3>3, FrameKeeps
    <2>3. ASSUME NEW steps \in Seq(Working), Continue(t, steps), \A n \in DOMAIN steps : steps[n][1] \notin Kinds
          PROVE  Kept(z) /\ Calm(z)
      <3>1. Emits(t, steps)
        BY <2>3 DEF Emits
      <3>2. Foreign(Head(todo[t]), z) /\ \A n \in DOMAIN steps : Foreign(steps[n], z)
        BY <2>3 DEF Foreign, Neutral
      <3>3. \A u \in asleep \ asleep' : todo[u] = <<>> \/ Head(todo[u]) \notin {<<"joined", z>>, <<"return", z>>}
        BY DEF Neutral, Undisturbed
      <3>4. z \in Launched => (z \in made' <=> z \in made)
        BY DEF Neutral
      <3>5. Frame(z)
        BY <3>1, <3>2, <3>3, <3>4, <1>1, <1>2, EmitFrame
      <3> QED BY <2>1, <3>5, FrameKeeps
    <2> QED BY <2>2, <2>3 DEF Neutral
  <1> QED BY <1>3, <1>4, <1>5, AllCalm DEF LoopInv, Preserved

(* The futures, and the waits and the end of the pool. *)
LEMMA OneNeutral ==
  ASSUME NEW t \in Threads, NEW kind, kind \notin Kinds, At(t, kind), Undisturbed,
         \A f \in Launched : f \in made' <=> f \in made,
         NEW s \in Working, s[1] \notin Kinds, Continue(t, <<s>>) \/ Continue(t, <<>>) \/ UNCHANGED todo
  PROVE  Neutral(t)
  <1>1. todo[t] # <<>> /\ Head(todo[t])[1] \notin Kinds
    BY DEF At
  <1>2. CASE Continue(t, <<s>>)
    <2>1. <<s>> \in Seq(Working) /\ \A n \in DOMAIN <<s>> : <<s>>[n][1] \notin Kinds
      OBVIOUS
    <2> QED BY <2>1, <1>1, <1>2 DEF Neutral
  <1>3. CASE Continue(t, <<>>)
    <2>0. PICK line \in Seq(Working) : line = <<>>
      BY ShortLines
    <2>1. DOMAIN line = {}
      BY <2>0
    <2>2. Continue(t, line)
      BY <1>3, <2>0
    <2> QED BY <2>1, <2>2, <1>1 DEF Neutral
  <1> QED BY <1>1, <1>2, <1>3 DEF Neutral

LEMMA FutureIsNeutral ==
  ASSUME Shape, NEW t \in Threads, FutureStep(t)
  PROVE  Neutral(t) /\ tasks' = tasks
  <1> DEFINE s == Head(todo[t])
  <1>0. tasks' = tasks
    BY DEF FutureStep, FutureWait, Mark, SetErrorIfNeeded, Notify, AddCallback, CallThen,
           CallAll, CheckCompleted, MakeDependent, poolState
  <1>w. <<"join_workers">> \in Working /\ <<"join_workers">>[1] \notin Kinds
    BY MakeSteps DEF Kinds
  <1>1. CASE FutureWait(t)
    <2>1. At(t, "wait") /\ (Continue(t, <<>>) \/ UNCHANGED todo) /\ asleep \subseteq asleep' /\ made' = made
      BY <1>1 DEF FutureWait, Sleep, futureState
    <2>2. Undisturbed /\ "wait" \notin Kinds
      BY <2>1 DEF Undisturbed, Kinds
    <2> QED BY <2>1, <2>2, <1>0, <1>w, OneNeutral
  <1>2. CASE Mark(t) \/ SetErrorIfNeeded(t)
    <2>0. PICK kind \in {"mark", "error_if_needed"} : At(t, kind)
      BY <1>2 DEF Mark, SetErrorIfNeeded
    <2>1. s \in Steps /\ s[1] = kind /\ Arg(t) = s[2] /\ kind \notin Kinds
      BY <2>0, ArgsAt DEF Kinds
    <2>2. Arg(t) \in Futures
      BY <2>1, StepArgs
    <2> DEFINE line == <<<<"notify", Arg(t)>>>> \o Calls(Arg(t))
    <2>3. Continue(t, <<>>) \/ Continue(t, line)
      BY <1>2 DEF Mark, SetErrorIfNeeded, TakeCallbacks
    <2>4. Undisturbed /\ made' = made
      BY <1>2 DEF Undisturbed, Mark, SetErrorIfNeeded
    <2>5. CASE Continue(t, <<>>)
      BY <2>0, <2>1, <2>4, <2>5, <1>0, <1>w, OneNeutral
    <2>6. CASE Continue(t, line)
      <3>1. /\ line \in Seq(Working) /\ Len(line) = 1 + Len(callbacks[Arg(t)])
            /\ \A n \in 1 .. 1 + Len(callbacks[Arg(t)]) :
                  line[n] = IF n = 1 THEN <<"notify", Arg(t)>> ELSE <<"call", callbacks[Arg(t)][n - 1]>>
        BY <2>2, CallsAreWork
      <3>2. DOMAIN line = 1 .. 1 + Len(callbacks[Arg(t)])
        BY <3>1, LenProperties
      <3> HIDE DEF line
      <3>3. ASSUME NEW n \in DOMAIN line PROVE line[n][1] \notin Kinds
        <4>1. line[n] = IF n = 1 THEN <<"notify", Arg(t)>> ELSE <<"call", callbacks[Arg(t)][n - 1]>>
          BY <3>1, <3>2, Zenon
        <4>2. line[n] = <<"notify", Arg(t)>> \/ \E g : line[n] = <<"call", g>>
          BY <4>1, Zenon
        <4> QED BY <4>2 DEF Kinds
      <3> QED BY <3>1, <3>3, <2>0, <2>1, <2>4, <2>6, <1>0 DEF Neutral, At
    <2> QED BY <2>3, <2>5, <2>6
  <1>4. CASE Notify(t)
    <2>1. At(t, "notify") /\ Continue(t, <<>>) /\ NotifyAll(<<"wait", Arg(t)>>) /\ made' = made
      BY <1>4 DEF Notify, WakeWaiting, futureState
    <2>2. Undisturbed
      <3>1. <<"wait", Arg(t)>>[1] \notin {"joined", "return"}
        OBVIOUS
      <3> QED BY <3>1, <2>1, WakesNobody
    <2>3. "notify" \notin Kinds
      BY DEF Kinds
    <2> QED BY <2>1, <2>2, <2>3, <1>0, <1>w, OneNeutral
  <1>5. CASE AddCallback(t)
    <2>1. At(t, "add") /\ s \in Steps /\ s[1] = "add" /\ Arg(t) = s[2]
      BY <1>5, ArgsAt DEF AddCallback
    <2>2. Arg(t) \in Callbacks
      BY <2>1, StepArgs
    <2>3. <<"call", Arg(t)>> \in Working /\ <<"call", Arg(t)>>[1] \notin Kinds /\ "add" \notin Kinds
      BY <2>2, MakeSteps DEF Kinds
    <2>4. /\ Continue(t, <<<<"call", Arg(t)>>>>) \/ Continue(t, <<>>)
          /\ Undisturbed /\ made' = made
      BY <1>5 DEF AddCallback, Undisturbed
    <2> QED BY <2>1, <2>3, <2>4, <1>0, OneNeutral
  <1>6. CASE CallThen(t)
    <2>1. At(t, "call") /\ s \in Steps /\ s[1] = "call"
      BY <1>6, ArgsAt DEF CallThen
    <2>2. PICK res \in {"value", "error"} : Continue(t, <<<<"mark", s[2][1], res>>>>)
      BY <1>6 DEF CallThen, Arg
    <2>3. s[2][1] \in Futures /\ res \in Outcome
      BY <2>1, StepArgs, CallbackArgs DEF Outcome
    <2>4. <<"mark", s[2][1], res>> \in Working /\ <<"mark", s[2][1], res>>[1] \notin Kinds /\ "call" \notin Kinds
      BY <2>3, MakeSteps DEF Kinds
    <2>5. Undisturbed /\ made' = made
      BY <1>6 DEF CallThen, Undisturbed, futureState
    <2> QED BY <2>1, <2>2, <2>4, <2>5, <1>0, OneNeutral
  <1>7. CASE CallAll(t)
    <2>1. At(t, "call") /\ s \in Steps /\ s[1] = "call"
      BY <1>7, ArgsAt DEF CallAll
    <2>2. s[2][1] \in Futures
      BY <2>1, StepArgs, CallbackArgs
    <2>3. /\ <<"error_if_needed", s[2][1]>> \in Working /\ <<"check", s[2][1]>> \in Working /\ "call" \notin Kinds
          /\ <<"error_if_needed", s[2][1]>>[1] \notin Kinds /\ <<"check", s[2][1]>>[1] \notin Kinds
      BY <2>2, MakeSteps DEF Kinds
    <2>4. Continue(t, <<<<"error_if_needed", s[2][1]>>>>) \/ Continue(t, <<<<"check", s[2][1]>>>>) \/ Continue(t, <<>>)
      BY <1>7 DEF CallAll, Arg
    <2>5. Undisturbed /\ made' = made
      BY <1>7 DEF CallAll, Undisturbed
    <2> QED BY <2>1, <2>3, <2>4, <2>5, <1>0, OneNeutral
  <1>8. CASE CheckCompleted(t)
    <2>1. At(t, "check") /\ s \in Steps /\ s[1] = "check" /\ Arg(t) = s[2]
      BY <1>8, ArgsAt DEF CheckCompleted
    <2>2. Arg(t) \in Futures /\ "value" \in Outcome
      BY <2>1, StepArgs DEF Outcome
    <2>3. <<"mark", Arg(t), "value">> \in Working /\ <<"mark", Arg(t), "value">>[1] \notin Kinds /\ "check" \notin Kinds
      BY <2>2, MakeSteps DEF Kinds
    <2>4. Continue(t, <<<<"mark", Arg(t), "value">>>>) \/ Continue(t, <<>>)
      BY <1>8 DEF CheckCompleted
    <2>5. Undisturbed /\ made' = made
      BY <1>8 DEF CheckCompleted, Undisturbed, futureState
    <2> QED BY <2>1, <2>3, <2>4, <2>5, <1>0, OneNeutral
  <1>9. CASE MakeDependent(t)
    <2>1. At(t, "make") /\ s \in Steps /\ s[1] = "make" /\ Arg(t) = s[2] /\ "make" \notin Kinds
      BY <1>9, ArgsAt DEF MakeDependent, Kinds
    <2>2. Arg(t) \in Futures /\ "value" \in Outcome /\ Arg(t) \notin Launched
      BY <2>1, StepArgs, Apart DEF Outcome
    <2>3. <<"mark", Arg(t), "value">> \in Working /\ <<"mark", Arg(t), "value">>[1] \notin Kinds
      BY <2>2, MakeSteps DEF Kinds
    <2>4. Undisturbed /\ \A f \in Launched : f \in made' <=> f \in made
      BY <1>9, <2>2 DEF MakeDependent, Undisturbed
    <2>5. Continue(t, <<<<"mark", Arg(t), "value">>>>) \/ Continue(t, Adds(Arg(t)))
      BY <1>9 DEF MakeDependent
    <2>6. CASE Continue(t, <<<<"mark", Arg(t), "value">>>>)
      BY <2>1, <2>3, <2>4, <2>6, <1>0, OneNeutral
    <2>7. CASE Continue(t, Adds(Arg(t)))
      <3>1. /\ Adds(Arg(t)) \in Seq(Working) /\ Len(Adds(Arg(t))) = Len(Sources[Arg(t)])
            /\ \A n \in 1 .. Len(Sources[Arg(t)]) : Adds(Arg(t))[n] = <<"add", <<Arg(t), n>>>>
        BY <2>1, <2>2, StepKinds, AddsAreWork
      <3>2. DOMAIN Adds(Arg(t)) = 1 .. Len(Sources[Arg(t)])
        BY <3>1, LenProperties
      <3>3. \A n \in DOMAIN Adds(Arg(t)) : Adds(Arg(t))[n][1] \notin Kinds
        BY <3>1, <3>2 DEF Kinds
      <3> QED BY <3>1, <3>3, <2>1, <2>4, <2>7, <1>0 DEF Neutral, At
    <2> QED BY <2>5, <2>6, <2>7
  <1> QED BY <1>0, <1>1, <1>2, <1>4, <1>5, <1>6, <1>7, <1>8, <1>9 DEF FutureStep

LEMMA PoolIsNeutral ==
  ASSUME Shape, NEW t \in Threads, UNCHANGED made,
         WaitWorkComplete(t) \/ Destroy(t) \/ JoinWorkers(t) \/ Fulfil(t)
  PROVE  Neutral(t) /\ tasks' = tasks
  <1>0. tasks' = tasks
    BY DEF WaitWorkComplete, Destroy, JoinWorkers, Fulfil, poolState
  <1>w. <<"join_workers">> \in Working /\ <<"join_workers">>[1] \notin Kinds
    BY MakeSteps DEF Kinds
  <1>k. "complete" \notin Kinds /\ "destroy" \notin Kinds /\ "join_workers" \notin Kinds /\ "fulfil" \notin Kinds
    BY DEF Kinds
  <1>1. CASE WaitWorkComplete(t)
    <2>1. At(t, "complete") /\ (Continue(t, <<>>) \/ UNCHANGED todo) /\ Undisturbed
      BY <1>1 DEF WaitWorkComplete, Sleep, Undisturbed
    <2> QED BY <2>1, <1>0, <1>w, <1>k, OneNeutral
  <1>2. CASE Destroy(t)
    <2>1. At(t, "destroy") /\ Continue(t, <<<<"join_workers">>>>) /\ NotifyAll(condition)
      BY <1>2 DEF Destroy
    <2>2. condition[1] \notin {"joined", "return"}
      BY DEF condition
    <2>3. Undisturbed
      BY <2>1, <2>2, WakesNobody
    <2> QED BY <2>1, <2>3, <1>0, <1>w, <1>k, OneNeutral
  <1>3. CASE JoinWorkers(t)
    <2>1. At(t, "join_workers") /\ Continue(t, <<>>) /\ Undisturbed
      BY <1>3 DEF JoinWorkers, Undisturbed
    <2> QED BY <2>1, <1>0, <1>w, <1>k, OneNeutral
  <1>4. CASE Fulfil(t)
    <2>1. At(t, "fulfil") /\ Head(todo[t]) \in Steps /\ Head(todo[t])[1] = "fulfil" /\ Arg(t) = Head(todo[t])[2]
      BY <1>4, ArgsAt DEF Fulfil
    <2>2. PICK res \in {"value", "error"} : Continue(t, <<<<"mark", Arg(t), res>>>>)
      BY <1>4 DEF Fulfil
    <2>3. Arg(t) \in Futures /\ res \in Outcome
      BY <2>1, StepArgs DEF Outcome
    <2>4. <<"mark", Arg(t), res>> \in Working /\ <<"mark", Arg(t), res>>[1] \notin Kinds
      BY <2>3, MakeSteps DEF Kinds
    <2>5. Undisturbed
      BY <1>4 DEF Fulfil, Undisturbed
    <2> QED BY <2>1, <2>2, <2>4, <2>5, <1>0, <1>k, OneNeutral
  <1> QED BY <1>1, <1>2, <1>3, <1>4

(* main_loop. *)
LEMMA WorkerKeeps ==
  ASSUME LoopInv, NEW w \in Workers, Idle(w), Undisturbed, UNCHANGED <<jobState, made>>,
         \/ tasks # <<>> /\ tasks' = Tail(tasks) /\ todo' = [todo EXCEPT ![w] = Append(Head(tasks), Finish)]
         \/ tasks' = tasks /\ todo' = [todo EXCEPT ![w] = <<>>]
  PROVE  Preserved
  <1>1. Shape /\ Placed
    BY DEF LoopInv, PoolInv
  <1>2. UNCHANGED <<left, eptr, ran, returned, early>>
    BY DEF jobState
  <1>3. JobTyped'
    BY <1>2 DEF LoopInv, JobTyped
  <1>4. Placed'
    BY <1>1, WorkerPlaced
  <1>5. ASSUME NEW z \in Jobs \cup Launched PROVE Kept(z) /\ Calm(z)
    <2>1. (z \in Jobs => JobInv(z)) /\ (z \in Launched => LaunchInv(z))
      BY DEF LoopInv
    <2>2. Quiet(z)
      BY <1>1, WorkerQuiet
    <2>3. \A u \in asleep \ asleep' : todo[u] = <<>> \/ Head(todo[u]) \notin {<<"joined", z>>, <<"return", z>>}
      BY DEF Undisturbed
    <2>4. AfterJoin(z)' => AfterJoin(z)
      BY <1>1, <2>3, WorkerJoin
    <2>5. Frame(z)
      BY <2>2, <2>4, <1>2 DEF Frame
    <2> QED BY <2>1, <2>5, FrameKeeps
  <1> QED BY <1>3, <1>4, <1>5, AllCalm DEF LoopInv, Preserved

LEMMA LoopHeadTurns ==
  ASSUME NEW w, NEW avail, NEW awaited, LoopHead(w, avail, awaited)
  PROVE  /\ awaited \subseteq asleep'
         /\ \/ tasks # <<>> /\ tasks' = Tail(tasks) /\ todo' = [todo EXCEPT ![w] = Append(Head(tasks), Finish)]
            \/ tasks' = tasks /\ todo' = [todo EXCEPT ![w] = <<>>]
  BY DEF LoopHead, Finish

LEMMA FinishKeeps ==
  ASSUME LoopInv, NEW w \in Threads, FinishTask(w), UNCHANGED <<futureState, jobState>>
  PROVE  Preserved
  <1>1. Shape /\ todo[w] # <<>> /\ Head(todo[w])[1] = "finish"
    BY DEF LoopInv, PoolInv, FinishTask, At
  <1>2. /\ Head(todo[w]) = Finish /\ Head(todo[w]) = todo[w][1] /\ DOMAIN todo[w] = 1 .. Len(todo[w])
        /\ Len(todo[w]) \in Nat \ {0}
    BY <1>1, HeadStep, StepArgs
  <1>3. w \in Workers /\ 1 = Len(todo[w])
    <2>1. 1 \in DOMAIN todo[w] /\ todo[w][1] = Finish /\ Ends(todo[w], w)
      BY <1>1, <1>2 DEF Shape
    <2> QED BY <2>1 DEF Ends
  <1>4. Idle(w)
    BY <1>2, <1>3 DEF Idle
  <1>5. PICK woken \in OneOf(completed) \cup {{}} : \E avail : LoopHead(w, avail, asleep \ woken)
    BY DEF FinishTask
  <1>6. PICK avail : LoopHead(w, avail, asleep \ woken)
    BY <1>5
  <1>7. /\ asleep \ woken \subseteq asleep'
        /\ \/ tasks # <<>> /\ tasks' = Tail(tasks) /\ todo' = [todo EXCEPT ![w] = Append(Head(tasks), Finish)]
           \/ tasks' = tasks /\ todo' = [todo EXCEPT ![w] = <<>>]
    BY <1>6, LoopHeadTurns
  <1>8. Undisturbed
    <2>1. woken \subseteq Waiting(completed)
      BY <1>5 DEF OneOf
    <2>2. asleep \ asleep' \subseteq Waiting(completed)
      BY <2>1, <1>7
    <2> QED BY <2>2 DEF Waiting, Undisturbed, completed
  <1>9. UNCHANGED made
    BY DEF futureState
  <1> QED BY <1>3, <1>4, <1>7, <1>8, <1>9, WorkerKeeps

LEMMA WakeKeeps ==
  ASSUME LoopInv, NEW w \in Workers, WorkerWakes(w), UNCHANGED <<futureState, jobState>>
  PROVE  Preserved
  <1>1. todo[w] = <<>> /\ LoopHead(w, available, asleep)
    BY DEF WorkerWakes
  <1>2. Idle(w)
    BY <1>1 DEF Idle
  <1>3. /\ asleep \subseteq asleep'
        /\ \/ tasks # <<>> /\ tasks' = Tail(tasks) /\ todo' = [todo EXCEPT ![w] = Append(Head(tasks), Finish)]
           \/ tasks' = tasks /\ todo' = [todo EXCEPT ![w] = <<>>]
    BY <1>1, LoopHeadTurns
  <1>4. Undisturbed
    BY <1>3 DEF Undisturbed
  <1>5. UNCHANGED made
    BY DEF futureState
  <1> QED BY <1>2, <1>3, <1>4, <1>5, WorkerKeeps

(* Chunks: disjoint, and together the whole range. *)
LEMMA ChunkIs ==
  ASSUME NEW j \in Jobs, UsesPool(j)
  PROVE  /\ \A i \in Slots(j), k \in Slots(j) : i # k => Chunk(j, i) \cap Chunk(j, k) = {}
         /\ \A x \in 0 .. Size[j] - 1 : \E i \in Slots(j) : x \in Chunk(j, i)
         /\ \A i \in Slots(j) : Chunk(j, i) \subseteq 0 .. Size[j] - 1
  <1> DEFINE C == ChunkSize(j)
             S == Size[j]
             N == NumTasks(j)
  <1>1. C \in Nat \ {0} /\ N = (S + C - 1) \div C /\ N \in Nat \ {0} /\ S \in Nat \ {0}
    BY ChunkNumbers, ParallelAssumption DEF UsesPool
  <1>2. Slots(j) = 0 .. N - 1
    BY DEF Slots
  <1>3. \A i : Chunk(j, i) = i * C .. AtMost(S, (i + 1) * C) - 1
    BY DEF Chunk
  <1> HIDE DEF C, S, N
  <1>4. ASSUME NEW i \in Nat, NEW k \in Nat, i < k PROVE (i + 1) * C <= k * C /\ (i + 1) * C \in Nat /\ k * C \in Nat
    <2>1. PICK m \in Nat : k = (i + 1) + m
      <3>1. k - (i + 1) \in Nat /\ k = (i + 1) + (k - (i + 1))
        BY <1>4
      <3> QED BY <3>1
    <2>2. k * C = (i + 1) * C + m * C
      BY <2>1, <1>1
    <2>3. m * C \in Nat /\ (i + 1) * C \in Nat
      BY <1>1
    <2> QED BY <2>2, <2>3
  <1>5. ASSUME NEW i \in Nat, NEW k \in Nat, i < k, NEW x \in Chunk(j, i), x \in Chunk(j, k) PROVE FALSE
    <2>1. x \in i * C .. AtMost(S, (i + 1) * C) - 1 /\ x \in k * C .. AtMost(S, (k + 1) * C) - 1
      BY <1>3, <1>5
    <2>2. /\ (i + 1) * C \in Nat /\ k * C \in Nat /\ (i + 1) * C <= k * C /\ i * C \in Nat
      BY <1>1, <1>4, <1>5
    <2>3. AtMost(S, (i + 1) * C) <= (i + 1) * C /\ AtMost(S, (i + 1) * C) \in Nat
      BY <2>2, <1>1 DEF AtMost
    <2>4. AtMost(S, (k + 1) * C) \in Nat
      <3>1. (k + 1) * C \in Nat
        BY <1>1
      <3> QED BY <3>1, <1>1 DEF AtMost
    <2>5. x \in Int /\ x >= k * C /\ x <= AtMost(S, (i + 1) * C) - 1
      BY <2>1, <2>2, <2>3, <2>4
    <2> QED BY <2>2, <2>3, <2>5
  <1>6. \A i \in Slots(j), k \in Slots(j) : i # k => Chunk(j, i) \cap Chunk(j, k) = {}
    <2> SUFFICES ASSUME NEW i \in Slots(j), NEW k \in Slots(j), i # k, NEW x \in Chunk(j, i), x \in Chunk(j, k)
                 PROVE  FALSE
      OBVIOUS
    <2>1. i \in Nat /\ k \in Nat /\ (i < k \/ k < i)
      BY <1>1, <1>2
    <2> QED BY <2>1, <1>5
  <1>7. ASSUME NEW x \in 0 .. S - 1 PROVE \E i \in Slots(j) : x \in Chunk(j, i)
    <2> DEFINE i == x \div C
    <2>1. i \in Nat /\ i * C <= x /\ x < (i + 1) * C
      BY <1>1, Z3T(30)
    <2>2. i <= N - 1
      <3>1. N * C <= S + C - 1 /\ S + C - 1 < (N + 1) * C
        BY <1>1, Z3T(30)
      <3> HIDE DEF i
      <3>2. ASSUME N <= i PROVE FALSE
        <4>1. (N + 1) * C <= (i + 1) * C /\ (N + 1) * C \in Nat /\ i * C \in Nat /\ (i + 1) * C \in Nat
          <5>1. N \in Nat /\ i + 1 \in Nat /\ N < i + 1
            BY <1>1, <2>1, <3>2
          <5>2. (N + 1) * C <= (i + 1) * C
            BY <5>1, <1>4
          <5>3. (N + 1) * C \in Nat /\ i * C \in Nat /\ (i + 1) * C \in Nat
            BY <1>1, <2>1
          <5> QED BY <5>2, <5>3
        <4>2. (i + 1) * C = i * C + C
          BY <1>1, <2>1
        <4> QED BY <4>1, <4>2, <3>1, <2>1, <1>1
      <3> QED BY <3>2, <2>1, <1>1
    <2> HIDE DEF i
    <2>3. i * C \in Nat /\ (i + 1) * C \in Nat
      BY <1>1, <2>1
    <2>4. x < AtMost(S, (i + 1) * C) /\ AtMost(S, (i + 1) * C) \in Nat
      BY <2>1, <2>3, <1>1 DEF AtMost
    <2>5. x \in Chunk(j, i)
      BY <2>1, <2>3, <2>4, <1>1, <1>3
    <2>6. i \in Slots(j)
      BY <2>1, <2>2, <1>1, <1>2
    <2> QED BY <2>5, <2>6
  <1>8. ASSUME NEW i \in Slots(j) PROVE Chunk(j, i) \subseteq 0 .. S - 1
    <2>1. i \in Nat /\ i * C \in Nat /\ (i + 1) * C \in Nat
      BY <1>1, <1>2
    <2>2. AtMost(S, (i + 1) * C) <= S /\ AtMost(S, (i + 1) * C) \in Nat
      BY <2>1, <1>1 DEF AtMost
    <2> QED BY <2>1, <2>2, <1>1, <1>3
  <1> QED BY <1>6, <1>7, <1>8 DEF S

-----------------------------------------------------------------------------
(* The steps about a job. *)
LEMMA ActedKeeps ==
  ASSUME LoopInv, Placed', JobTyped', NEW x \in Jobs \cup Launched, Kept(x), Calm(x),
         \A z \in (Jobs \cup Launched) \ {x} : Frame(z)
  PROVE  Preserved
  <1>1. ASSUME NEW z \in Jobs \cup Launched PROVE Kept(z) /\ Calm(z)
    <2>1. CASE z = x
      BY <2>1
    <2>2. CASE z # x
      <3>1. Frame(z) /\ (z \in Jobs => JobInv(z)) /\ (z \in Launched => LaunchInv(z))
        BY <2>2 DEF LoopInv
      <3> QED BY <3>1, FrameKeeps
    <2> QED BY <2>1, <2>2
  <1> QED BY <1>1, AllCalm DEF LoopInv, Preserved

(* The other steps of a set with one token are nowhere. *)
LEMMA OnlyOne ==
  ASSUME Shape, NEW t \in Threads, todo[t] # <<>>, NEW Q, Single(Q), Head(todo[t]) \in Q,
         NEW P, P \subseteq Q
  PROVE  Present(Q) /\ (Present(P) <=> Head(todo[t]) \in P)
  <1>1. Head(todo[t]) = todo[t][1] /\ 1 \in DOMAIN todo[t]
    BY HeadStep
  <1>2. OnThread(Q) /\ ~InQueue(Q)
    BY <1>1 DEF OnThread, Single
  <1>3. ASSUME Present(P) PROVE Head(todo[t]) \in P
    <2>1. ~InQueue(P)
      BY <1>2 DEF InQueue
    <2>2. PICK u \in Threads : \E n \in DOMAIN todo[u] : todo[u][n] \in P
      BY <1>3, <2>1 DEF Present, OnThread
    <2>3. PICK n \in DOMAIN todo[u] : todo[u][n] \in P
      BY <2>2
    <2>4. u = t /\ n = 1
      BY <2>3, <1>1 DEF Single
    <2> QED BY <2>3, <2>4, <1>1
  <1>4. ASSUME Head(todo[t]) \in P PROVE Present(P)
    BY <1>1, <1>4 DEF Present, OnThread
  <1> QED BY <1>2, <1>3, <1>4 DEF Present

(* A parallel_for about to begin. *)
LEMMA ForIsFresh ==
  ASSUME LoopInv, NEW t \in Threads, NEW j \in Jobs, todo[t] # <<>>, Head(todo[t]) = <<"for", j>>
  PROVE  /\ JobInv(j) /\ j \notin returned /\ ~Begun(j)
         /\ Present(CallToken(j)) /\ Present(Starter(j)) /\ Present(CallOf(j))
         /\ ~Present({<<"inline", j>>}) /\ ~Present({<<"return", j>>}) /\ ~Present(BegunToken(j))
         /\ left[j] = 0 /\ Flight(j) = {} /\ \A x \in DOMAIN ran[j] : ran[j][x] = 0
         /\ \A i \in Slots(j) : ~Present(ChunkToken(j, i)) /\ ~Present(UnrunToken(j, i))
         /\ \A P \in Lasting(j) : Head(todo[t]) \notin P
  <1>1. Shape /\ JobInv(j) /\ Tokens(j) /\ Fresh(j) /\ 1 \in DOMAIN todo[t] /\ Head(todo[t]) = todo[t][1]
    BY HeadStep DEF LoopInv, PoolInv, JobInv
  <1>2. Head(todo[t]) \in CallToken(j) /\ Head(todo[t]) \in Starter(j) /\ Head(todo[t]) \in CallOf(j)
    BY DEF CallToken, Starter, CallOf
  <1>3. Present(CallToken(j)) /\ Present(Starter(j)) /\ Present(CallOf(j))
    BY <1>1, <1>2 DEF Present, OnThread
  <1>4. j \notin returned
    BY <1>1, <1>3 DEF Tokens
  <1>5. ~Present(BegunToken(j)) /\ ~Present({<<"inline", j>>}) /\ ~Present({<<"return", j>>})
    <2>1. BegunToken(j) \subseteq CallToken(j) /\ Head(todo[t]) \notin BegunToken(j)
      BY DEF CallToken, BegunToken
    <2>2. ~Present(BegunToken(j))
      BY <2>1, <1>1, <1>2, OnlyOne DEF Tokens
    <2> QED BY <2>2, MorePresent DEF BegunToken
  <1>6. ~Begun(j)
    BY <1>4, <1>5, ParallelAssumption DEF Begun, Launched
  <1>7. left[j] = 0 /\ Flight(j) = {} /\ \A x \in DOMAIN ran[j] : ran[j][x] = 0
    BY <1>1, <1>6 DEF Fresh
  <1>8. ASSUME NEW i \in Slots(j) PROVE ~Present(ChunkToken(j, i)) /\ ~Present(UnrunToken(j, i))
    <2>1. ~Present(ChunkToken(j, i))
      BY <1>7 DEF Flight
    <2> QED BY <2>1, MorePresent DEF ChunkToken, UnrunToken
  <1>9. ASSUME NEW P \in Lasting(j) PROVE Head(todo[t]) \notin P
    <2>1. CASE P \in {{<<"inline", j>>}, {<<"return", j>>}, BegunToken(j)}
      BY <2>1 DEF BegunToken
    <2>2. ASSUME NEW i \in Index, P = ChunkToken(j, i) \/ P = UnrunToken(j, i) PROVE Head(todo[t]) \notin P
      BY <2>2 DEF ChunkToken, UnrunToken
    <2> QED BY <2>1, <2>2 DEF Lasting
  <1> QED BY <1>1, <1>3, <1>4, <1>5, <1>6, <1>7, <1>8, <1>9

(* What the step does not change in the variables of z *)
SameVars(z) ==
    /\ z \in returned' <=> z \in returned
    /\ z \in Launched => (z \in made' <=> z \in made)
    /\ z \in Jobs => /\ left'[z] = left[z] /\ ran'[z] = ran[z]
                     /\ (z \in early => z \in early') /\ (z \in eptr => z \in eptr')

LEMMA OthersFrame ==
  ASSUME LoopInv, NEW t \in Threads, todo[t] # <<>>, NEW steps \in Seq(Working), Emits(t, steps), NEW x,
         Head(todo[t])[2] = x, \A n \in DOMAIN steps : steps[n][1] \in Kinds => steps[n][2] = x,
         \A u \in asleep \ asleep' :
            todo[u] = <<>> \/ Head(todo[u])[1] \notin {"joined", "return"} \/ Head(todo[u])[2] = x,
         \A z \in (Jobs \cup Launched) \ {x} : SameVars(z)
  PROVE  \A z \in (Jobs \cup Launched) \ {x} : Frame(z)
  <1> SUFFICES ASSUME NEW z \in (Jobs \cup Launched) \ {x} PROVE Frame(z)
    OBVIOUS
  <1>1. Shape /\ Placed
    BY DEF LoopInv, PoolInv
  <1>2. Foreign(Head(todo[t]), z) /\ \A n \in DOMAIN steps : Foreign(steps[n], z)
    BY DEF Foreign
  <1>3. \A u \in asleep \ asleep' : todo[u] = <<>> \/ Head(todo[u]) \notin {<<"joined", z>>, <<"return", z>>}
    OBVIOUS
  <1>4. SameVars(z)
    OBVIOUS
  <1> QED BY <1>1, <1>2, <1>3, <1>4, EmitFrame DEF SameVars

(* parallel_for with nothing to do. *)
LEMMA ForEmpty ==
  ASSUME LoopInv, NEW t \in Threads, NEW j \in Jobs, todo[t] # <<>>, Head(todo[t]) = <<"for", j>>,
         Size[j] = 0, Continue(t, <<>>), returned' = returned \cup {j},
         UNCHANGED <<tasks, asleep, made, left, eptr, ran, early>>
  PROVE  Preserved
  <1>1. Shape /\ Placed /\ JobTyped
    BY DEF LoopInv, PoolInv
  <1>2. /\ JobInv(j) /\ j \notin returned /\ ~Begun(j)
        /\ Present(CallToken(j)) /\ Present(Starter(j)) /\ Present(CallOf(j))
        /\ ~Present({<<"inline", j>>}) /\ ~Present({<<"return", j>>}) /\ ~Present(BegunToken(j))
        /\ left[j] = 0 /\ Flight(j) = {} /\ \A x \in DOMAIN ran[j] : ran[j][x] = 0
        /\ \A i \in Slots(j) : ~Present(ChunkToken(j, i)) /\ ~Present(UnrunToken(j, i))
        /\ \A P \in Lasting(j) : Head(todo[t]) \notin P
    BY ForIsFresh
  <1>3. PICK steps \in Seq(Working) : steps = <<>>
    BY ShortLines
  <1>4. Emits(t, steps) /\ Continue(t, steps) /\ DOMAIN steps = {}
    BY <1>3 DEF Emits
  <1>5. JobTyped'
    BY <1>1 DEF JobTyped
  <1>6. Placed'
    <2>1. \A u \in Threads : WellPlaced(todo[u], u)'
      BY <1>1, <1>3, <1>4, PlainPlaced
    <2> QED BY <2>1, <1>1 DEF Placed, Slots, NumTasks, UsesPool, ChunkSize, divup, AtLeast, get_num_threads
  <1>7. \A z \in (Jobs \cup Launched) \ {j} : Frame(z)
    <2>1. \A z \in (Jobs \cup Launched) \ {j} : SameVars(z)
      BY DEF SameVars
    <2>2. Head(todo[t])[2] = j /\ \A n \in DOMAIN steps : steps[n][2] = j
      BY <1>4
    <2> QED BY <2>1, <2>2, <1>4, OthersFrame
  <1>8. \A P \in Lasting(j) : Present(P)' => Present(P)
    BY <1>1, <1>4, EmitTokens
  <1>9. ~Present(CallToken(j))' /\ Single(CallToken(j))' /\ Single(Starter(j))' /\ ~Present({<<"inline", j>>})'
    <2>1. Head(todo[t]) \in CallToken(j) /\ Single(CallToken(j)) /\ Single(Starter(j))
      BY <1>2 DEF CallToken, JobInv, Tokens
    <2> QED BY <2>1, <1>1, <1>2, <1>4, <1>8, EmitTokens, Members
  <1>10. Slots(j) = {}
    BY DEF Slots, UsesPool
  <1>11. Flight(j)' = {}
    BY <1>10 DEF Flight
  <1>12. DOMAIN ran[j] = {}
    BY <1>1 DEF JobTyped
  <1>13. JobInv(j)'
    <2>1. Tokens(j)'
      BY <1>9, <1>10 DEF Tokens
    <2>2. Fresh(j)'
      BY <1>9 DEF Fresh, Begun
    <2>3. LeftIsExact(j)'
      BY <1>2, <1>11 DEF LeftIsExact
    <2>4. RanIsExact(j)'
      BY <1>10, <1>12 DEF RanIsExact
    <2> QED BY <2>1, <2>2, <2>3, <2>4 DEF JobInv
  <1>14. Calm(j)
    BY <1>2 DEF Calm, Begun
  <1>15. Kept(j)
    BY <1>13, ParallelAssumption DEF Kept, Launched
  <1> QED BY <1>5, <1>6, <1>7, <1>14, <1>15, ActedKeeps

(* parallel_for on the thread that calls it. *)
LEMMA ForInline ==
  ASSUME LoopInv, NEW t \in Threads, NEW j \in Jobs, todo[t] # <<>>, Head(todo[t]) = <<"for", j>>,
         Continue(t, <<<<"inline", j>>>>),
         UNCHANGED <<tasks, asleep, made, left, eptr, ran, early, returned>>
  PROVE  Preserved
  <1>1. Shape /\ Placed /\ JobTyped
    BY DEF LoopInv, PoolInv
  <1>2. /\ JobInv(j) /\ j \notin returned /\ ~Begun(j)
        /\ Present(CallToken(j)) /\ Present(Starter(j)) /\ Present(CallOf(j))
        /\ ~Present({<<"inline", j>>}) /\ ~Present({<<"return", j>>}) /\ ~Present(BegunToken(j))
        /\ left[j] = 0 /\ Flight(j) = {} /\ \A x \in DOMAIN ran[j] : ran[j][x] = 0
        /\ \A i \in Slots(j) : ~Present(ChunkToken(j, i)) /\ ~Present(UnrunToken(j, i))
        /\ \A P \in Lasting(j) : Head(todo[t]) \notin P
    BY ForIsFresh
  <1>3. PICK steps \in Seq(Working) : steps = <<<<"inline", j>>>>
    BY MakeSteps, ShortLines
  <1>4. Emits(t, steps) /\ Continue(t, steps) /\ DOMAIN steps = {1} /\ steps[1] = <<"inline", j>> /\ Len(steps) = 1
    BY <1>3 DEF Emits
  <1>5. JobTyped'
    BY <1>1 DEF JobTyped
  <1>6. Placed'
    <2>1. \A u \in Threads : WellPlaced(todo[u], u)'
      <3>1. \A n \in DOMAIN steps : steps[n][1] = "inline" /\ n = 1
        BY <1>4
      <3>2. Head(todo[t])[1] \notin {"join", "joined"}
        OBVIOUS
      <3> QED BY <3>1, <3>2, <1>1, <1>4, ContinuePlaced
    <2> QED BY <2>1, <1>1 DEF Placed, Slots, NumTasks, UsesPool, ChunkSize, divup, AtLeast, get_num_threads
  <1>7. \A z \in (Jobs \cup Launched) \ {j} : Frame(z)
    <2>1. \A z \in (Jobs \cup Launched) \ {j} : SameVars(z)
      BY DEF SameVars
    <2>2. Head(todo[t])[2] = j /\ \A n \in DOMAIN steps : steps[n][2] = j
      BY <1>4
    <2> QED BY <2>1, <2>2, <1>4, OthersFrame
  <1>8. /\ ~Present({<<"return", j>>})' /\ Present(BegunToken(j))'
        /\ \A i \in Slots(j) : ~Present(ChunkToken(j, i))' /\ ~Present(UnrunToken(j, i))' /\ Single(ChunkToken(j, i))'
    <2>1. steps[1] \in BegunToken(j) /\ steps[1] \notin {<<"return", j>>}
      BY <1>4 DEF BegunToken
    <2>2. ~Present({<<"return", j>>})'
      BY <2>1, <1>1, <1>2, <1>4, EmitTokens
    <2>3. Present(BegunToken(j))'
      BY <2>1, <1>1, <1>4, EmitTokens
    <2>4. ASSUME NEW i \in Slots(j)
          PROVE  ~Present(ChunkToken(j, i))' /\ ~Present(UnrunToken(j, i))' /\ Single(ChunkToken(j, i))'
      <3>1. steps[1] \notin ChunkToken(j, i) /\ steps[1] \notin UnrunToken(j, i) /\ Single(ChunkToken(j, i))
        BY <1>2, <1>4 DEF ChunkToken, UnrunToken, JobInv, Tokens
      <3> QED BY <3>1, <1>1, <1>2, <1>4, EmitTokens
    <2> QED BY <2>2, <2>3, <2>4
  <1>9. Single(CallToken(j))' /\ Single(Starter(j))'
    <2>1. /\ Head(todo[t]) \in CallToken(j) /\ Single(CallToken(j))
          /\ Head(todo[t]) \in Starter(j) /\ Single(Starter(j))
      BY <1>2 DEF CallToken, Starter, JobInv, Tokens
    <2> QED BY <2>1, <1>1, <1>4, EmitTokens
  <1>10. Flight(j)' = {}
    BY <1>8 DEF Flight
  <1>11. JobInv(j)'
    <2>1. Tokens(j)'
      BY <1>2, <1>8, <1>9 DEF Tokens
    <2>2. Fresh(j)'
      BY <1>2, <1>10 DEF Fresh
    <2>3. LeftIsExact(j)'
      BY <1>2, <1>10, FS_EmptySet DEF LeftIsExact
    <2>4. RanIsExact(j)'
      BY <1>2, <1>8 DEF RanIsExact
    <2> QED BY <2>1, <2>2, <2>3, <2>4 DEF JobInv
  <1>12. Calm(j)
    BY <1>2, <1>8 DEF Calm, Begun
  <1>13. Kept(j)
    BY <1>11, ParallelAssumption DEF Kept, Launched
  <1> QED BY <1>5, <1>6, <1>7, <1>12, <1>13, ActedKeeps

(* Who is past the wait has the end of parallel_for to do. *)
LEMMA PastTheWait ==
  ASSUME Shape, Placed, NEW j, AfterJoin(j)
  PROVE  Present({<<"return", j>>})
  <1>1. PICK u \in Threads : todo[u] # <<>> /\ Head(todo[u]) \in {<<"joined", j>>, <<"return", j>>}
    BY DEF AfterJoin
  <1>2. /\ Head(todo[u]) = todo[u][1] /\ 1 \in DOMAIN todo[u] /\ DOMAIN todo[u] = 1 .. Len(todo[u])
        /\ Len(todo[u]) \in Nat
    BY <1>1, HeadStep
  <1>3. todo[u][1][1] \in {"join", "joined"} => 1 < Len(todo[u]) /\ todo[u][1 + 1] = <<"return", todo[u][1][2]>>
    <2>1. WellPlaced(todo[u], u)
      BY DEF Placed
    <2> QED BY <2>1, <1>2 DEF WellPlaced
  <1>4. PICK n \in DOMAIN todo[u] : todo[u][n] = <<"return", j>>
    <2>1. CASE Head(todo[u]) = <<"joined", j>>
      <3>1. todo[u][1][1] = "joined" /\ todo[u][1][2] = j
        BY <2>1, <1>2
      <3>2. 2 \in DOMAIN todo[u] /\ todo[u][2] = <<"return", j>>
        BY <3>1, <1>2, <1>3
      <3> QED BY <3>2
    <2>2. CASE Head(todo[u]) = <<"return", j>>
      BY <2>2, <1>2
    <2> QED BY <1>1, <2>1, <2>2
  <1> QED BY <1>4 DEF Present, OnThread

(* parallel_for on the pool. *)
LEMMA ForPool ==
  ASSUME LoopInv, NEW t \in Mains, NEW j \in Jobs, todo[t] # <<>>, Head(todo[t]) = <<"for", j>>,
         UsesPool(j), \A n \in DOMAIN todo[t] : todo[t][n][1] # "sub",
         Continue(t, ForLine(j)), left' = [left EXCEPT ![j] = NumTasks(j)],
         UNCHANGED <<tasks, asleep, made, eptr, ran, early, returned>>
  PROVE  Preserved
  <1> DEFINE steps == ForLine(j)
             N == NumTasks(j)
  <1>1. Shape /\ Placed /\ JobTyped /\ t \in Threads
    BY DEF LoopInv, PoolInv, Threads
  <1>2. /\ JobInv(j) /\ j \notin returned /\ ~Begun(j)
        /\ Present(CallToken(j)) /\ Present(Starter(j)) /\ Present(CallOf(j))
        /\ ~Present({<<"inline", j>>}) /\ ~Present({<<"return", j>>}) /\ ~Present(BegunToken(j))
        /\ left[j] = 0 /\ Flight(j) = {} /\ \A x \in DOMAIN ran[j] : ran[j][x] = 0
        /\ \A i \in Slots(j) : ~Present(ChunkToken(j, i)) /\ ~Present(UnrunToken(j, i))
        /\ \A P \in Lasting(j) : Head(todo[t]) \notin P
    BY <1>1, ForIsFresh
  <1>3. /\ steps \in Seq(Working) /\ Len(steps) = N + 2 /\ N \in Nat \ {0}
        /\ \A n \in 1 .. N - 1 : steps[n] = <<"enqueue", j, n>>
        /\ steps[N] = <<"chunk", j, 0>> /\ steps[N + 1] = <<"join", j>> /\ steps[N + 2] = <<"return", j>>
    BY ForLineIsWork DEF UsesPool
  <1>4. Emits(t, steps) /\ Continue(t, steps) /\ DOMAIN steps = 1 .. N + 2
    BY <1>3, LenProperties DEF Emits
  <1>5. Slots(j) = 0 .. N - 1
    BY DEF Slots
  <1> HIDE DEF steps, N
  <1>6. ASSUME NEW n \in DOMAIN steps
        PROVE  \/ n \in 1 .. N - 1 /\ steps[n] = <<"enqueue", j, n>>
               \/ n = N /\ steps[n] = <<"chunk", j, 0>>
               \/ n = N + 1 /\ steps[n] = <<"join", j>>
               \/ n = N + 2 /\ steps[n] = <<"return", j>>
    <2>1. n \in 1 .. N - 1 \/ n = N \/ n = N + 1 \/ n = N + 2
      BY <1>3, <1>4
    <2> QED BY <2>1, <1>3
  <1>7. JobTyped'
    BY <1>1, <1>3 DEF JobTyped, N
  <1>8. Placed'
    <2>1. ASSUME NEW n \in DOMAIN steps
          PROVE  /\ steps[n][1] \in {"enqueue", "chunk", "sub"} => steps[n][3] \in Slots(steps[n][2])
                 /\ steps[n][1] = "enqueue" => steps[n][3] # 0
                 /\ steps[n][1] \notin {"inline", "joined", "sub"}
                 /\ steps[n][1] = "return" => n > 1 /\ steps[n - 1] = <<"join", steps[n][2]>>
                 /\ steps[n][1] = "join" => n < Len(steps) /\ steps[n + 1] = <<"return", steps[n][2]>>
      <3>1. CASE n \in 1 .. N - 1 /\ steps[n] = <<"enqueue", j, n>>
        BY <3>1, <1>3, <1>5
      <3>2. CASE n = N /\ steps[n] = <<"chunk", j, 0>>
        BY <3>2, <1>3, <1>5
      <3>3. CASE n = N + 1 /\ steps[n] = <<"join", j>>
        <4>1. n < Len(steps) /\ n + 1 = N + 2
          BY <3>3, <1>3
        <4> QED BY <4>1, <3>3, <1>3
      <3>4. CASE n = N + 2 /\ steps[n] = <<"return", j>>
        <4>1. n > 1 /\ n - 1 = N + 1
          BY <3>4, <1>3
        <4> QED BY <4>1, <3>4, <1>3
      <3> QED BY <1>6, <3>1, <3>2, <3>3, <3>4
    <2>2. Head(todo[t])[1] \notin {"join", "joined"}
      OBVIOUS
    <2>3. \A u \in Threads : WellPlaced(todo[u], u)'
      BY <2>1, <2>2, <1>1, <1>3, <1>4, ContinuePlaced
    <2> QED BY <2>3, <1>1 DEF Placed, Slots, NumTasks, UsesPool, ChunkSize, divup, AtLeast, get_num_threads
  <1>9. \A z \in (Jobs \cup Launched) \ {j} : Frame(z)
    <2>1. \A z \in (Jobs \cup Launched) \ {j} : SameVars(z)
      BY <1>1 DEF SameVars, JobTyped
    <2>2. Head(todo[t])[2] = j /\ \A n \in DOMAIN steps : steps[n][2] = j
      BY <1>6
    <2> QED BY <2>1, <2>2, <1>1, <1>3, <1>4, OthersFrame
  <1>10. Present({<<"return", j>>})' /\ Present(BegunToken(j))' /\ ~Present({<<"inline", j>>})'
    <2>1. N + 2 \in DOMAIN steps /\ steps[N + 2] = <<"return", j>>
      BY <1>3, <1>4
    <2>2. Present({<<"return", j>>})' /\ Present(BegunToken(j))'
      <3>1. steps[N + 2] \in {<<"return", j>>} /\ steps[N + 2] \in BegunToken(j)
        BY <2>1 DEF BegunToken
      <3>2. Present({<<"return", j>>})'
        BY <3>1, <2>1, <1>1, <1>3, <1>4, EmitTokens
      <3>3. Present(BegunToken(j))'
        BY <3>1, <2>1, <1>1, <1>3, <1>4, EmitTokens
      <3> QED BY <3>2, <3>3
    <2>3. \A n \in DOMAIN steps : steps[n] \notin {<<"inline", j>>}
      BY <1>6
    <2>4. ~Present({<<"inline", j>>})'
      BY <2>3, <1>1, <1>2, <1>3, <1>4, EmitTokens
    <2> QED BY <2>2, <2>4
  <1>11. Single(CallToken(j))' /\ Single(Starter(j))'
    <2>1. /\ Head(todo[t]) \in CallToken(j) /\ Single(CallToken(j))
          /\ Head(todo[t]) \in Starter(j) /\ Single(Starter(j))
      BY <1>2 DEF CallToken, Starter, JobInv, Tokens
    <2>2. \A n \in DOMAIN steps : steps[n] \in CallToken(j) => n = N + 2
      BY <1>6 DEF CallToken
    <2>3. \A n \in DOMAIN steps : steps[n] \in Starter(j) => n = N
      BY <1>6 DEF Starter
    <2> QED BY <2>1, <2>2, <2>3, <1>1, <1>3, <1>4, EmitTokens
  <1>12. ASSUME NEW i \in Slots(j)
         PROVE  Present(ChunkToken(j, i))' /\ Present(UnrunToken(j, i))' /\ Single(ChunkToken(j, i))'
    <2> DEFINE m == IF i = 0 THEN N ELSE i
    <2>1. m \in DOMAIN steps /\ steps[m] \in UnrunToken(j, i) /\ steps[m] \in ChunkToken(j, i)
      <3>1. CASE i = 0
        <4>1. m = N /\ N \in DOMAIN steps /\ steps[N] = <<"chunk", j, i>>
          BY <3>1, <1>3, <1>4
        <4> QED BY <4>1 DEF UnrunToken, ChunkToken
      <3>2. CASE i # 0
        <4>1. i \in 1 .. N - 1 /\ i \in 1 .. N + 2
          BY <3>2, <1>3, <1>5
        <4> QED BY <4>1, <3>2, <1>3, <1>4 DEF UnrunToken, ChunkToken
      <3> QED BY <3>1, <3>2
    <2>2. ASSUME NEW n \in DOMAIN steps, steps[n] \in ChunkToken(j, i) PROVE n = m
      <3>1. CASE n \in 1 .. N - 1 /\ steps[n] = <<"enqueue", j, n>>
        BY <3>1, <2>2, <1>3 DEF ChunkToken
      <3>2. CASE n = N /\ steps[n] = <<"chunk", j, 0>>
        BY <3>2, <2>2 DEF ChunkToken
      <3> QED BY <1>6, <2>2, <3>1, <3>2 DEF ChunkToken
    <2> HIDE DEF m
    <2>3. ~Present(ChunkToken(j, i))
      BY <1>2
    <2> QED BY <2>1, <2>2, <2>3, <1>1, <1>3, <1>4, EmitTokens
  <1>13. Flight(j)' = Slots(j)
    BY <1>12 DEF Flight
  <1>14. left'[j] = N /\ Cardinality(Slots(j)) = N
    BY <1>1, SlotsAreIndices DEF JobTyped, N
  <1>15. ~AfterJoin(j)'
    <2>1. ~AfterJoin(j)
      BY <1>1, <1>2, PastTheWait
    <2>2. AfterJoin(j)' => AfterJoin(j)
      <3>1. Head(todo[t]) \notin {<<"join", j>>, <<"joined", j>>}
        OBVIOUS
      <3>2. todo'[t] = <<>> \/ Head(todo'[t]) \notin {<<"joined", j>>, <<"return", j>>}
        <4>1. /\ DOMAIN todo'[t] = 1 .. Len(steps) + Len(todo[t]) - 1 /\ Len(todo[t]) \in Nat \ {0}
              /\ \A n \in 1 .. Len(steps) : todo'[t][n] = steps[n]
          BY <1>1, <1>3, <1>4, NewPlaces
        <4>2. todo'[t][1] = steps[1] /\ 1 \in DOMAIN steps
          <5>1. 1 \in 1 .. Len(steps) /\ 1 \in 1 .. N + 2
            BY <1>3
          <5> QED BY <5>1, <4>1, <1>4
        <4>3. steps[1] \notin {<<"joined", j>>, <<"return", j>>}
          <5>1. 1 # N + 2
            BY <1>3
          <5> QED BY <4>2, <5>1, <1>6
        <4>4. todo'[t] \in Seq(Steps)
          <5>1. todo' = [todo EXCEPT ![t] = steps \o Tail(todo[t])] /\ todo \in [Threads -> Seq(Steps)]
            BY <1>1, <1>4 DEF Continue, Shape, Typed
          <5>2. steps \o Tail(todo[t]) \in Seq(Steps)
            BY <1>1, <1>3, Replaced
          <5> QED BY <5>1, <5>2, <1>1
        <4>5. todo'[t] # <<>> => Head(todo'[t]) = todo'[t][1]
          BY <4>4
        <4> QED BY <4>2, <4>3, <4>5
      <3>3. \A u \in Threads \ {t} : todo'[u] = todo[u]
        BY <1>1, <1>3, <1>4, NewPlaces
      <3> QED BY <3>2, <3>3, <1>1, JoinKept
    <2> QED BY <2>1, <2>2
  <1>16. JobInv(j)'
    <2>1. Tokens(j)'
      BY <1>2, <1>11, <1>12 DEF Tokens
    <2>2. Fresh(j)'
      BY <1>10 DEF Fresh, Begun
    <2>3. LeftIsExact(j)'
      BY <1>2, <1>13, <1>14, <1>15 DEF LeftIsExact
    <2>4. RanIsExact(j)'
      <3>1. \A x \in DOMAIN ran[j] : \E i \in Slots(j) : x \in Chunk(j, i)
        BY <1>1, ChunkIs DEF JobTyped
      <3>2. \A i \in Slots(j) : \A x \in Chunk(j, i) : ran[j][x] = 0
        <4>1. \A i \in Slots(j) : \A x \in Chunk(j, i) : x \in DOMAIN ran[j]
          BY <1>1, ChunkIs DEF JobTyped
        <4> QED BY <4>1, <1>2
      <3> QED BY <3>1, <3>2, <1>2, <1>12 DEF RanIsExact, Slots, Chunk, NumTasks, UsesPool, ChunkSize, divup, AtLeast, AtMost, get_num_threads
    <2> QED BY <2>1, <2>2, <2>3, <2>4 DEF JobInv
  <1>17. Calm(j)
    BY <1>2, <1>10 DEF Calm, Begun
  <1>18. Kept(j)
    BY <1>16, ParallelAssumption DEF Kept, Launched
  <1> QED BY <1>7, <1>8, <1>9, <1>17, <1>18, ActedKeeps

LEMMA JobKeeps ==
  ASSUME LoopInv, NEW t \in Threads, todo[t] # <<>>, NEW steps \in Seq(Working), Emits(t, steps),
         NEW x \in Jobs \cup Launched,
         Head(todo[t])[2] = x, \A n \in DOMAIN steps : steps[n][1] \in Kinds => steps[n][2] = x,
         \A u \in asleep \ asleep' :
            todo[u] = <<>> \/ Head(todo[u])[1] \notin {"joined", "return"} \/ Head(todo[u])[2] = x,
         \A z \in (Jobs \cup Launched) \ {x} : SameVars(z),
         Placed', JobTyped', Kept(x), Calm(x)
  PROVE  Preserved
  <1>1. \A z \in (Jobs \cup Launched) \ {x} : Frame(z)
    BY OthersFrame
  <1> QED BY <1>1, ActedKeeps

LEMMA JobsAreNotLaunched ==
  ASSUME NEW j \in Jobs
  PROVE  j \in Jobs \cup Launched /\ j \notin Launched /\ (Kept(j) <=> JobInv(j)')
  BY ParallelAssumption DEF Kept, Launched

(* parallel_for. *)
LEMMA ForKeeps ==
  ASSUME LoopInv, NEW t \in Threads, ParallelFor(t)
  PROVE  Preserved
  <1> DEFINE j == Arg(t)
  <1>1. Shape
    BY DEF LoopInv, PoolInv
  <1>2. At(t, "for") /\ Head(todo[t]) \in Steps /\ Head(todo[t])[1] = "for" /\ j = Head(todo[t])[2]
    BY <1>1, ArgsAt DEF ParallelFor
  <1>3. j \in Jobs /\ Head(todo[t]) = <<"for", j>> /\ todo[t] # <<>>
    BY <1>2, StepArgs DEF At
  <1>4. UNCHANGED <<tasks, asleep, made, eptr, ran, early>>
    BY DEF ParallelFor, poolState, futureState
  <1> DEFINE pool == /\ Size[j] > Grain[j] /\ Size[j] > 1
                     /\ ~in_parallel_region(t) /\ get_num_threads > 1
  <1>5. \/ Size[j] = 0 /\ Continue(t, <<>>) /\ returned' = returned \cup {j} /\ UNCHANGED left
        \/ Continue(t, <<<<"inline", j>>>>) /\ UNCHANGED <<left, returned>>
        \/ /\ pool /\ left' = [left EXCEPT ![j] = NumTasks(j)]
           /\ Continue(t, ForLine(j)) /\ UNCHANGED returned
    BY DEF ParallelFor, ForLine
  <1>6. pool => UsesPool(j) /\ t \in Mains /\ \A n \in DOMAIN todo[t] : todo[t][n][1] # "sub"
    BY DEF UsesPool, in_parallel_region, Threads
  <1> HIDE DEF j, pool
  <1> QED BY <1>3, <1>4, <1>5, <1>6, ForEmpty, ForInline, ForPool

(* The head is replaced by a step that stands for the same tokens. *)
LEMMA SwapTokens ==
  ASSUME Shape, NEW t \in Threads, todo[t] # <<>>, NEW steps \in Seq(Working), Emits(t, steps), NEW P,
         \A n, k \in DOMAIN steps : steps[n] \in P /\ steps[k] \in P => n = k,
         Head(todo[t]) \in P <=> \E n \in DOMAIN steps : steps[n] \in P
  PROVE  (Present(P)' <=> Present(P)) /\ (Single(P) => Single(P)')
  <1>1. CASE Head(todo[t]) \in P
    <2>1. Present(P)
      <3>1. Head(todo[t]) = todo[t][1] /\ 1 \in DOMAIN todo[t]
        BY HeadStep
      <3> QED BY <3>1, <1>1 DEF Present, OnThread
    <2>2. Present(P)'
      BY <1>1, EmitTokens
    <2>3. Single(P) => Single(P)'
      BY <1>1, EmitTokens
    <2> QED BY <2>1, <2>2, <2>3
  <1>2. CASE Head(todo[t]) \notin P
    BY <1>2, EmitTokens
  <1> QED BY <1>1, <1>2

LEMMA SubSingle ==
  ASSUME NEW P, NEW Q, P \subseteq Q, Single(Q)
  PROVE  Single(P)
  BY Zenon DEF Single, OnThread, InQueue

(* Nothing is new, and what the tokens say of a job stays. *)
LEMMA SameTokens ==
  ASSUME NEW j \in Jobs, JobInv(j),
         \A P \in Family(j) : (Present(P)' <=> Present(P)) /\ (Single(P) => Single(P)'),
         j \in returned' <=> j \in returned, left'[j] = left[j], ran'[j] = ran[j],
         j \in early => j \in early', j \in eptr => j \in eptr',
         AfterJoin(j)' => AfterJoin(j) \/ left[j] = 0 \/ j \in early'
  PROVE  JobInv(j)' /\ Calm(j)
  <1>1. Tokens(j)'
    BY Members, SlotsAreIndices DEF Tokens, JobInv
  <1>2. \A P \in Lasting(j) : Present(P)' <=> Present(P)
    BY Members
  <1>3. JobInv(j)' /\ (Begun(j)' <=> Begun(j))
    BY <1>1, <1>2, SameJob
  <1>4. Calm(j)
    BY <1>3, Members DEF Calm
  <1> QED BY <1>3, <1>4

LEMMA FamilyOf ==
  ASSUME NEW j, NEW P \in Family(j)
  PROVE  /\ <<"join", j>> \notin P /\ <<"joined", j>> \notin P
         /\ \A i \in Index \ {0} : <<"enqueue", j, i>> \in P <=> <<"chunk", j, i>> \in P
  <1>1. CASE P \in {ChunkToken(j, i) : i \in Index} \cup {UnrunToken(j, i) : i \in Index}
    <2>1. PICK i \in Index : P = ChunkToken(j, i) \/ P = UnrunToken(j, i)
      BY <1>1
    <2> QED BY <2>1 DEF ChunkToken, UnrunToken
  <1>2. CASE P \in {{<<"inline", j>>}, {<<"return", j>>}, BegunToken(j), CallToken(j), Starter(j), CallOf(j),
                    {<<"launch", j>>}, {<<"func", j>>}}
    BY <1>2 DEF BegunToken, CallToken, Starter, CallOf, Index
  <1> QED BY <1>1, <1>2 DEF Family, Lasting

(* _run_with_pool gives a chunk to the pool. *)
LEMMA EnqueueKeeps ==
  ASSUME LoopInv, NEW t \in Threads, Enqueue(t)
  PROVE  Preserved
  <1>1. Shape /\ Placed /\ JobTyped
    BY DEF LoopInv, PoolInv
  <1>2. At(t, "enqueue") /\ Head(todo[t]) \in Steps /\ Head(todo[t])[1] = "enqueue" /\ Arg(t) = Head(todo[t])[2]
    BY <1>1, ArgsAt DEF Enqueue
  <1>3. PICK j \in Jobs, i \in Index : Head(todo[t]) = <<"enqueue", j, i>> /\ todo[t] # <<>> /\ Arg(t) = j
    BY <1>2, StepArgs DEF At
  <1>4. PICK steps \in Seq(Working) : steps = <<<<"chunk", j, i>>>>
    BY <1>3, MakeSteps, ShortLines
  <1>5. Run(steps) /\ Continue(t, <<>>) /\ UNCHANGED <<futureState, jobState>>
    <2>1. Head(todo[t])[3] = i
      BY <1>3
    <2> QED BY <2>1, <1>3, <1>4 DEF Enqueue
  <1>6. i \in Slots(j) /\ i # 0
    <2>1. WellPlaced(todo[t], t)
      BY <1>1 DEF Placed
    <2>2. Head(todo[t]) = todo[t][1] /\ 1 \in DOMAIN todo[t]
      BY <1>1, <1>3, HeadStep
    <2> QED BY <2>1, <2>2, <1>3 DEF WellPlaced
  <1>7. Emits(t, steps) /\ DOMAIN steps = {1} /\ steps[1] = <<"chunk", j, i>>
    BY <1>4, <1>5 DEF Emits, Run
  <1>8. UNCHANGED <<made, left, eptr, ran, returned, early>>
    BY <1>5 DEF futureState, jobState
  <1>9. JobTyped'
    BY <1>1, <1>8 DEF JobTyped
  <1>10. Placed'
    <2>1. PICK none \in Seq(Working) : none = <<>>
      BY ShortLines
    <2>2. DOMAIN none = {} /\ Continue(t, none)
      BY <2>1, <1>5
    <2>3. \A u \in Threads : WellPlaced(todo[u], u)'
      BY <2>1, <2>2, <1>1, <1>3, PlainPlaced
    <2>4. \A n \in DOMAIN steps : steps[n][1] = "chunk" /\ n = 1 /\ steps[n][3] \in Slots(steps[n][2])
      BY <1>6, <1>7
    <2>5. tasks' = Append(tasks, steps)
      BY <1>5 DEF Run
    <2> QED BY <2>3, <2>4, <2>5, <1>1, RunPlaced
  <1>11. Undisturbed
    <2>1. condition[1] \notin {"joined", "return"} /\ NotifyOne(condition)
      BY <1>5 DEF condition, Run
    <2> QED BY <2>1, WakesNobody
  <1>12. \A z \in (Jobs \cup Launched) \ {j} : SameVars(z)
    BY <1>8 DEF SameVars
  <1>13. \A P \in Family(j) : (Present(P)' <=> Present(P)) /\ (Single(P) => Single(P)')
    <2> TAKE P \in Family(j)
    <2>1. <<"enqueue", j, i>> \in P <=> <<"chunk", j, i>> \in P
      BY <1>6, FamilyOf
    <2>2. Head(todo[t]) \in P <=> \E n \in DOMAIN steps : steps[n] \in P
      BY <2>1, <1>3, <1>7, Zenon
    <2> QED BY <2>2, <1>1, <1>3, <1>7, SwapTokens
  <1>14. AfterJoin(j)' => AfterJoin(j)
    <2>1. Head(todo[t]) \notin {<<"join", j>>, <<"joined", j>>}
      BY <1>3
    <2>2. \A n \in DOMAIN steps : steps[n] \notin {<<"joined", j>>, <<"return", j>>}
      BY <1>7
    <2>3. \A u \in asleep \ asleep' : todo[u] = <<>> \/ Head(todo[u]) \notin {<<"joined", j>>, <<"return", j>>}
      BY <1>11 DEF Undisturbed
    <2> QED BY <2>1, <2>2, <2>3, <1>1, <1>3, <1>7, EmitJoin
  <1>15. JobInv(j)' /\ Calm(j)
    <2>1. JobInv(j)
      BY <1>3 DEF LoopInv
    <2> QED BY <2>1, <1>3, <1>8, <1>13, <1>14, SameTokens
  <1>16. Head(todo[t])[2] = j /\ \A n \in DOMAIN steps : steps[n][2] = j
    BY <1>3, <1>7
  <1>17. j \in Jobs \cup Launched /\ Kept(j)
    BY <1>3, <1>15, JobsAreNotLaunched
  <1> QED BY <1>3, <1>7, <1>9, <1>10, <1>11, <1>12, <1>15, <1>16, <1>17, JobKeeps DEF Undisturbed

(* The end of the wait. *)
LEMMA JoinedKeeps ==
  ASSUME LoopInv, NEW t \in Threads, Joined(t)
  PROVE  Preserved
  <1>1. Shape /\ Placed /\ JobTyped
    BY DEF LoopInv, PoolInv
  <1>2. At(t, "joined") /\ Head(todo[t]) \in Steps /\ Head(todo[t])[1] = "joined" /\ Arg(t) = Head(todo[t])[2]
    BY <1>1, ArgsAt DEF Joined
  <1>3. PICK j \in Jobs : Head(todo[t]) = <<"joined", j>> /\ todo[t] # <<>> /\ t \notin asleep /\ Arg(t) = j
    BY <1>2, StepArgs DEF At
  <1>4. PICK steps \in Seq(Working) : steps = <<>>
    BY ShortLines
  <1>5. Continue(t, steps) /\ UNCHANGED <<poolState, asleep, futureState, jobState>>
    BY <1>4 DEF Joined
  <1>6. UNCHANGED <<tasks, made, left, eptr, ran, returned, early, asleep>>
    BY <1>5 DEF futureState, jobState, poolState
  <1>7. Emits(t, steps) /\ DOMAIN steps = {}
    BY <1>4, <1>5, <1>6 DEF Emits
  <1>8. JobTyped'
    BY <1>1, <1>6 DEF JobTyped
  <1>9. Placed'
    <2>1. \A u \in Threads : WellPlaced(todo[u], u)'
      BY <1>1, <1>3, <1>4, <1>5, <1>7, PlainPlaced
    <2> QED BY <2>1, <1>1, <1>6 DEF Placed, Slots, NumTasks, UsesPool, ChunkSize, divup, AtLeast, get_num_threads
  <1>10. \A z \in (Jobs \cup Launched) \ {j} : SameVars(z)
    BY <1>6 DEF SameVars
  <1>11. \A P \in Family(j) : (Present(P)' <=> Present(P)) /\ (Single(P) => Single(P)')
    <2> TAKE P \in Family(j)
    <2>1. Head(todo[t]) \notin P
      <3>1. <<"joined", j>> \notin P
        BY FamilyOf
      <3> QED BY <3>1, <1>3, Zenon
    <2> QED BY <2>1, <1>1, <1>3, <1>7, SwapTokens
  <1>12. AfterJoin(j)
    BY <1>3 DEF AfterJoin
  <1>13. JobInv(j)' /\ Calm(j)
    <2>1. JobInv(j)
      BY <1>3 DEF LoopInv
    <2> QED BY <2>1, <1>3, <1>6, <1>11, <1>12, SameTokens
  <1>14. Head(todo[t])[2] = j /\ \A n \in DOMAIN steps : steps[n][2] = j
    BY <1>3, <1>7
  <1>15. j \in Jobs \cup Launched /\ Kept(j)
    BY <1>3, <1>13, JobsAreNotLaunched
  <1> QED BY <1>3, <1>6, <1>7, <1>8, <1>9, <1>10, <1>13, <1>14, <1>15, JobKeeps

(* The wait. *)
LEMMA JoinKeeps ==
  ASSUME LoopInv, NEW t \in Threads, Join(t)
  PROVE  Preserved
  <1>1. Shape /\ Placed /\ JobTyped
    BY DEF LoopInv, PoolInv
  <1>2. At(t, "join") /\ Head(todo[t]) \in Steps /\ Head(todo[t])[1] = "join" /\ Arg(t) = Head(todo[t])[2]
    BY <1>1, ArgsAt DEF Join
  <1>3. PICK j \in Jobs : Head(todo[t]) = <<"join", j>> /\ todo[t] # <<>> /\ t \notin asleep /\ Arg(t) = j
    BY <1>2, StepArgs DEF At
  <1>4. PICK steps \in Seq(Working) :
            \/ left[j] = 0 /\ steps = <<>> /\ Continue(t, steps) /\ asleep' = asleep
            \/ steps = <<<<"joined", j>>>> /\ Continue(t, steps) /\ asleep' = asleep \cup {t}
    <2>1. <<>> \in Seq(Working) /\ <<<<"joined", j>>>> \in Seq(Working)
      BY <1>3, MakeSteps, ShortLines
    <2>2. \/ left[j] = 0 /\ Continue(t, <<>>) /\ asleep' = asleep
          \/ Continue(t, <<<<"joined", j>>>>) /\ asleep' = asleep \cup {t}
      BY <1>3 DEF Join
    <2> QED BY <2>1, <2>2
  <1>5. UNCHANGED <<tasks, made, left, eptr, ran, returned, early>>
    BY DEF futureState, jobState, poolState, Join
  <1>6. Emits(t, steps) /\ Continue(t, steps) /\ asleep \subseteq asleep'
    BY <1>4, <1>5 DEF Emits
  <1>7. \/ left[j] = 0 /\ steps = <<>> /\ DOMAIN steps = {} /\ asleep' = asleep
        \/ /\ DOMAIN steps = {1} /\ Len(steps) = 1 /\ steps[1] = <<"joined", j>>
           /\ asleep' = asleep \cup {t}
    BY <1>4
  <1>8. JobTyped'
    BY <1>1, <1>5 DEF JobTyped
  <1>9. Placed'
    <2>1. CASE steps = <<>> /\ DOMAIN steps = {}
      <3>1. \A u \in Threads : WellPlaced(todo[u], u)'
        BY <2>1, <1>1, <1>3, <1>6, PlainPlaced
      <3> QED BY <3>1, <1>1, <1>5 DEF Placed, Slots, NumTasks, UsesPool, ChunkSize, divup, AtLeast, get_num_threads
    <2>2. CASE DOMAIN steps = {1} /\ Len(steps) = 1 /\ steps[1] = <<"joined", j>>
      <3>1. 2 \in DOMAIN todo[t] /\ todo[t][2] = <<"return", j>>
        <4>1. WellPlaced(todo[t], t)
          BY <1>1 DEF Placed
        <4>2. /\ Head(todo[t]) = todo[t][1] /\ 1 \in DOMAIN todo[t] /\ DOMAIN todo[t] = 1 .. Len(todo[t])
              /\ Len(todo[t]) \in Nat
          BY <1>1, <1>3, HeadStep
        <4>3. todo[t][1][1] = "join" /\ todo[t][1][2] = j
          BY <4>2, <1>3
        <4>4. 1 < Len(todo[t]) /\ todo[t][1 + 1] = <<"return", todo[t][1][2]>>
          BY <4>1, <4>2, <4>3 DEF WellPlaced
        <4> QED BY <4>2, <4>3, <4>4
      <3>2. \A n \in DOMAIN steps : n = 1 /\ n = Len(steps) /\ steps[n][1] = "joined" /\ steps[n][2] = j
        BY <2>2
      <3>3. steps[Len(steps)] = <<"joined", Head(todo[t])[2]>>
        BY <2>2, <1>3
      <3>4. \A u \in Threads : WellPlaced(todo[u], u)'
        BY <3>1, <3>2, <3>3, <1>1, <1>3, <1>6, ContinuePlaced
      <3> QED BY <3>4, <1>1, <1>5 DEF Placed, Slots, NumTasks, UsesPool, ChunkSize, divup, AtLeast, get_num_threads
    <2> QED BY <2>1, <2>2, <1>7
  <1>10. \A z \in (Jobs \cup Launched) \ {j} : SameVars(z)
    BY <1>5 DEF SameVars
  <1>11. \A P \in Family(j) : (Present(P)' <=> Present(P)) /\ (Single(P) => Single(P)')
    <2> TAKE P \in Family(j)
    <2>1. Head(todo[t]) \notin P /\ \A n \in DOMAIN steps : steps[n] \notin P
      <3>1. <<"join", j>> \notin P /\ <<"joined", j>> \notin P
        BY FamilyOf
      <3> QED BY <3>1, <1>3, <1>7, Zenon
    <2> QED BY <2>1, <1>1, <1>3, <1>6, SwapTokens
  <1>12. AfterJoin(j)' => AfterJoin(j) \/ left[j] = 0
    <2>1. SUFFICES ASSUME AfterJoin(j)', asleep' = asleep \cup {t}
                   PROVE  AfterJoin(j)
      BY <1>7
    <2>2. PICK u \in Threads \ asleep' : todo'[u] # <<>> /\ Head(todo'[u]) \in {<<"joined", j>>, <<"return", j>>}
      BY <2>1 DEF AfterJoin
    <2>3. u # t /\ u \in Threads \ asleep
      BY <2>1, <2>2
    <2>4. todo'[u] = todo[u]
      BY <2>3, <1>1, <1>3, <1>6, NewPlaces
    <2> QED BY <2>2, <2>3, <2>4 DEF AfterJoin
  <1>13. JobInv(j)' /\ Calm(j)
    <2>1. JobInv(j)
      BY <1>3 DEF LoopInv
    <2> QED BY <2>1, <1>3, <1>5, <1>11, <1>12, SameTokens
  <1>14. Head(todo[t])[2] = j /\ \A n \in DOMAIN steps : steps[n][2] = j
    BY <1>3, <1>7
  <1>15. j \in Jobs \cup Launched /\ Kept(j)
    BY <1>3, <1>13, JobsAreNotLaunched
  <1> QED BY <1>3, <1>6, <1>8, <1>9, <1>10, <1>13, <1>14, <1>15, JobKeeps

(* A wait that returns without a notification. *)
LEMMA SpuriousKeeps ==
  ASSUME LoopInv, NEW t \in Threads, SpuriousWakeUp(t)
  PROVE  Preserved
  <1>1. Shape /\ Placed /\ JobTyped
    BY DEF LoopInv, PoolInv
  <1>2. todo[t] # <<>> /\ Head(todo[t]) \in Steps /\ Head(todo[t])[1] = "joined"
    BY <1>1, HeadStep DEF SpuriousWakeUp
  <1>3. PICK j \in Jobs : Head(todo[t]) = <<"joined", j>> /\ Arg(t) = j
    BY <1>2, StepArgs DEF Arg
  <1>4. /\ UNCHANGED <<tasks, todo, made, left, eptr, ran, returned>>
        /\ asleep' = asleep \ {t} /\ early' = early \cup {j}
    BY <1>3 DEF SpuriousWakeUp, futureState, poolState
  <1>5. JobTyped'
    BY <1>1, <1>4 DEF JobTyped
  <1>6. Placed'
    BY <1>1, <1>4 DEF Placed, WellPlaced, Slots, NumTasks, UsesPool, ChunkSize, divup, AtLeast, get_num_threads
  <1>7. \A z \in (Jobs \cup Launched) \ {j} : Frame(z)
    <2> TAKE z \in (Jobs \cup Launched) \ {j}
    <2>1. Quiet(z)
      BY <1>4, StillQuiet
    <2>2. AfterJoin(z)' => AfterJoin(z)
      <3>1. Head(todo[t]) \notin {<<"joined", z>>, <<"return", z>>}
        BY <1>3
      <3> QED BY <3>1, <1>4 DEF AfterJoin
    <2> QED BY <2>1, <2>2, <1>4 DEF Frame
  <1>8. \A P \in Family(j) : (Present(P)' <=> Present(P)) /\ (Single(P) => Single(P)')
    <2> TAKE P \in Family(j)
    <2>1. (OnThread(P)' <=> OnThread(P)) /\ (InQueue(P)' <=> InQueue(P))
      BY <1>4 DEF OnThread, InQueue
    <2>2. Quiet(j)
      BY <1>4, StillQuiet
    <2> QED BY <2>1, <2>2 DEF Present, Quiet
  <1>9. JobInv(j)' /\ Calm(j)
    <2>1. JobInv(j)
      BY <1>3 DEF LoopInv
    <2> QED BY <2>1, <1>3, <1>4, <1>8, SameTokens
  <1>10. j \in Jobs \cup Launched /\ Kept(j)
    BY <1>3, <1>9, JobsAreNotLaunched
  <1> QED BY <1>5, <1>6, <1>7, <1>9, <1>10, ActedKeeps

(* parallel_for returns. *)
LEMMA ReturnKeeps ==
  ASSUME LoopInv, NEW t \in Threads, Return(t)
  PROVE  Preserved
  <1>1. Shape /\ Placed /\ JobTyped
    BY DEF LoopInv, PoolInv
  <1>2. At(t, "return") /\ Head(todo[t]) \in Steps /\ Head(todo[t])[1] = "return" /\ Arg(t) = Head(todo[t])[2]
    BY <1>1, ArgsAt DEF Return
  <1>3. PICK j \in Jobs : Head(todo[t]) = <<"return", j>> /\ todo[t] # <<>> /\ t \notin asleep /\ Arg(t) = j
    BY <1>2, StepArgs DEF At
  <1>4. PICK steps \in Seq(Working) : steps = <<>>
    BY ShortLines
  <1>5. /\ Continue(t, steps) /\ UNCHANGED <<tasks, made, left, eptr, ran, early, asleep>>
        /\ returned' = returned \cup {j}
    BY <1>3, <1>4 DEF Return, futureState, poolState
  <1>6. Emits(t, steps) /\ DOMAIN steps = {}
    BY <1>4, <1>5 DEF Emits
  <1>7. JobInv(j)
    BY <1>3 DEF LoopInv
  <1>8. JobTyped'
    BY <1>1, <1>3, <1>5 DEF JobTyped
  <1>9. Placed'
    <2>1. \A u \in Threads : WellPlaced(todo[u], u)'
      BY <1>1, <1>3, <1>4, <1>5, <1>6, PlainPlaced
    <2> QED BY <2>1, <1>1, <1>5 DEF Placed, Slots, NumTasks, UsesPool, ChunkSize, divup, AtLeast, get_num_threads
  <1>10. \A z \in (Jobs \cup Launched) \ {j} : SameVars(z)
    BY <1>5 DEF SameVars
  <1>11. /\ Present(CallToken(j)) /\ ~Present({<<"inline", j>>}) /\ Present({<<"return", j>>})
         /\ j \notin returned
    <2>1. Single(CallToken(j)) /\ Head(todo[t]) \in CallToken(j)
      BY <1>3, <1>7 DEF JobInv, Tokens, CallToken
    <2>2. Head(todo[t]) \notin {<<"inline", j>>} /\ Head(todo[t]) \in {<<"return", j>>}
      <3>1. <<"return", j>> # <<"inline", j>>
        OBVIOUS
      <3> QED BY <3>1, <1>3, Zenon
    <2>3. {<<"inline", j>>} \subseteq CallToken(j) /\ {<<"return", j>>} \subseteq CallToken(j)
      BY DEF CallToken
    <2>4. Present(CallToken(j)) /\ ~Present({<<"inline", j>>}) /\ Present({<<"return", j>>})
      BY <2>1, <2>2, <2>3, <1>1, <1>3, OnlyOne
    <2> QED BY <2>4, <1>7 DEF JobInv, Tokens
  <1>12. \A P : Present(P)' => Present(P)
    BY <1>1, <1>3, <1>6, EmitTokens
  <1>13. \A i \in Slots(j) : /\ Present(ChunkToken(j, i))' <=> Present(ChunkToken(j, i))
                             /\ Present(UnrunToken(j, i))' <=> Present(UnrunToken(j, i))
    <2> TAKE i \in Slots(j)
    <2>1. Head(todo[t]) \notin ChunkToken(j, i) /\ Head(todo[t]) \notin UnrunToken(j, i)
      BY <1>3 DEF ChunkToken, UnrunToken
    <2> QED BY <2>1, <1>1, <1>3, <1>6, <1>12, EmitTokens
  <1>14. Flight(j)' = Flight(j)
    BY <1>13 DEF Flight
  <1>15. AfterJoin(j) /\ (AfterJoin(j)' => AfterJoin(j))
    BY <1>3 DEF AfterJoin
  <1>16. j \notin early => left[j] = 0 /\ Flight(j) = {}
    BY <1>7, <1>11, <1>15, FlightIsFinite DEF JobInv, LeftIsExact
  <1>17. JobInv(j)'
    <2>1. Tokens(j)'
      <3>1. Single(CallToken(j))' /\ Single(Starter(j))' /\ \A i \in Slots(j) : Single(ChunkToken(j, i))'
        BY <1>1, <1>3, <1>6, <1>7, EmitTokens DEF JobInv, Tokens
      <3>2. ~Present(CallToken(j))'
        <4>1. Head(todo[t]) \in CallToken(j) /\ Single(CallToken(j))
          BY <1>3, <1>7 DEF CallToken, JobInv, Tokens
        <4> QED BY <4>1, <1>1, <1>3, <1>6, EmitTokens
      <3> QED BY <3>1, <3>2 DEF Tokens
    <2>2. Fresh(j)'
      BY <1>5, <1>11, <1>12 DEF Fresh, Begun
    <2>3. LeftIsExact(j)'
      BY <1>5, <1>14, <1>16 DEF LeftIsExact
    <2>4. RanIsExact(j)'
      BY <1>5, <1>7, <1>11, <1>13 DEF JobInv, RanIsExact, Slots, Chunk, NumTasks, UsesPool, ChunkSize, divup, AtLeast, AtMost, get_num_threads
    <2> QED BY <2>1, <2>2, <2>3, <2>4 DEF JobInv
  <1>18. Calm(j)
    <2>1. Begun(j) /\ Begun(j)'
      <3>1. Present(BegunToken(j))
        BY <1>11, MorePresent DEF BegunToken
      <3> QED BY <3>1, <1>5 DEF Begun
    <2> QED BY <2>1, <1>12 DEF Calm
  <1>19. Head(todo[t])[2] = j /\ \A n \in DOMAIN steps : steps[n][2] = j
    BY <1>3, <1>6
  <1>20. j \in Jobs \cup Launched /\ Kept(j)
    BY <1>3, <1>17, JobsAreNotLaunched
  <1> QED BY <1>3, <1>5, <1>6, <1>8, <1>9, <1>10, <1>18, <1>19, <1>20, JobKeeps

(* intraop_launch_future. *)
LEMMA LaunchKeeps ==
  ASSUME LoopInv, NEW t \in Threads, Launch(t)
  PROVE  Preserved
  <1>1. Shape /\ Placed /\ JobTyped
    BY DEF LoopInv, PoolInv
  <1>2. At(t, "launch") /\ Head(todo[t]) \in Steps /\ Head(todo[t])[1] = "launch" /\ Arg(t) = Head(todo[t])[2]
    BY <1>1, ArgsAt DEF Launch
  <1>3. PICK f \in Launched : Head(todo[t]) = <<"launch", f>> /\ todo[t] # <<>> /\ Arg(t) = f
    BY <1>2, StepArgs DEF At
  <1>4. PICK steps \in Seq(Working) : steps = <<<<"func", f>>, <<"mark", f, "value">>>>
    <2>1. f \in Futures /\ "value" \in Outcome
      BY DEF Launched, Outcome
    <2> QED BY <2>1, MakeSteps, ShortLines
  <1>5. /\ DOMAIN steps = {1, 2} /\ steps[1] = <<"func", f>> /\ steps[2] = <<"mark", f, "value">>
        /\ \A n \in DOMAIN steps : steps[n][2] = f
    BY <1>4
  <1>6. /\ made' = made \cup {f} /\ UNCHANGED <<left, eptr, ran, returned, early>>
        /\ \/ Continue(t, steps) /\ UNCHANGED <<tasks, asleep>>
           \/ Continue(t, <<>>) /\ tasks' = Append(tasks, steps) /\ NotifyOne(condition)
    BY <1>3, <1>4 DEF Launch, jobState, poolState, Run
  <1>7. Emits(t, steps)
    BY <1>6 DEF Emits
  <1>8. Undisturbed
    <2>1. condition[1] \notin {"joined", "return"} /\ (NotifyOne(condition) \/ asleep' = asleep)
      BY <1>6 DEF condition
    <2> QED BY <2>1, WakesNobody
  <1>9. JobTyped'
    BY <1>1, <1>6 DEF JobTyped
  <1>10. Placed'
    <2>0. Head(todo[t])[1] \notin {"join", "joined"}
      BY <1>3
    <2>1. CASE Continue(t, steps) /\ tasks' = tasks
      <3>1. \A n \in DOMAIN steps : Plain(steps[n])
        BY <1>5 DEF Plain
      <3>2. \A u \in Threads : WellPlaced(todo[u], u)'
        BY <2>0, <2>1, <3>1, <1>1, <1>3, PlainPlaced
      <3> QED BY <3>2, <1>1, <2>1 DEF Placed, Slots, NumTasks, UsesPool, ChunkSize, divup, AtLeast, get_num_threads
    <2>2. CASE Continue(t, <<>>) /\ tasks' = Append(tasks, steps)
      <3>1. PICK none \in Seq(Working) : none = <<>>
        BY ShortLines
      <3>2. DOMAIN none = {} /\ Continue(t, none)
        BY <3>1, <2>2
      <3>3. \A u \in Threads : WellPlaced(todo[u], u)'
        BY <2>0, <3>1, <3>2, <1>1, <1>3, PlainPlaced
      <3>4. \A n \in DOMAIN steps : steps[n][1] \in {"func", "mark"}
        BY <1>5
      <3> QED BY <3>3, <3>4, <2>2, <1>1, RunPlaced
    <2> QED BY <2>1, <2>2, <1>6
  <1>11. \A z \in (Jobs \cup Launched) \ {f} : SameVars(z)
    BY <1>6 DEF SameVars
  <1>12. f \in Jobs \cup Launched /\ f \notin Jobs
    BY ParallelAssumption DEF Launched
  <1>13. LaunchInv(f)
    BY DEF LoopInv
  <1>14. Single(Starter(f))' /\ ~Present({<<"launch", f>>})'
    <2>1. Head(todo[t]) \in Starter(f) /\ Head(todo[t]) \in {<<"launch", f>>}
      BY <1>3 DEF Starter
    <2>2. Single(Starter(f)) /\ Single({<<"launch", f>>})
      <3>1. {<<"launch", f>>} \subseteq Starter(f) /\ Single(Starter(f))
        BY <1>13 DEF LaunchInv, Starter
      <3> QED BY <3>1, SubSingle
    <2>3. \A n \in DOMAIN steps : steps[n] \notin {<<"launch", f>>} /\ (steps[n] \in Starter(f) => n = 1)
      BY <1>5 DEF Starter
    <2>4. ~Present({<<"launch", f>>})'
      BY <2>1, <2>2, <2>3, <1>1, <1>3, <1>7, EmitTokens
    <2>5. Single(Starter(f))'
      BY <2>1, <2>2, <2>3, <1>1, <1>3, <1>7, EmitTokens
    <2> QED BY <2>4, <2>5
  <1>15. Kept(f)
    BY <1>6, <1>12, <1>14 DEF Kept, LaunchInv
  <1>16. Calm(f)
    <2>1. Present(CallOf(f)) /\ Present(Starter(f)) /\ Begun(f)'
      <3>1. Head(todo[t]) = todo[t][1] /\ 1 \in DOMAIN todo[t]
        BY <1>1, <1>3, HeadStep
      <3>2. todo[t][1] \in CallOf(f) /\ todo[t][1] \in Starter(f)
        BY <3>1, <1>3 DEF CallOf, Starter
      <3>3. f \in made' \cap Launched
        BY <1>6
      <3> QED BY <3>1, <3>2, <3>3 DEF Present, OnThread, Begun
    <2> QED BY <2>1 DEF Calm
  <1>17. Head(todo[t])[2] = f
    BY <1>3
  <1> QED BY <1>3, <1>5, <1>7, <1>8, <1>9, <1>10, <1>11, <1>12, <1>15, <1>16, <1>17, JobKeeps DEF Undisturbed

(* The end of a chunk. *)
LEMMA ChunkDoneKeeps ==
  ASSUME LoopInv, NEW t \in Threads, ChunkDone(t)
  PROVE  Preserved
  <1>1. Shape /\ Placed /\ JobTyped
    BY DEF LoopInv, PoolInv
  <1>2. At(t, "sub") /\ Head(todo[t]) \in Steps /\ Head(todo[t])[1] = "sub" /\ Arg(t) = Head(todo[t])[2]
    BY <1>1, ArgsAt DEF ChunkDone
  <1>3. PICK j \in Jobs, i \in Index : Head(todo[t]) = <<"sub", j, i>> /\ todo[t] # <<>> /\ Arg(t) = j
    BY <1>2, StepArgs DEF At
  <1>4. PICK steps \in Seq(Working) : steps = <<>>
    BY ShortLines
  <1>5. /\ Continue(t, steps) /\ UNCHANGED <<tasks, made, eptr, ran, returned, early>>
        /\ \/ j \in returned /\ UNCHANGED <<left, asleep>>
           \/ /\ j \notin returned /\ left' = [left EXCEPT ![j] = @ - 1]
              /\ \/ left[j] = 1 /\ NotifyOne(<<"joined", j>>)
                 \/ left[j] # 1 /\ UNCHANGED asleep
    BY <1>3, <1>4 DEF ChunkDone, futureState, poolState
  <1>6. Emits(t, steps) /\ DOMAIN steps = {}
    BY <1>4, <1>5 DEF Emits
  <1>7. JobInv(j) /\ i \in Slots(j)
    <2>1. WellPlaced(todo[t], t)
      BY <1>1 DEF Placed
    <2>2. Head(todo[t]) = todo[t][1] /\ 1 \in DOMAIN todo[t]
      BY <1>1, <1>3, HeadStep
    <2>3. i \in Slots(j)
      BY <2>1, <2>2, <1>3 DEF WellPlaced
    <2> QED BY <2>3 DEF LoopInv
  <1>8. JobTyped'
    BY <1>1, <1>5 DEF JobTyped
  <1>9. Placed'
    <2>1. \A u \in Threads : WellPlaced(todo[u], u)'
      BY <1>1, <1>3, <1>4, <1>5, <1>6, PlainPlaced
    <2> QED BY <2>1, <1>1, <1>5 DEF Placed, Slots, NumTasks, UsesPool, ChunkSize, divup, AtLeast, get_num_threads
  <1>10. \A z \in (Jobs \cup Launched) \ {j} : SameVars(z)
    BY <1>1, <1>5 DEF SameVars, JobTyped
  <1>11. /\ \A P : Present(P)' => Present(P)
         /\ \A P : Head(todo[t]) \notin P /\ Present(P) => Present(P)'
    BY <1>1, <1>3, <1>6, EmitTokens
  <1>12. /\ Present(ChunkToken(j, i)) /\ ~Present(ChunkToken(j, i))'
         /\ \A k \in Slots(j) \ {i} : Present(ChunkToken(j, k))' <=> Present(ChunkToken(j, k))
    <2>1. Head(todo[t]) \in ChunkToken(j, i) /\ Single(ChunkToken(j, i))
      BY <1>3, <1>7 DEF ChunkToken, JobInv, Tokens
    <2>2. Present(ChunkToken(j, i))
      BY <2>1, <1>1, <1>3, OnlyOne
    <2>3. ~Present(ChunkToken(j, i))'
      BY <2>1, <1>1, <1>3, <1>6, EmitTokens
    <2>4. \A k \in Slots(j) \ {i} : Head(todo[t]) \notin ChunkToken(j, k)
      BY <1>3 DEF ChunkToken
    <2> QED BY <2>2, <2>3, <2>4, <1>11
  <1>13. i \in Flight(j) /\ Flight(j)' = Flight(j) \ {i}
    BY <1>7, <1>12 DEF Flight
  <1>14. Cardinality(Flight(j)') = Cardinality(Flight(j)) - 1 /\ Cardinality(Flight(j)) \in Nat \ {0}
    BY <1>13, FlightIsFinite, FS_RemoveElement
  <1>15. \A i1 \in Slots(j) : Present(UnrunToken(j, i1))' <=> Present(UnrunToken(j, i1))
    <2>1. \A k : Head(todo[t]) \notin UnrunToken(j, k)
      BY <1>3 DEF UnrunToken
    <2> QED BY <2>1, <1>11
  <1>16. /\ Present({<<"return", j>>})' <=> Present({<<"return", j>>})
         /\ Begun(j)' <=> Begun(j)
         /\ ~Present({<<"inline", j>>}) /\ Begun(j)
    <2>1. Head(todo[t]) \notin {<<"return", j>>} /\ Head(todo[t]) \notin BegunToken(j)
      BY <1>3 DEF BegunToken
    <2>2. ~Present({<<"inline", j>>}) /\ Begun(j)
      BY <1>7, <1>13 DEF JobInv, Fresh
    <2> QED BY <2>1, <2>2, <1>5, <1>11 DEF Begun
  <1>17. AfterJoin(j)' /\ j \notin early => AfterJoin(j) \/ (j \notin returned /\ left[j] = 1)
    <2>1. SUFFICES ASSUME AfterJoin(j)', asleep' = asleep
                   PROVE  AfterJoin(j)
      BY <1>5
    <2>2. Head(todo[t]) \notin {<<"join", j>>, <<"joined", j>>}
      BY <1>3
    <2> QED BY <2>1, <2>2, <1>1, <1>3, <1>6, EmitJoin
  <1>18. JobInv(j)'
    <2>1. Tokens(j)'
      <3>1. Single(CallToken(j))' /\ Single(Starter(j))' /\ \A k \in Slots(j) : Single(ChunkToken(j, k))'
        BY <1>1, <1>3, <1>6, <1>7, EmitTokens DEF JobInv, Tokens
      <3>2. j \in returned' => ~Present(CallToken(j))'
        BY <1>5, <1>7, <1>11 DEF JobInv, Tokens
      <3> QED BY <3>1, <3>2 DEF Tokens
    <2>2. Fresh(j)'
      BY <1>11, <1>16 DEF Fresh
    <2>3. LeftIsExact(j)'
      <3>1. left[j] \in Int /\ (j \notin returned => left'[j] = left[j] - 1)
        BY <1>1, <1>5 DEF JobTyped
      <3>2. j \notin returned => left'[j] = Cardinality(Flight(j)')
        BY <3>1, <1>7, <1>14 DEF JobInv, LeftIsExact
      <3>3. ~(j \in returned \ early)
        BY <1>7, <1>13 DEF JobInv, LeftIsExact
      <3>4. AfterJoin(j) => j \in early
        BY <3>3, <1>7, <1>14 DEF JobInv, LeftIsExact
      <3>5. AfterJoin(j)' /\ j \notin early => left'[j] = 0
        BY <3>1, <3>4, <1>17
      <3> QED BY <3>2, <3>3, <3>5, <1>5 DEF LeftIsExact
    <2>4. RanIsExact(j)'
      BY <1>5, <1>7, <1>15, <1>16 DEF JobInv, RanIsExact, Slots, Chunk, NumTasks, UsesPool, ChunkSize, divup, AtLeast, AtMost, get_num_threads
    <2> QED BY <2>1, <2>2, <2>3, <2>4 DEF JobInv
  <1>19. Calm(j)
    BY <1>11, <1>16 DEF Calm
  <1>20. Head(todo[t])[2] = j /\ \A n \in DOMAIN steps : steps[n][2] = j
    BY <1>3, <1>6
  <1>21. j \in Jobs \cup Launched /\ Kept(j)
    BY <1>3, <1>18, JobsAreNotLaunched
  <1>22. \A u \in asleep \ asleep' : todo[u] = <<>> \/ Head(todo[u])[2] = j
    <2>1. NotifyOne(<<"joined", j>>) => \A u \in asleep \ asleep' : u \in Waiting(<<"joined", j>>)
      BY DEF NotifyOne, OneOf
    <2>2. \A u \in Waiting(<<"joined", j>>) : todo[u] = <<>> \/ Head(todo[u]) = <<"joined", j>>
      BY DEF Waiting
    <2>3. <<"joined", j>>[2] = j
      OBVIOUS
    <2>4. \A u \in Waiting(<<"joined", j>>) : todo[u] = <<>> \/ Head(todo[u])[2] = j
      BY <2>2, <2>3
    <2>5. asleep' = asleep \/ NotifyOne(<<"joined", j>>)
      BY <1>5
    <2> QED BY <2>1, <2>4, <2>5
  <1> QED BY <1>3, <1>6, <1>8, <1>9, <1>10, <1>19, <1>20, <1>21, <1>22, JobKeeps

(* A function does not call itself. *)
LEMMA NoSelfCall ==
  ASSUME LoopInv, NEW x \in Jobs \cup Launched, Present(Starter(x)), Begun(x)
  PROVE  \A n \in DOMAIN Body[x] : Foreign(Body[x][n], x)
  <1>1. Nested(x, x)
    BY DEF LoopInv
  <1>2. \A n \in DOMAIN Body[x] : Body[x][n] \notin CallOf(x)
    BY <1>1 DEF Nested
  <1> QED BY <1>2, BodyCalls

(* The function of a launch. *)
LEMMA CallFuncKeeps ==
  ASSUME LoopInv, NEW t \in Threads, CallFunc(t)
  PROVE  Preserved
  <1>1. Shape /\ Placed /\ JobTyped
    BY DEF LoopInv, PoolInv
  <1>2. At(t, "func") /\ Head(todo[t]) \in Steps /\ Head(todo[t])[1] = "func" /\ Arg(t) = Head(todo[t])[2]
    BY <1>1, ArgsAt DEF CallFunc
  <1>3. PICK f \in Launched : Head(todo[t]) = <<"func", f>> /\ todo[t] # <<>> /\ Arg(t) = f
    BY <1>2, StepArgs DEF At
  <1>4. /\ UNCHANGED <<tasks, asleep, made, left, ran, returned, early>> /\ eptr \subseteq eptr'
        /\ Continue(t, Body[f]) \/ todo' = [todo EXCEPT ![t] = Unwound(todo[t])]
    BY <1>3 DEF CallFunc, Throws, futureState, poolState
  <1>5. f \in Jobs \cup Launched /\ f \notin Jobs
    BY ParallelAssumption DEF Launched
  <1>6. LaunchInv(f) /\ Head(todo[t]) \in Starter(f) /\ Head(todo[t]) \in {<<"func", f>>}
    BY <1>3 DEF LoopInv, Starter
  <1>7. Present(Starter(f)) /\ Present({<<"func", f>>}) /\ ~Present({<<"launch", f>>})
    <2>1. Head(todo[t]) \notin {<<"launch", f>>} /\ {<<"func", f>>} \subseteq Starter(f)
          /\ {<<"launch", f>>} \subseteq Starter(f)
      BY <1>3 DEF Starter
    <2> QED BY <2>1, <1>1, <1>3, <1>6, OnlyOne DEF LaunchInv
  <1>8. f \in made /\ Begun(f)
    BY <1>6, <1>7 DEF LaunchInv, Begun
  <1>9. JobTyped'
    BY <1>1, <1>4 DEF JobTyped
  <1>10. CASE Continue(t, Body[f])
    <2>1. PICK steps \in Seq(Working) : steps = Body[f]
      BY <1>5, BodyIsWork
    <2>2. Emits(t, steps) /\ Continue(t, steps)
      BY <2>1, <1>4, <1>10 DEF Emits
    <2>3. \A n \in DOMAIN steps : Foreign(steps[n], f) /\ steps[n] \in Steps /\ Plain(steps[n])
      BY <2>1, <1>5, <1>7, <1>8, NoSelfCall, BodyCalls DEF Plain
    <2>4. \A P \in Family(f) : \A n \in DOMAIN steps : steps[n] \notin P
      BY <2>3, ForeignTokens
    <2>5. Placed'
      <3>1. Head(todo[t])[1] \notin {"join", "joined"}
        BY <1>3
      <3>2. \A u \in Threads : WellPlaced(todo[u], u)'
        BY <3>1, <2>2, <2>3, <1>1, <1>3, PlainPlaced
      <3> QED BY <3>2, <1>1, <1>4 DEF Placed, Slots, NumTasks, UsesPool, ChunkSize, divup, AtLeast, get_num_threads
    <2>6. ~Present(Starter(f))' /\ Single(Starter(f))' /\ ~Present({<<"launch", f>>})'
      <3>1. Starter(f) \in Family(f) /\ {<<"launch", f>>} \in Family(f) /\ Single(Starter(f))
        BY <1>6, Members DEF LaunchInv
      <3>2. ~Present(Starter(f))' /\ Single(Starter(f))'
        BY <3>1, <2>2, <2>4, <1>1, <1>3, <1>6, EmitTokens
      <3>3. ~Present({<<"launch", f>>})'
        BY <3>1, <2>2, <2>4, <1>1, <1>3, <1>7, EmitTokens
      <3> QED BY <3>2, <3>3
    <2>7. Kept(f)
      BY <2>6, <1>4, <1>5, <1>8 DEF Kept, LaunchInv
    <2>8. Begun(f)' /\ Calm(f)
      BY <2>6, <1>4, <1>8 DEF Begun, Calm
    <2>9. \A n \in DOMAIN steps : n \in DOMAIN Body[f] /\ steps[n] = Body[f][n]
      BY <2>1
    <2>10. /\ \A z \in Jobs \cup Launched : Kept(z)
           /\ \A y, z \in Jobs \cup Launched : Nested(y, z)'
           /\ StayStarted
      BY <2>2, <2>6, <2>7, <2>8, <2>9, <1>3, <1>4, <1>5, <1>6, <1>8, SpawnKeeps
    <2> QED BY <2>5, <2>10, <1>9 DEF Preserved
  <1>11. CASE todo' = [todo EXCEPT ![t] = Unwound(todo[t])]
    <2>1. Head(todo[t])[1] \in {"inline", "func"}
      BY <1>3
    <2>2. Placed'
      <3>1. \A u \in Threads : WellPlaced(todo[u], u)'
        BY <2>1, <1>1, <1>3, <1>11, ThrowPlaced
      <3> QED BY <3>1, <1>1, <1>4 DEF Placed, Slots, NumTasks, UsesPool, ChunkSize, divup, AtLeast, get_num_threads
    <2>3. \A z \in (Jobs \cup Launched) \ {f} : Frame(z)
      <3> TAKE z \in (Jobs \cup Launched) \ {f}
      <3>1. Foreign(Head(todo[t]), z)
        BY <1>3 DEF Foreign
      <3>2. Quiet(z)
        BY <3>1, <2>1, <1>1, <1>3, <1>4, <1>11, ThrowQuiet
      <3>3. AfterJoin(z)' => AfterJoin(z)
        BY <2>1, <1>1, <1>3, <1>4, <1>11, ThrowJoin
      <3> QED BY <3>2, <3>3, <1>4 DEF Frame
    <2>4. \A P \in Family(f) : (Present(P)' => Present(P)) /\ (Single(P) => Single(P)')
      BY <2>1, <1>1, <1>3, <1>4, <1>11, ThrowKeeps
    <2>5. Starter(f) \in Family(f) /\ {<<"launch", f>>} \in Family(f)
      BY Members
    <2>6. Kept(f)
      BY <2>4, <2>5, <1>4, <1>5, <1>6, <1>8 DEF Kept, LaunchInv
    <2>7. Calm(f)
      BY <2>4, <2>5, <1>4, <1>8 DEF Calm, Begun
    <2> QED BY <2>2, <2>3, <2>6, <2>7, <1>5, <1>9, ActedKeeps
  <1> QED BY <1>4, <1>10, <1>11

LEMMA Counting ==
  ASSUME JobTyped, NEW j \in Jobs, NEW S, CountRun(j, S)
  PROVE  /\ DOMAIN ran' = Jobs /\ \A z \in Jobs \ {j} : ran'[z] = ran[z]
         /\ \A z \in Jobs : ran'[z] \in [0 .. Size[z] - 1 -> Nat]
         /\ DOMAIN ran[j] = 0 .. Size[j] - 1 /\ DOMAIN ran'[j] = 0 .. Size[j] - 1
         /\ \A x \in 0 .. Size[j] - 1 :
               ran[j][x] \in Nat /\ ran'[j][x] = IF x \in S THEN ran[j][x] + 1 ELSE ran[j][x]
  <1> DEFINE D == 0 .. Size[j] - 1
             new == [x \in D |-> IF x \in S THEN ran[j][x] + 1 ELSE ran[j][x]]
  <1>1. DOMAIN ran = Jobs /\ \A z \in Jobs : ran[z] \in [0 .. Size[z] - 1 -> Nat]
    BY DEF JobTyped
  <1>2. ran[j] \in [D -> Nat] /\ DOMAIN ran[j] = D
    BY <1>1
  <1>3. ran' = [ran EXCEPT ![j] = new]
    BY <1>2 DEF CountRun
  <1>4. new \in [D -> Nat] /\ DOMAIN new = D /\ \A x \in D : new[x] = IF x \in S THEN ran[j][x] + 1 ELSE ran[j][x]
    <2> HIDE DEF D
    <2>1. \A x \in D : ran[j][x] \in Nat
      BY <1>2
    <2>2. \A x \in D : (IF x \in S THEN ran[j][x] + 1 ELSE ran[j][x]) \in Nat
      BY <2>1
    <2> QED BY <2>2
  <1> HIDE DEF new
  <1>5. DOMAIN ran' = Jobs /\ ran'[j] = new /\ \A z \in Jobs \ {j} : ran'[z] = ran[z]
    BY <1>1, <1>3
  <1> QED BY <1>1, <1>2, <1>4, <1>5

(* The function on the thread that called parallel_for: no chunk was made.  *)
LEMMA InlineOf ==
  ASSUME LoopInv, NEW t \in Threads, NEW j \in Jobs, todo[t] # <<>>, Head(todo[t]) = <<"inline", j>>
  PROVE  /\ JobInv(j) /\ Begun(j) /\ j \notin returned
         /\ Present(CallToken(j)) /\ Present(Starter(j)) /\ ~Present({<<"return", j>>}) /\ ~AfterJoin(j)
         /\ Head(todo[t]) \in CallToken(j) /\ Head(todo[t]) \in Starter(j)
         /\ Single(CallToken(j)) /\ Single(Starter(j))
         /\ left[j] = 0 /\ Flight(j) = {} /\ \A x \in DOMAIN ran[j] : ran[j][x] = 0
         /\ \A i \in Slots(j) : ~Present(ChunkToken(j, i)) /\ ~Present(UnrunToken(j, i))
  <1>1. Shape /\ Placed
    BY DEF LoopInv, PoolInv
  <1>2. /\ JobInv(j) /\ Head(todo[t]) \in CallToken(j) /\ Head(todo[t]) \in Starter(j)
        /\ Single(CallToken(j)) /\ Single(Starter(j))
    BY DEF LoopInv, JobInv, Tokens, CallToken, Starter
  <1>3. /\ Head(todo[t]) \in {<<"inline", j>>} /\ Head(todo[t]) \notin {<<"return", j>>}
        /\ Head(todo[t]) \in BegunToken(j)
    <2>1. <<"return", j>> # <<"inline", j>>
      OBVIOUS
    <2> QED BY <2>1 DEF BegunToken
  <1>4. {<<"inline", j>>} \subseteq CallToken(j) /\ {<<"return", j>>} \subseteq CallToken(j) /\ BegunToken(j) \subseteq CallToken(j)
    BY DEF CallToken, BegunToken
  <1>5. /\ Present(CallToken(j)) /\ Present({<<"inline", j>>}) /\ ~Present({<<"return", j>>})
        /\ Present(BegunToken(j)) /\ Present(Starter(j))
    BY <1>1, <1>2, <1>3, <1>4, OnlyOne
  <1>6. ~AfterJoin(j)
    BY <1>1, <1>5, PastTheWait
  <1>7. left[j] = 0 /\ Flight(j) = {} /\ \A x \in DOMAIN ran[j] : ran[j][x] = 0
    BY <1>2, <1>5 DEF JobInv, Fresh
  <1>8. \A i \in Slots(j) : ~Present(ChunkToken(j, i)) /\ ~Present(UnrunToken(j, i))
    <2>1. \A i \in Slots(j) : ~Present(ChunkToken(j, i))
      BY <1>7 DEF Flight
    <2>2. \A i : UnrunToken(j, i) \subseteq ChunkToken(j, i)
      BY DEF UnrunToken, ChunkToken
    <2> QED BY <2>1, <2>2, MorePresent
  <1>9. Begun(j) /\ j \notin returned
    BY <1>2, <1>5 DEF Begun, JobInv, Tokens
  <1> QED BY <1>2, <1>5, <1>6, <1>7, <1>8, <1>9

(* After it, nothing of the job is left. *)
LEMMA InlineLeaves ==
  ASSUME LoopInv, NEW t \in Threads, NEW j \in Jobs, todo[t] # <<>>, Head(todo[t]) = <<"inline", j>>,
         \A P \in Family(j) : /\ Present(P)' => Present(P)
                              /\ Single(P) => Single(P)'
                              /\ Single(P) /\ Head(todo[t]) \in P => ~Present(P)',
         AfterJoin(j)' => AfterJoin(j), returned' = returned \cup {j}, left' = left,
         \/ j \in eptr' /\ ran'[j] = ran[j]
         \/ \A x \in DOMAIN ran'[j] : ran'[j][x] = 1
  PROVE  JobInv(j)' /\ Calm(j) /\ Begun(j)' /\ ~Present(Starter(j))'
  <1>1. /\ JobInv(j) /\ Begun(j) /\ j \notin returned
        /\ Present(CallToken(j)) /\ Present(Starter(j)) /\ ~Present({<<"return", j>>}) /\ ~AfterJoin(j)
        /\ Head(todo[t]) \in CallToken(j) /\ Head(todo[t]) \in Starter(j)
        /\ Single(CallToken(j)) /\ Single(Starter(j))
        /\ left[j] = 0 /\ Flight(j) = {} /\ \A x \in DOMAIN ran[j] : ran[j][x] = 0
        /\ \A i \in Slots(j) : ~Present(ChunkToken(j, i)) /\ ~Present(UnrunToken(j, i))
    BY InlineOf
  <1>2. /\ ~Present(CallToken(j))' /\ ~Present(Starter(j))' /\ Single(CallToken(j))' /\ Single(Starter(j))'
        /\ \A i \in Slots(j) : /\ Single(ChunkToken(j, i))' /\ ~Present(ChunkToken(j, i))'
                               /\ ~Present(UnrunToken(j, i))'
    <2>1. CallToken(j) \in Family(j) /\ Starter(j) \in Family(j)
      BY Members
    <2>2. \A i \in Slots(j) : ChunkToken(j, i) \in Family(j) /\ UnrunToken(j, i) \in Family(j) /\ Single(ChunkToken(j, i))
      BY <1>1, Members, SlotsAreIndices DEF JobInv, Tokens
    <2> QED BY <2>1, <2>2, <1>1
  <1>3. ~Present({<<"inline", j>>})'
    <2>1. Single({<<"inline", j>>}) /\ {<<"inline", j>>} \in Family(j) /\ Head(todo[t]) \in {<<"inline", j>>}
      <3>1. {<<"inline", j>>} \subseteq CallToken(j)
        BY DEF CallToken
      <3> QED BY <3>1, <1>1, SubSingle, Members
    <2> QED BY <2>1
  <1>4. Flight(j)' = {}
    BY <1>2 DEF Flight
  <1>5. Begun(j)' /\ j \in returned'
    BY DEF Begun
  <1>6. JobInv(j)'
    <2>1. Tokens(j)'
      BY <1>2 DEF Tokens
    <2>2. Fresh(j)'
      BY <1>3, <1>5 DEF Fresh
    <2>3. LeftIsExact(j)'
      BY <1>1, <1>4, <1>5 DEF LeftIsExact
    <2>4. RanIsExact(j)'
      BY <1>1, <1>2 DEF RanIsExact
    <2> QED BY <2>1, <2>2, <2>3, <2>4 DEF JobInv
  <1>7. Calm(j)
    BY <1>1, <1>2, <1>5 DEF Calm
  <1> QED BY <1>2, <1>5, <1>6, <1>7

(* use_parallel is false. *)
LEMMA InlineKeeps ==
  ASSUME LoopInv, NEW t \in Threads, RunInline(t)
  PROVE  Preserved
  <1>1. Shape /\ Placed /\ JobTyped
    BY DEF LoopInv, PoolInv
  <1>2. At(t, "inline") /\ Head(todo[t]) \in Steps /\ Head(todo[t])[1] = "inline" /\ Arg(t) = Head(todo[t])[2]
    BY <1>1, ArgsAt DEF RunInline
  <1>3. PICK j \in Jobs : Head(todo[t]) = <<"inline", j>> /\ todo[t] # <<>> /\ Arg(t) = j
    BY <1>2, StepArgs DEF At
  <1>4. /\ UNCHANGED <<tasks, asleep, made, left, early>> /\ returned' = returned \cup {j}
        /\ \/ CountRun(j, 0 .. Size[j] - 1) /\ Continue(t, Body[j]) /\ eptr' = eptr
           \/ /\ todo' = [todo EXCEPT ![t] = Unwound(todo[t])] /\ ran' = ran
              /\ eptr \subseteq eptr' /\ j \in eptr'
    BY <1>3 DEF RunInline, Throws, futureState, poolState
  <1>5. /\ JobInv(j) /\ Begun(j) /\ Present(Starter(j)) /\ Head(todo[t]) \in Starter(j)
        /\ \A x \in DOMAIN ran[j] : ran[j][x] = 0
    BY <1>3, InlineOf
  <1>6. j \in Jobs \cup Launched
    OBVIOUS
  <1>7. CASE CountRun(j, 0 .. Size[j] - 1) /\ Continue(t, Body[j]) /\ eptr' = eptr
    <2>1. PICK steps \in Seq(Working) : steps = Body[j]
      BY <1>6, BodyIsWork
    <2>2. Emits(t, steps) /\ Continue(t, steps)
      BY <2>1, <1>4, <1>7 DEF Emits
    <2>3. \A n \in DOMAIN steps : Foreign(steps[n], j) /\ steps[n] \in Steps /\ Plain(steps[n])
      BY <2>1, <1>5, <1>6, NoSelfCall, BodyCalls DEF Plain
    <2>4. \A P \in Family(j) : \A n \in DOMAIN steps : steps[n] \notin P
      BY <2>3, ForeignTokens
    <2>5. /\ DOMAIN ran' = Jobs /\ \A z \in Jobs \ {j} : ran'[z] = ran[z]
          /\ \A z \in Jobs : ran'[z] \in [0 .. Size[z] - 1 -> Nat]
          /\ \A x \in DOMAIN ran'[j] : ran'[j][x] = 1
      <3> DEFINE S == 0 .. Size[j] - 1
      <3>0. CountRun(j, S)
        BY <1>7
      <3> HIDE DEF S
      <3>1. /\ DOMAIN ran' = Jobs /\ \A z \in Jobs \ {j} : ran'[z] = ran[z]
            /\ \A z \in Jobs : ran'[z] \in [0 .. Size[z] - 1 -> Nat]
            /\ DOMAIN ran[j] = 0 .. Size[j] - 1 /\ DOMAIN ran'[j] = 0 .. Size[j] - 1
            /\ \A x \in 0 .. Size[j] - 1 :
               ran[j][x] \in Nat /\ ran'[j][x] = IF x \in S THEN ran[j][x] + 1 ELSE ran[j][x]
        BY <3>0, <1>1, Counting
      <3>2. \A x \in DOMAIN ran'[j] : ran'[j][x] = ran[j][x] + 1 /\ ran[j][x] = 0
        BY <3>1, <1>5 DEF S
      <3>3. \A x \in DOMAIN ran'[j] : ran'[j][x] = 1
        BY <3>2
      <3> QED BY <3>1, <3>3
    <2>6. JobTyped'
      BY <2>5, <1>1, <1>4 DEF JobTyped
    <2>7. Placed'
      <3>1. Head(todo[t])[1] \notin {"join", "joined"}
        BY <1>3
      <3>2. \A u \in Threads : WellPlaced(todo[u], u)'
        BY <3>1, <2>2, <2>3, <1>1, <1>3, PlainPlaced
      <3> QED BY <3>2, <1>1, <1>4 DEF Placed, Slots, NumTasks, UsesPool, ChunkSize, divup, AtLeast, get_num_threads
    <2>8. \A P \in Family(j) : /\ Present(P)' => Present(P)
                               /\ Single(P) => Single(P)'
                               /\ Single(P) /\ Head(todo[t]) \in P => ~Present(P)'
      BY <2>2, <2>4, <1>1, <1>3, EmitTokens
    <2>9. AfterJoin(j)' => AfterJoin(j)
      <3>1. Head(todo[t]) \notin {<<"join", j>>, <<"joined", j>>}
        BY <1>3
      <3>2. \A n \in DOMAIN steps : steps[n] \notin {<<"joined", j>>, <<"return", j>>}
        BY <2>3 DEF Foreign, Kinds
      <3> QED BY <3>1, <3>2, <2>2, <1>1, <1>3, <1>4, EmitJoin
    <2>10. JobInv(j)' /\ Calm(j) /\ Begun(j)' /\ ~Present(Starter(j))'
      BY <2>5, <2>8, <2>9, <1>3, <1>4, InlineLeaves
    <2>11. Kept(j)
      BY <2>10, JobsAreNotLaunched
    <2>12. \A n \in DOMAIN steps : n \in DOMAIN Body[j] /\ steps[n] = Body[j][n]
      BY <2>1
    <2>13. \A z \in (Jobs \cup Launched) \ {j} :
            /\ z \in returned' <=> z \in returned
            /\ z \in Jobs => /\ left'[z] = left[z] /\ ran'[z] = ran[z]
                             /\ (z \in early => z \in early') /\ (z \in eptr => z \in eptr')
      BY <2>5, <1>4, <1>7
    <2>14. /\ \A z \in Jobs \cup Launched : Kept(z)
           /\ \A y, z \in Jobs \cup Launched : Nested(y, z)'
           /\ StayStarted
      BY <2>2, <2>10, <2>11, <2>12, <2>13, <1>3, <1>4, <1>5, <1>6, SpawnKeeps
    <2> QED BY <2>6, <2>7, <2>14 DEF Preserved
  <1>8. CASE todo' = [todo EXCEPT ![t] = Unwound(todo[t])] /\ ran' = ran /\ eptr \subseteq eptr' /\ j \in eptr'
    <2>1. Head(todo[t])[1] \in {"inline", "func"}
      BY <1>3
    <2>2. Placed'
      <3>1. \A u \in Threads : WellPlaced(todo[u], u)'
        BY <2>1, <1>1, <1>3, <1>8, ThrowPlaced
      <3> QED BY <3>1, <1>1, <1>4 DEF Placed, Slots, NumTasks, UsesPool, ChunkSize, divup, AtLeast, get_num_threads
    <2>3. \A z \in (Jobs \cup Launched) \ {j} : Frame(z)
      <3> TAKE z \in (Jobs \cup Launched) \ {j}
      <3>1. Foreign(Head(todo[t]), z)
        BY <1>3 DEF Foreign
      <3>2. Quiet(z)
        BY <3>1, <2>1, <1>1, <1>3, <1>4, <1>8, ThrowQuiet
      <3>3. AfterJoin(z)' => AfterJoin(z)
        BY <2>1, <1>1, <1>3, <1>4, <1>8, ThrowJoin
      <3> QED BY <3>2, <3>3, <1>4, <1>8 DEF Frame
    <2>4. \A P \in Family(j) : /\ Present(P)' => Present(P)
                               /\ Single(P) => Single(P)'
                               /\ Single(P) /\ Head(todo[t]) \in P => ~Present(P)'
      BY <2>1, <1>1, <1>3, <1>4, <1>8, ThrowKeeps
    <2>5. AfterJoin(j)' => AfterJoin(j)
      BY <2>1, <1>1, <1>3, <1>4, <1>8, ThrowJoin
    <2>6. JobInv(j)' /\ Calm(j)
      BY <2>4, <2>5, <1>3, <1>4, <1>8, InlineLeaves
    <2>7. Kept(j)
      BY <2>6, JobsAreNotLaunched
    <2>8. JobTyped'
      BY <1>1, <1>4, <1>8 DEF JobTyped
    <2> QED BY <2>2, <2>3, <2>6, <2>7, <2>8, <1>6, ActedKeeps
  <1> QED BY <1>4, <1>7, <1>8

(* A chunk that is to be run. *)
LEMMA ChunkOf ==
  ASSUME LoopInv, NEW t \in Threads, NEW j \in Jobs, NEW i \in Index, todo[t] # <<>>, Head(todo[t]) = <<"chunk", j, i>>
  PROVE  /\ JobInv(j) /\ i \in Slots(j) /\ UsesPool(j) /\ Begun(j) /\ ~Present({<<"inline", j>>})
         /\ Head(todo[t]) \in ChunkToken(j, i) /\ Head(todo[t]) \in UnrunToken(j, i)
         /\ Single(ChunkToken(j, i)) /\ Single(UnrunToken(j, i))
         /\ Present(UnrunToken(j, i))
         /\ \A x \in Chunk(j, i) : ran[j][x] = 0
  <1>1. Shape /\ Placed
    BY DEF LoopInv, PoolInv
  <1>2. JobInv(j) /\ i \in Slots(j)
    <2>1. WellPlaced(todo[t], t)
      BY <1>1 DEF Placed
    <2>2. Head(todo[t]) = todo[t][1] /\ 1 \in DOMAIN todo[t]
      BY <1>1, HeadStep
    <2>3. i \in Slots(j)
      BY <2>1, <2>2 DEF WellPlaced
    <2> QED BY <2>3 DEF LoopInv
  <1>3. UsesPool(j)
    BY <1>2 DEF Slots
  <1>4. /\ Head(todo[t]) \in ChunkToken(j, i) /\ Head(todo[t]) \in UnrunToken(j, i)
        /\ UnrunToken(j, i) \subseteq ChunkToken(j, i) /\ Single(ChunkToken(j, i))
    BY <1>2 DEF ChunkToken, UnrunToken, JobInv, Tokens
  <1>5. Single(UnrunToken(j, i)) /\ Present(ChunkToken(j, i)) /\ Present(UnrunToken(j, i))
    BY <1>1, <1>4, SubSingle, OnlyOne
  <1>6. i \in Flight(j)
    BY <1>2, <1>5 DEF Flight
  <1>7. Begun(j) /\ ~Present({<<"inline", j>>})
    BY <1>2, <1>6 DEF JobInv, Fresh
  <1>8. \A x \in Chunk(j, i) : ran[j][x] = 0
    BY <1>2, <1>5 DEF JobInv, RanIsExact
  <1> QED BY <1>2, <1>3, <1>4, <1>5, <1>7, <1>8

(* After the function was called on a chunk. *)
LEMMA ChunkLeaves ==
  ASSUME LoopInv, NEW t \in Threads, NEW j \in Jobs, NEW i \in Index, todo[t] # <<>>, Head(todo[t]) = <<"chunk", j, i>>,
         NEW steps \in Seq(Working), Emits(t, steps), NEW last \in DOMAIN steps, steps[last] = <<"sub", j, i>>,
         \A n \in DOMAIN steps : n # last => steps[n] \in Steps /\ Foreign(steps[n], j),
         UNCHANGED <<asleep, returned, left, early>>, eptr \subseteq eptr',
         \/ ran'[j] = ran[j] /\ (Chunk(j, i) = {} \/ j \in eptr')
         \/ CountRun(j, Chunk(j, i))
  PROVE  JobInv(j)' /\ Calm(j) /\ Begun(j)' /\ (i = 0 => ~Present(Starter(j))')
  <1>1. Shape /\ Placed /\ JobTyped
    BY DEF LoopInv, PoolInv
  <1>2. /\ JobInv(j) /\ i \in Slots(j) /\ UsesPool(j) /\ Begun(j) /\ ~Present({<<"inline", j>>})
        /\ Head(todo[t]) \in ChunkToken(j, i) /\ Head(todo[t]) \in UnrunToken(j, i)
        /\ Single(ChunkToken(j, i)) /\ Single(UnrunToken(j, i))
        /\ Present(UnrunToken(j, i))
        /\ \A x \in Chunk(j, i) : ran[j][x] = 0
    BY ChunkOf
  <1>3. \A P \in Family(j) : \A n \in DOMAIN steps : n # last => steps[n] \notin P
    BY ForeignTokens
  \* the chunk is on a thread as before, and run
  <1>4. /\ Present(ChunkToken(j, i))' <=> Present(ChunkToken(j, i))
        /\ Single(ChunkToken(j, i))' /\ ~Present(UnrunToken(j, i))'
    <2>1. steps[last] \in ChunkToken(j, i) /\ steps[last] \notin UnrunToken(j, i)
      BY DEF ChunkToken, UnrunToken
    <2>2. ChunkToken(j, i) \in Family(j) /\ UnrunToken(j, i) \in Family(j)
      BY Members
    <2>3. (Present(ChunkToken(j, i))' <=> Present(ChunkToken(j, i))) /\ Single(ChunkToken(j, i))'
      BY <2>1, <2>2, <1>1, <1>2, <1>3, SwapTokens
    <2>4. \A n \in DOMAIN steps : steps[n] \notin UnrunToken(j, i)
      BY <2>1, <2>2, <1>3
    <2>5. ~Present(UnrunToken(j, i))'
      BY <2>4, <1>1, <1>2, EmitTokens
    <2> QED BY <2>3, <2>5
  \* the other tokens of the job are where they were
  <1>5. ASSUME NEW P \in Family(j), <<"chunk", j, i>> \notin P, <<"sub", j, i>> \notin P
        PROVE  (Present(P)' <=> Present(P)) /\ (Single(P) => Single(P)')
    <2>1. Head(todo[t]) \notin P /\ \A n \in DOMAIN steps : steps[n] \notin P
      BY <1>3, <1>5
    <2> QED BY <2>1, <1>1, SwapTokens
  <1>6. /\ (Present(CallToken(j))' <=> Present(CallToken(j))) /\ (Single(CallToken(j)) => Single(CallToken(j))')
        /\ Present(BegunToken(j))' <=> Present(BegunToken(j))
        /\ Present({<<"return", j>>})' <=> Present({<<"return", j>>})
        /\ Present({<<"inline", j>>})' <=> Present({<<"inline", j>>})
        /\ Present(CallOf(j))' <=> Present(CallOf(j))
    <2>1. /\ <<"chunk", j, i>> \notin CallToken(j) /\ <<"sub", j, i>> \notin CallToken(j)
          /\ <<"chunk", j, i>> \notin BegunToken(j) /\ <<"sub", j, i>> \notin BegunToken(j)
          /\ <<"chunk", j, i>> \notin {<<"return", j>>} /\ <<"sub", j, i>> \notin {<<"return", j>>}
          /\ <<"chunk", j, i>> \notin {<<"inline", j>>} /\ <<"sub", j, i>> \notin {<<"inline", j>>}
          /\ <<"chunk", j, i>> \notin CallOf(j) /\ <<"sub", j, i>> \notin CallOf(j)
      BY DEF CallToken, BegunToken, CallOf
    <2> QED BY <2>1, <1>5, Members
  <1>7. ASSUME NEW k \in Slots(j), k # i
        PROVE  /\ Present(ChunkToken(j, k))' <=> Present(ChunkToken(j, k))
               /\ Present(UnrunToken(j, k))' <=> Present(UnrunToken(j, k))
               /\ Single(ChunkToken(j, k))'
    <2>1. /\ <<"chunk", j, i>> \notin ChunkToken(j, k) /\ <<"sub", j, i>> \notin ChunkToken(j, k)
          /\ <<"chunk", j, i>> \notin UnrunToken(j, k) /\ <<"sub", j, i>> \notin UnrunToken(j, k)
      BY <1>7 DEF ChunkToken, UnrunToken
    <2>2. ChunkToken(j, k) \in Family(j) /\ UnrunToken(j, k) \in Family(j) /\ Single(ChunkToken(j, k))
      BY <1>2, <1>7, Members, SlotsAreIndices DEF JobInv, Tokens
    <2> QED BY <2>1, <2>2, <1>5
  <1>8. /\ Present(Starter(j))' => Present(Starter(j))
        /\ Single(Starter(j))' /\ (i = 0 => ~Present(Starter(j))')
    <2>1. <<"sub", j, i>> \notin Starter(j) /\ Starter(j) \in Family(j)
      BY Members DEF Starter
    <2>2. \A n \in DOMAIN steps : steps[n] \notin Starter(j)
      BY <2>1, <1>3
    <2>3. Single(Starter(j)) /\ (i = 0 => Head(todo[t]) \in Starter(j))
      BY <1>2 DEF JobInv, Tokens, Starter
    <2> QED BY <2>2, <2>3, <1>1, EmitTokens
  <1>9. Flight(j)' = Flight(j)
    BY <1>4, <1>7 DEF Flight
  <1>10. Begun(j)'
    BY <1>2, <1>6, JobsAreNotLaunched DEF Begun
  <1>11. AfterJoin(j)' => AfterJoin(j)
    <2>1. Head(todo[t]) \notin {<<"join", j>>, <<"joined", j>>}
      OBVIOUS
    <2>2. ASSUME NEW n \in DOMAIN steps PROVE steps[n] \notin {<<"joined", j>>, <<"return", j>>}
      <3>1. CASE n = last
        BY <3>1
      <3>2. CASE n # last
        BY <3>2 DEF Foreign, Kinds
      <3> QED BY <3>1, <3>2
    <2> QED BY <2>1, <2>2, <1>1, EmitJoin
  <1>12. JobInv(j)'
    <2>1. Tokens(j)'
      <3>1. \A k \in Slots(j) : Single(ChunkToken(j, k))'
        BY <1>4, <1>7
      <3> QED BY <3>1, <1>2, <1>6, <1>8 DEF Tokens, JobInv
    <2>2. Fresh(j)'
      BY <1>2, <1>6, <1>10 DEF Fresh
    <2>3. LeftIsExact(j)'
      BY <1>2, <1>9, <1>11 DEF JobInv, LeftIsExact
    <2>4. RanIsExact(j)'
      <3> DEFINE C(k) == Chunk(j, k)
                 S == Slots(j)
      <3>1. /\ \A x \in DOMAIN ran[j] : ran[j][x] <= 1
            /\ \A k \in S : Present(UnrunToken(j, k)) => \A x \in C(k) : ran[j][x] = 0
            /\ j \notin eptr /\ (j \in returned \/ Present({<<"return", j>>})) =>
                  \A x \in DOMAIN ran[j] :
                      ran[j][x] = 1 \/ \E k \in S : x \in C(k) /\ Present(UnrunToken(j, k))
        BY <1>2 DEF JobInv, RanIsExact
      <3>2. \A k \in S : k # i => C(i) \cap C(k) = {}
        BY <1>2, ChunkIs
      <3>3. \A k \in S : C(k) \subseteq 0 .. Size[j] - 1
        BY <1>2, ChunkIs
      <3>4. i \in S /\ \A x \in C(i) : ran[j][x] = 0
        BY <1>2
      <3>5. /\ ~Present(UnrunToken(j, i))'
            /\ \A k \in S : k # i => (Present(UnrunToken(j, k))' <=> Present(UnrunToken(j, k)))
        BY <1>4, <1>7
      <3>6. \/ ran'[j] = ran[j] /\ (C(i) = {} \/ j \in eptr')
            \/ /\ DOMAIN ran[j] = 0 .. Size[j] - 1 /\ DOMAIN ran'[j] = 0 .. Size[j] - 1
               /\ \A x \in 0 .. Size[j] - 1 : ran'[j][x] = IF x \in C(i) THEN ran[j][x] + 1 ELSE ran[j][x]
        BY <1>1, Counting
      <3> HIDE DEF C, S
      <3>7. /\ \A x \in DOMAIN ran'[j] : ran'[j][x] <= 1
            /\ \A k \in S : Present(UnrunToken(j, k))' => \A x \in C(k) : ran'[j][x] = 0
            /\ j \notin eptr' /\ (j \in returned \/ Present({<<"return", j>>})) =>
                  \A x \in DOMAIN ran'[j] :
                      ran'[j][x] = 1 \/ \E k \in S : x \in C(k) /\ Present(UnrunToken(j, k))'
        <4>1. CASE ran'[j] = ran[j] /\ (C(i) = {} \/ j \in eptr')
          BY <4>1, <3>1, <3>5
        <4>2. CASE /\ DOMAIN ran[j] = 0 .. Size[j] - 1 /\ DOMAIN ran'[j] = 0 .. Size[j] - 1
                   /\ \A x \in 0 .. Size[j] - 1 : ran'[j][x] = IF x \in C(i) THEN ran[j][x] + 1 ELSE ran[j][x]
          <5>1. \A x \in DOMAIN ran'[j] : (x \in C(i) => ran'[j][x] = 1) /\ (x \notin C(i) => ran'[j][x] = ran[j][x])
            BY <4>2, <3>4
          <5>2. \A x \in DOMAIN ran'[j] : ran'[j][x] <= 1
            BY <5>1, <4>2, <3>1
          <5>3. ASSUME NEW k \in S, Present(UnrunToken(j, k))', NEW x \in C(k) PROVE ran'[j][x] = 0
            <6>1. k # i /\ x \notin C(i) /\ Present(UnrunToken(j, k)) /\ x \in DOMAIN ran'[j]
              BY <5>3, <4>2, <3>2, <3>3, <3>5
            <6> QED BY <6>1, <5>1, <3>1
          <5>4. ASSUME j \notin eptr', j \in returned \/ Present({<<"return", j>>}), NEW x \in DOMAIN ran'[j]
                PROVE  ran'[j][x] = 1 \/ \E k \in S : x \in C(k) /\ Present(UnrunToken(j, k))'
            <6>1. x \in DOMAIN ran[j] /\ j \notin eptr
              BY <5>4, <4>2
            <6>2. ran[j][x] = 1 \/ \E k \in S : x \in C(k) /\ Present(UnrunToken(j, k))
              BY <6>1, <5>4, <3>1
            <6>3. CASE x \in C(i)
              BY <6>3, <5>1
            <6>4. CASE x \notin C(i)
              BY <6>2, <6>4, <5>1, <3>5
            <6> QED BY <6>3, <6>4
          <5> QED BY <5>2, <5>3, <5>4
        <4> QED BY <3>6, <4>1, <4>2
      <3> QED BY <3>7, <1>6 DEF RanIsExact, C, S, Slots, Chunk, NumTasks, UsesPool, ChunkSize, divup, AtLeast, AtMost, get_num_threads
    <2> QED BY <2>1, <2>2, <2>3, <2>4 DEF JobInv
  <1>13. Calm(j)
    BY <1>2, <1>8, <1>10 DEF Calm
  <1> QED BY <1>8, <1>10, <1>12, <1>13

(* The task of invoke_parallel. *)
LEMMA RunChunkKeeps ==
  ASSUME LoopInv, NEW t \in Threads, RunChunk(t)
  PROVE  Preserved
  <1>1. Shape /\ Placed /\ JobTyped
    BY DEF LoopInv, PoolInv
  <1>2. At(t, "chunk") /\ Head(todo[t]) \in Steps /\ Head(todo[t])[1] = "chunk" /\ Arg(t) = Head(todo[t])[2]
    BY <1>1, ArgsAt DEF RunChunk
  <1>3. PICK j \in Jobs, i \in Index : /\ Head(todo[t]) = <<"chunk", j, i>> /\ todo[t] # <<>>
                                       /\ Arg(t) = j /\ Head(todo[t])[3] = i
    BY <1>2, StepArgs DEF At
  <1> DEFINE end == <<<<"sub", j, i>>>>
  <1>4. /\ UNCHANGED <<tasks, asleep, made, left, returned, early>>
        /\ \/ Continue(t, end) /\ ran' = ran /\ eptr \subseteq eptr' /\ (Chunk(j, i) = {} \/ j \in eptr')
           \/ CountRun(j, Chunk(j, i)) /\ Continue(t, end) /\ eptr' = eptr
           \/ i = 0 /\ CountRun(j, Chunk(j, i)) /\ Continue(t, Body[j] \o end) /\ eptr' = eptr
    <2>1. <<>> \o end = end
      BY <1>3, ChunkLineIsWork
    <2> HIDE DEF end
    <2>2. \/ Chunk(j, i) = {} /\ Continue(t, end) /\ UNCHANGED <<ran, eptr>>
          \/ CountRun(j, Chunk(j, i)) /\ Continue(t, (IF i = 0 THEN Body[j] ELSE <<>>) \o end) /\ UNCHANGED eptr
          \/ Continue(t, end) /\ eptr' = eptr \cup {j} /\ UNCHANGED ran
      BY <1>3 DEF RunChunk, end
    <2>3. UNCHANGED <<tasks, asleep, made, left, returned, early>>
      BY DEF RunChunk, futureState, poolState
    <2> QED BY <2>1, <2>2, <2>3
  <1>5. /\ JobInv(j) /\ i \in Slots(j) /\ Begun(j) /\ (i = 0 => Head(todo[t]) \in Starter(j) /\ Present(Starter(j)))
    <2>1. JobInv(j) /\ i \in Slots(j) /\ Begun(j)
      BY <1>3, ChunkOf
    <2>2. i = 0 => Head(todo[t]) \in Starter(j)
      BY <1>3 DEF Starter
    <2>3. Single(Starter(j))
      BY <2>1 DEF JobInv, Tokens
    <2>4. i = 0 => Present(Starter(j))
      BY <2>2, <2>3, <1>1, <1>3, OnlyOne
    <2> QED BY <2>1, <2>2, <2>4
  <1>6. /\ j \in Jobs \cup Launched /\ Head(todo[t])[2] = j /\ Head(todo[t])[1] \notin {"join", "joined"}
    BY <1>3
  <1>7. JobTyped' /\ \A z \in Jobs \ {j} : ran'[z] = ran[z]
    <2>1. CASE ran' = ran
      BY <2>1, <1>1, <1>4 DEF JobTyped
    <2>2. CASE CountRun(j, Chunk(j, i))
      <3>1. /\ DOMAIN ran' = Jobs /\ \A z \in Jobs \ {j} : ran'[z] = ran[z]
            /\ \A z \in Jobs : ran'[z] \in [0 .. Size[z] - 1 -> Nat]
        BY <2>2, <1>1, Counting
      <3> QED BY <3>1, <1>1, <1>4 DEF JobTyped
    <2> QED BY <2>1, <2>2, <1>4
  <1>8. /\ end \in Seq(Working) /\ Len(end) = 1 /\ DOMAIN end = {1} /\ end[1] = <<"sub", j, i>>
    <2>1. end \in Seq(Working)
      BY <1>3, ChunkLineIsWork
    <2> QED BY <2>1
  <1>9. CASE Continue(t, end)
    <2>1. PICK steps \in Seq(Working) : steps = end
      BY <1>8
    <2>2. /\ Emits(t, steps) /\ Continue(t, steps) /\ DOMAIN steps = {1} /\ steps[1] = <<"sub", j, i>>
          /\ Len(steps) = 1
      BY <2>1, <1>4, <1>8, <1>9 DEF Emits
    <2>3. Placed'
      <3>1. \A n \in DOMAIN steps : steps[n][1] = "sub" /\ steps[n][3] \in Slots(steps[n][2])
        BY <2>2, <1>5
      <3>2. \A u \in Threads : WellPlaced(todo[u], u)'
        BY <3>1, <2>2, <1>1, <1>3, <1>6, ContinuePlaced
      <3> QED BY <3>2, <1>1, <1>4 DEF Placed, Slots, NumTasks, UsesPool, ChunkSize, divup, AtLeast, get_num_threads
    <2>4. JobInv(j)' /\ Calm(j)
      <3>1. 1 \in DOMAIN steps /\ \A n \in DOMAIN steps : n = 1
        BY <2>2
      <3>2. \/ ran'[j] = ran[j] /\ (Chunk(j, i) = {} \/ j \in eptr')
            \/ CountRun(j, Chunk(j, i))
        BY <1>4
      <3>3. eptr \subseteq eptr'
        BY <1>4
      <3> QED BY <3>1, <3>2, <3>3, <2>2, <1>3, <1>4, ChunkLeaves
    <2>5. Kept(j)
      BY <2>4, JobsAreNotLaunched
    <2>6. \A z \in (Jobs \cup Launched) \ {j} : SameVars(z)
      BY <1>4, <1>7 DEF SameVars
    <2>7. \A n \in DOMAIN steps : steps[n][2] = j
      BY <2>2
    <2> QED BY <2>2, <2>3, <2>4, <2>5, <2>6, <2>7, <1>3, <1>4, <1>6, <1>7, JobKeeps
  <1>10. CASE i = 0 /\ CountRun(j, Chunk(j, i)) /\ Continue(t, Body[j] \o end) /\ eptr' = eptr
    <2> DEFINE L == Len(Body[j]) + 1
    <2>1. PICK steps \in Seq(Working) : steps = Body[j] \o end
      BY <1>3, ChunkLineIsWork
    <2>2. /\ Len(Body[j]) \in Nat /\ Len(steps) = L
          /\ \A n \in 1 .. Len(Body[j]) : steps[n] = Body[j][n]
          /\ steps[L] = <<"sub", j, i>>
      BY <2>1, <1>3, ChunkLineIsWork
    <2>3. DOMAIN steps = 1 .. L /\ DOMAIN Body[j] = 1 .. Len(Body[j])
      <3>1. Body[j] \in Seq(Working)
        BY <1>6, BodyIsWork
      <3> QED BY <3>1, <2>2, LenProperties
    <2>4. /\ L \in DOMAIN steps
          /\ \A n \in DOMAIN steps : n # L => n \in DOMAIN Body[j] /\ steps[n] = Body[j][n]
      <3>1. L \in 1 .. L /\ \A n \in 1 .. L : n # L => n \in 1 .. Len(Body[j])
        BY <2>2
      <3> QED BY <3>1, <2>2, <2>3
    <2>5. Emits(t, steps) /\ Continue(t, steps)
      BY <2>1, <1>4, <1>10 DEF Emits
    <2> HIDE DEF L
    <2>6. \A n \in DOMAIN steps : n # L => Foreign(steps[n], j) /\ steps[n] \in Steps /\ Plain(steps[n])
      BY <2>4, <1>5, <1>6, <1>10, NoSelfCall, BodyCalls DEF Plain
    <2>7. Placed'
      <3>1. steps[L][1] = "sub" /\ steps[L][3] \in Slots(steps[L][2])
        BY <2>2, <1>5
      <3>2. \A n \in DOMAIN steps : /\ steps[n][1] = "sub" => steps[n][3] \in Slots(steps[n][2])
                                    /\ steps[n][1] \notin {"inline", "enqueue", "chunk", "join", "joined", "return"}
        BY <3>1, <2>6 DEF Plain
      <3>3. \A u \in Threads : WellPlaced(todo[u], u)'
        BY <3>2, <2>5, <1>1, <1>3, <1>6, ContinuePlaced
      <3> QED BY <3>3, <1>1, <1>4 DEF Placed, Slots, NumTasks, UsesPool, ChunkSize, divup, AtLeast, get_num_threads
    <2>8. JobInv(j)' /\ Calm(j) /\ Begun(j)' /\ ~Present(Starter(j))'
      BY <2>2, <2>4, <2>5, <2>6, <1>3, <1>4, <1>10, ChunkLeaves
    <2>9. Kept(j)
      BY <2>8, JobsAreNotLaunched
    <2>10. \A n \in DOMAIN steps : (n \in DOMAIN Body[j] /\ steps[n] = Body[j][n]) \/ steps[n][2] = j
      <3>1. steps[L][2] = j
        BY <2>2
      <3> QED BY <3>1, <2>4
    <2>11. \A z \in (Jobs \cup Launched) \ {j} :
            /\ z \in returned' <=> z \in returned
            /\ z \in Jobs => /\ left'[z] = left[z] /\ ran'[z] = ran[z]
                             /\ (z \in early => z \in early') /\ (z \in eptr => z \in eptr')
      BY <1>4, <1>7, <1>10
    <2>12. /\ \A z \in Jobs \cup Launched : Kept(z)
           /\ \A y, z \in Jobs \cup Launched : Nested(y, z)'
           /\ StayStarted
      BY <2>5, <2>8, <2>9, <2>10, <2>11, <1>3, <1>4, <1>5, <1>6, <1>10, SpawnKeeps
    <2> QED BY <2>7, <2>12, <1>7 DEF Preserved
  <1> QED BY <1>4, <1>9, <1>10

-----------------------------------------------------------------------------
(* The program before its first step. *)
LEMMA InitLoop == Init => LoopInv
  <1> SUFFICES ASSUME Init PROVE LoopInv
    OBVIOUS
  <1>1. PICK p \in Programs : todo = [t \in Threads |-> IF t \in Mains THEN p[t] ELSE <<>>]
    BY DEF Init
  <1>2. tasks = <<>> /\ DOMAIN tasks = {} /\ returned = {} /\ left = [j \in Jobs |-> 0]
        /\ ran = [j \in Jobs |-> [x \in 0 .. Size[j] - 1 |-> 0]]
        /\ made = {f \in Futures : Kind[f] = "promise"}
    BY DEF Init, PoolInit, FutureInit
  <1>3. \A m \in Mains : \A n \in DOMAIN p[m] : p[m][n] \in CallSteps
    <2>1. p \in [Mains -> Seq(CallSteps)]
      BY ParallelAssumption
    <2>2. \A m \in Mains : p[m] \in Seq(CallSteps)
      BY <2>1
    <2> QED BY <2>2, LenProperties, ElementOfSeq
  <1>4. ASSUME NEW t \in Threads, NEW n \in DOMAIN todo[t]
        PROVE  t \in Mains /\ n \in DOMAIN p[t] /\ todo[t][n] = p[t][n] /\ p[t][n] \in CallSteps
    <2>1. t \in Mains
      <3>1. t \notin Mains => todo[t] = <<>>
        BY <1>1
      <3>2. DOMAIN <<>> = {}
        OBVIOUS
      <3> QED BY <3>1, <3>2, <1>4
    <2>2. todo[t] = p[t]
      BY <2>1, <1>1
    <2> QED BY <2>1, <2>2, <1>3, <1>4
  <1>5. ASSUME NEW s \in CallSteps
        PROVE  /\ s[1] \in {"for", "launch", "wait", "make", "fulfil", "complete", "destroy"}
               /\ \A z \in Jobs : s[1] \in Kinds /\ s[2] = z => s = <<"for", z>>
               /\ \A z \in Launched : s[1] \in Kinds /\ s[2] = z => s = <<"launch", z>>
               /\ s \in Steps
    <2>1. s[1] \in {"for", "launch", "wait", "make", "fulfil", "complete", "destroy"} /\ s \in Steps
      BY DEF CallSteps, Steps, Working
    <2>2. s[1] = "for" => s[2] \in Jobs /\ s = <<"for", s[2]>>
      BY <2>1, StepArgs
    <2>3. s[1] = "launch" => s[2] \in Launched /\ s = <<"launch", s[2]>>
      BY <2>1, StepArgs
    <2>4. s[1] \in Kinds => s[1] = "for" \/ s[1] = "launch"
      BY <2>1 DEF Kinds
    <2>5. \A z \in Jobs : z \notin Launched
      BY ParallelAssumption DEF Launched
    <2> QED BY <2>1, <2>2, <2>3, <2>4, <2>5
  <1>6. ASSUME NEW z \in Jobs \cup Launched, NEW P \in Family(z), NEW t \in Threads, NEW n \in DOMAIN todo[t], todo[t][n] \in P
        PROVE  todo[t][n] = (IF z \in Jobs THEN <<"for", z>> ELSE <<"launch", z>>) /\ p[t][n][1] \in Once
    <2>1. t \in Mains /\ n \in DOMAIN p[t] /\ todo[t][n] = p[t][n] /\ p[t][n] \in CallSteps
      BY <1>4
    <2>2. p[t][n] \in Steps
      BY <2>1, <1>5
    <2>3. p[t][n][1] \in Kinds /\ p[t][n][2] = z
      BY <2>1, <2>2, <1>6, ForeignTokens DEF Foreign
    <2>4. CASE z \in Jobs
      <3>1. p[t][n] = <<"for", z>>
        BY <2>1, <2>3, <2>4, <1>5
      <3> QED BY <3>1, <2>1, <2>4 DEF Once
    <2>5. CASE z \notin Jobs
      <3>1. p[t][n] = <<"launch", z>>
        BY <2>1, <2>3, <2>5, <1>5
      <3> QED BY <3>1, <2>1, <2>5 DEF Once
    <2> QED BY <2>4, <2>5
  <1>7. \A P : Present(P) <=> \E t \in Threads : \E n \in DOMAIN todo[t] : todo[t][n] \in P
    BY <1>2 DEF Present, OnThread, InQueue
  <1>8. ASSUME NEW z \in Jobs \cup Launched, NEW P \in Family(z)
        PROVE  Single(P) /\ (Present(P) => (IF z \in Jobs THEN <<"for", z>> ELSE <<"launch", z>>) \in P)
    <2>1. ASSUME NEW t \in Threads, NEW u \in Threads, NEW n \in DOMAIN todo[t], NEW k \in DOMAIN todo[u],
                 todo[t][n] \in P, todo[u][k] \in P
          PROVE  t = u /\ n = k
      <3>1. todo[t][n] = todo[u][k] /\ p[t][n][1] \in Once
        <4> DEFINE c == IF z \in Jobs THEN <<"for", z>> ELSE <<"launch", z>>
        <4>1. \A v \in Threads : \A h \in DOMAIN todo[v] : todo[v][h] \in P => todo[v][h] = c /\ p[v][h][1] \in Once
          BY <1>6, <1>8
        <4> HIDE DEF c
        <4> QED BY <4>1, <2>1
      <3>2. /\ t \in Mains /\ n \in DOMAIN p[t] /\ todo[t][n] = p[t][n]
            /\ u \in Mains /\ k \in DOMAIN p[u] /\ todo[u][k] = p[u][k]
        BY <1>4
      <3>3. p[u][k] = p[t][n]
        BY <3>1, <3>2
      <3>4. \A l \in Mains : \A h \in DOMAIN p[l] : p[l][h] = p[t][n] => l = t /\ h = n
        BY <3>1, <3>2, ParallelAssumption
      <3> QED BY <3>2, <3>3, <3>4
    <2>2. ~InQueue(P)
      BY <1>2 DEF InQueue
    <2>3. Single(P)
      BY <2>1, <2>2, <1>2 DEF Single
    <2> QED BY <2>3, <1>6, <1>7, <1>8
  <1>9. ASSUME NEW j \in Jobs PROVE JobInv(j)
    <2>0. j \in Jobs \cup Launched /\ j \notin Launched
      BY ParallelAssumption DEF Launched
    <2>1. /\ Single(CallToken(j)) /\ Single(Starter(j)) /\ \A i \in Index : Single(ChunkToken(j, i))
      BY <2>0, <1>8, Members
    <2>2. /\ ~Present({<<"return", j>>}) /\ \A i \in Index : ~Present(ChunkToken(j, i)) /\ ~Present(UnrunToken(j, i))
      <3>1. <<"for", j>> \notin {<<"return", j>>} /\ \A i : <<"for", j>> \notin ChunkToken(j, i) /\ <<"for", j>> \notin UnrunToken(j, i)
        BY DEF ChunkToken, UnrunToken
      <3>2. \A P \in Family(j) : Present(P) => <<"for", j>> \in P
        BY <2>0, <1>8
      <3> QED BY <3>1, <3>2, Members
    <2>3. Slots(j) \subseteq Index
      BY SlotsAreIndices
    <2>4. Flight(j) = {}
      BY <2>2, <2>3 DEF Flight
    <2>5. left[j] = 0 /\ \A x \in DOMAIN ran[j] : ran[j][x] = 0
      BY <1>2
    <2>6. Tokens(j)
      BY <2>1, <2>3, <1>2 DEF Tokens
    <2>7. Fresh(j)
      BY <2>4, <2>5 DEF Fresh
    <2>8. LeftIsExact(j)
      BY <2>4, <2>5, <1>2, FS_EmptySet DEF LeftIsExact
    <2>9. RanIsExact(j)
      BY <2>2, <2>3, <2>5, <1>2 DEF RanIsExact
    <2> QED BY <2>6, <2>7, <2>8, <2>9 DEF JobInv
  <1>10. ASSUME NEW f \in Launched PROVE LaunchInv(f) /\ f \notin made
    <2>1. f \notin made
      BY <1>2 DEF Launched
    <2>2. f \in Jobs \cup Launched /\ f \notin Jobs
      BY ParallelAssumption DEF Launched
    <2>3. Single(Starter(f))
      BY <2>2, <1>8, Members
    <2>4. ~Present({<<"func", f>>})
      <3>1. <<"launch", f>> \notin {<<"func", f>>}
        OBVIOUS
      <3>2. \A P \in Family(f) : Present(P) => <<"launch", f>> \in P
        BY <2>2, <1>8
      <3> QED BY <3>1, <3>2, Members
    <2> QED BY <2>1, <2>3, <2>4 DEF LaunchInv
  <1>11. ASSUME NEW x \in Jobs \cup Launched, NEW z \in Jobs \cup Launched PROVE Nested(x, z)
    <2>1. SUFFICES ASSUME NEW k \in DOMAIN Body[x], Body[x][k] \in CallOf(z), Begun(z) \/ Present(CallOf(z))
                   PROVE  FALSE
      BY DEF Nested
    <2>2. ~Begun(z)
      <3>1. ~Present(BegunToken(z))
        <4>1. BegunToken(z) \in Family(z)
          BY Members
        <4>2. <<"for", z>> \notin BegunToken(z) /\ <<"launch", z>> \notin BegunToken(z)
          BY DEF BegunToken
        <4> QED BY <4>1, <4>2, <1>8
      <3> QED BY <3>1, <1>2, <1>10 DEF Begun
    <2>3. PICK t \in Threads : \E n \in DOMAIN todo[t] : todo[t][n] \in CallOf(z)
      BY <2>1, <2>2, <1>7
    <2>4. PICK n \in DOMAIN todo[t] : todo[t][n] \in CallOf(z)
      BY <2>3
    <2>5. CallOf(z) \in Family(z)
      BY Members
    <2>6. todo[t][n] = (IF z \in Jobs THEN <<"for", z>> ELSE <<"launch", z>>) /\ p[t][n][1] \in Once
      BY <2>4, <2>5, <1>6
    <2>7. Body[x][k] = (IF z \in Jobs THEN <<"for", z>> ELSE <<"launch", z>>)
      <3>1. ~Foreign(Body[x][k], z)
        BY <2>1, BodyCalls
      <3> QED BY <3>1, BodyCalls
    <2>8. t \in Mains /\ n \in DOMAIN p[t] /\ todo[t][n] = p[t][n]
      BY <1>4
    <2>9. x \in DOMAIN Body
      BY ParallelAssumption
    <2>10. Body[x][k] # p[t][n]
      BY <2>6, <2>8, <2>9, ParallelAssumption
    <2> QED BY <2>6, <2>7, <2>8, <2>10
  <1>12. Placed
    <2>1. \A t \in Threads : WellPlaced(todo[t], t)
      <3>1. \A t \in Threads : \A n \in DOMAIN todo[t] :
               todo[t][n][1] \in {"for", "launch", "wait", "make", "fulfil", "complete", "destroy"}
        BY <1>4, <1>5
      <3> QED BY <3>1 DEF WellPlaced
    <2> QED BY <2>1, <1>2 DEF Placed
  <1>13. JobTyped
    <2>1. left \in [Jobs -> Int] /\ DOMAIN ran = Jobs
      BY <1>2
    <2>2. ASSUME NEW j \in Jobs PROVE ran[j] \in [0 .. Size[j] - 1 -> Nat]
      BY <1>2
    <2> QED BY <2>1, <2>2, <1>2 DEF JobTyped
  <1>14. PoolInv
    BY InitPool
  <1> QED BY <1>9, <1>10, <1>11, <1>12, <1>13, <1>14 DEF LoopInv

(* A step keeps the loops right. *)
LEMMA StepLoop ==
  ASSUME LoopInv, NEW t \in Threads, Step(t)
  PROVE  Preserved
  <1>1. Shape
    BY DEF LoopInv, PoolInv
  <1>2. CASE PoolStep(t) /\ UNCHANGED <<futureState, jobState>>
    <2>1. UNCHANGED made /\ UNCHANGED jobState
      BY <1>2 DEF futureState
    <2>2. CASE FinishTask(t)
      BY <1>2, <2>2, FinishKeeps
    <2>3. CASE WaitWorkComplete(t) \/ Destroy(t) \/ JoinWorkers(t)
      BY <2>1, <2>3, <1>1, PoolIsNeutral, NeutralKeeps
    <2> QED BY <1>2, <2>2, <2>3 DEF PoolStep
  <1>3. CASE FutureStep(t) /\ UNCHANGED jobState
    BY <1>1, <1>3, FutureIsNeutral, NeutralKeeps
  <1>4. CASE Fulfil(t)
    <2>1. UNCHANGED made /\ UNCHANGED jobState
      BY <1>4 DEF Fulfil, futureState
    <2> QED BY <2>1, <1>1, <1>4, PoolIsNeutral, NeutralKeeps
  <1>5. CASE ParallelFor(t) \/ RunInline(t) \/ Enqueue(t) \/ RunChunk(t) \/ ChunkDone(t)
    BY <1>5, ForKeeps, InlineKeeps, EnqueueKeeps, RunChunkKeeps, ChunkDoneKeeps
  <1>6. CASE Join(t) \/ Joined(t) \/ Return(t) \/ Launch(t) \/ CallFunc(t)
    BY <1>6, JoinKeeps, JoinedKeeps, ReturnKeeps, LaunchKeeps, CallFuncKeeps
  <1> QED BY <1>2, <1>3, <1>4, <1>5, <1>6 DEF Step

LEMMA NextLoop == LoopInv /\ [Next]_vars => LoopInv'
  <1> SUFFICES ASSUME LoopInv, [Next]_vars PROVE LoopInv'
    OBVIOUS
  <1>1. PoolInv'
    BY NextPool DEF LoopInv
  <1>2. CASE Next
    <2>1. Preserved
      <3>1. CASE \E t \in Threads : Step(t)
        BY <3>1, StepLoop
      <3>2. CASE \E w \in Workers : Wake(w)
        BY <3>2, WakeKeeps DEF Wake
      <3>3. CASE \E t \in Mains : SpuriousWakeUp(t)
        BY <3>3, SpuriousKeeps DEF Threads
      <3> QED BY <1>2, <3>1, <3>2, <3>3 DEF Next
    <2>2. \A j \in Jobs : JobInv(j)'
      BY <2>1 DEF Preserved, Kept
    <2>3. \A f \in Launched : LaunchInv(f)'
      BY <2>1 DEF Preserved, Kept
    <2> QED BY <2>1, <2>2, <2>3, <1>1 DEF LoopInv, Preserved
  <1>3. CASE UNCHANGED vars
    <2>1. UNCHANGED <<tasks, todo, asleep, made, left, eptr, ran, returned, early>>
      BY <1>3 DEF vars, poolState, futureState, jobState
    <2>2. Placed'
      BY <2>1 DEF LoopInv, Placed, WellPlaced, Slots, NumTasks, UsesPool, ChunkSize, divup, AtLeast, get_num_threads
    <2>3. JobTyped'
      BY <2>1 DEF LoopInv, JobTyped
    <2>4. ASSUME NEW z \in Jobs \cup Launched PROVE Kept(z) /\ Calm(z)
      <3>1. Quiet(z)
        BY <2>1, StillQuiet
      <3>2. AfterJoin(z)' => AfterJoin(z)
        BY <2>1 DEF AfterJoin
      <3>3. Frame(z)
        BY <3>1, <3>2, <2>1 DEF Frame
      <3>4. (z \in Jobs => JobInv(z)) /\ (z \in Launched => LaunchInv(z))
        BY DEF LoopInv
      <3> QED BY <3>3, <3>4, FrameKeeps
    <2>5. \A x, z \in Jobs \cup Launched : Nested(x, z)'
      BY <2>4, AllCalm DEF LoopInv
    <2>6. \A j \in Jobs : JobInv(j)'
      BY <2>4 DEF Kept
    <2>7. \A f \in Launched : LaunchInv(f)'
      BY <2>4 DEF Kept
    <2> QED BY <2>2, <2>3, <2>5, <2>6, <2>7, <1>1 DEF LoopInv
  <1> QED BY <1>2, <1>3

LEMMA NextStarted ==
  ASSUME LoopInv, [Next]_vars
  PROVE  StayStarted
  <1>1. CASE Next
    <2>1. CASE \E t \in Threads : Step(t)
      BY <2>1, StepLoop DEF Preserved
    <2>2. CASE \E w \in Workers : Wake(w)
      BY <2>2, WakeKeeps DEF Wake, Preserved
    <2>3. CASE \E t \in Mains : SpuriousWakeUp(t)
      BY <2>3, SpuriousKeeps DEF Threads, Preserved
    <2> QED BY <1>1, <2>1, <2>2, <2>3 DEF Next
  <1>2. CASE UNCHANGED vars
    BY <1>2 DEF vars, poolState, futureState, jobState, StayStarted, Started, Begun, Present, OnThread, InQueue
  <1> QED BY <1>1, <1>2

LEMMA LoopIsRight == LoopInv => EveryIndexOnce
  <1> SUFFICES ASSUME LoopInv, NEW j \in Jobs
               PROVE  /\ \A x \in DOMAIN ran[j] : ran[j][x] <= 1
                      /\ j \in returned \ early => ~Pending(j)
                      /\ j \in returned \ (early \cup eptr) => \A x \in DOMAIN ran[j] : ran[j][x] = 1
    BY DEF EveryIndexOnce
  <1>1. Shape /\ Placed /\ JobInv(j)
    BY DEF LoopInv, PoolInv
  <1>2. \A x \in DOMAIN ran[j] : ran[j][x] <= 1
    BY <1>1 DEF JobInv, RanIsExact
  <1>3. \A i \in Slots(j) : UnrunToken(j, i) \subseteq ChunkToken(j, i)
    BY DEF UnrunToken, ChunkToken
  <1>4. ASSUME Pending(j) PROVE Flight(j) # {}
    <2> DEFINE P == {s \in Steps : s[1] \in {"enqueue", "chunk", "sub"} /\ s[2] = j}
    <2>1. Present(P)
      <3>1. CASE \E n \in DOMAIN tasks : \E k \in DOMAIN tasks[n] : tasks[n][k][1] = "chunk" /\ tasks[n][k][2] = j
        <4>1. PICK n \in DOMAIN tasks : \E k \in DOMAIN tasks[n] : tasks[n][k][1] = "chunk" /\ tasks[n][k][2] = j
          BY <3>1
        <4>2. PICK k \in DOMAIN tasks[n] : tasks[n][k][1] = "chunk" /\ tasks[n][k][2] = j
          BY <4>1
        <4>3. tasks[n] \in Seq(Working)
          BY <1>1, LenProperties, ElementOfSeq DEF Shape, Typed
        <4>4. tasks[n][k] \in Steps
          BY <4>3, LenProperties, ElementOfSeq DEF Steps
        <4> QED BY <4>2, <4>4 DEF Present, InQueue
      <3>2. CASE \E t \in Threads : \E n \in DOMAIN todo[t] :
                    todo[t][n][1] \in {"enqueue", "chunk", "sub"} /\ todo[t][n][2] = j
        <4>1. PICK t \in Threads : \E n \in DOMAIN todo[t] :
                    todo[t][n][1] \in {"enqueue", "chunk", "sub"} /\ todo[t][n][2] = j
          BY <3>2
        <4>2. PICK n \in DOMAIN todo[t] : todo[t][n][1] \in {"enqueue", "chunk", "sub"} /\ todo[t][n][2] = j
          BY <4>1
        <4>3. todo[t][n] \in Steps
          BY <1>1, LenProperties, ElementOfSeq DEF Shape, Typed
        <4> QED BY <4>2, <4>3 DEF Present, OnThread
      <3> QED BY <1>4, <3>1, <3>2 DEF Pending
    <2>2. PICK s \in P : s \in Steps /\ Present({s}) /\ (s[1] \in {"enqueue", "chunk", "sub"} => s[3] \in Slots(s[2]))
      BY <2>1, <1>1, TokenIsStep
    <2>3. s[3] \in Slots(j) /\ s = <<s[1], j, s[3]>>
      BY <2>2, StepArgs
    <2>4. {s} \subseteq ChunkToken(j, s[3])
      BY <2>2, <2>3 DEF ChunkToken
    <2>5. Present(ChunkToken(j, s[3]))
      BY <2>2, <2>4, MorePresent
    <2> QED BY <2>3, <2>5 DEF Flight
  <1>5. j \in returned \ early => Flight(j) = {}
    BY <1>1 DEF JobInv, LeftIsExact
  <1>6. j \in returned \ (early \cup eptr) => \A x \in DOMAIN ran[j] : ran[j][x] = 1
    <2>1. j \in returned \ early => \A i \in Slots(j) : ~Present(UnrunToken(j, i))
      BY <1>3, <1>5, MorePresent DEF Flight
    <2> QED BY <2>1, <1>1 DEF JobInv, RanIsExact
  <1> QED BY <1>2, <1>4, <1>5, <1>6

(* parallel_for calls the function at most once on every index, and on      *)
(* every index if it returns normally; when it returns no chunk, which      *)
(* refers to the caller's stack, is queued or running, unless its wait was  *)
(* woken spuriously: for every program, nesting, size, grain and number of  *)
(* threads, and whatever throws                                             *)
THEOREM EveryIndexIsDoneOnce == Spec => []EveryIndexOnce
  BY InitLoop, NextLoop, LoopIsRight, PTL DEF Spec

-----------------------------------------------------------------------------
(* The futures.  Who completes a future: the step to come that does it, of  *)
(* which there is at most one; the callback of a then() before that; or the *)
(* callbacks of a collectAll, one for each source.                          *)
Late(f)   == {<<"check", f>>, <<"mark", f, "value">>, <<"mark", f, "error">>}
Asked(f)  == {<<"launch", f>>, <<"fulfil", f>>, <<"make", f>>}
Marker(f) == Late(f) \cup Asked(f)
Own(f)    == Marker(f) \cup {<<"error_if_needed", f>>}

(* A callback is to be added, to be called, or among those of its source *)
Link(c)   == {<<"add", c>>, <<"call", c>>}
Added(c)  == \E n \in DOMAIN callbacks[Source(c)] : callbacks[Source(c)][n] = c
AddedOnce(c) ==
    \A n, k \in DOMAIN callbacks[Source(c)] :
        callbacks[Source(c)][n] = c /\ callbacks[Source(c)][k] = c => n = k
Open(c)   == Present(Link(c)) \/ Added(c)

CallbackInv(c) ==
    /\ Single(Link(c)) /\ AddedOnce(c)
    /\ ~(Present(Link(c)) /\ Added(c))
    /\ Present({<<"call", c>>}) => result[Source(c)] # "none"
    /\ Open(c) => c[1] \in made

(* remaining counts the sources that are not in D: those of D have a value  *)
(* and their callbacks are over                                             *)
Settled(f, D) ==
    /\ remaining[f] = Len(Sources[f]) - Cardinality(D)
    /\ \A i \in D : result[Sources[f][i]] = "value" /\ ~Open(<<f, i>>)

Failed(f) == \E i \in 1 .. Len(Sources[f]) : result[Sources[f][i]] = "error"

AllInv(f) ==
    /\ \E D \in SUBSET (1 .. Len(Sources[f])) : Settled(f, D)
    /\ Present(Late(f)) \/ result[f] = "value" => remaining[f] = 0
    /\ Present({<<"error_if_needed", f>>}) \/ result[f] = "error" => Failed(f)
    /\ ~Present({<<"mark", f, "error">>})

ThenInv(f) ==
    \A c \in Callbacks : c[1] = f /\ Open(c) => ~Present(Marker(f)) /\ result[f] = "none"

Unmade(f) ==
    /\ ~Present(Late(f)) /\ ~Present({<<"error_if_needed", f>>})
    /\ result[f] = "none" /\ Kind[f] # "promise" /\ remaining[f] = Len(Sources[f])

FutureInv(f) ==
    /\ Single(Marker(f))
    /\ result[f] # "none" => ~Present(Marker(f))
    /\ f \notin made => Unmade(f)
    /\ f \in made => ~Present({<<"make", f>>, <<"launch", f>>})
    /\ Kind[f] = "then" => ThenInv(f)
    /\ Kind[f] = "all" => AllInv(f)
    /\ Kind[f] # "all" => ~Present({<<"error_if_needed", f>>})

FutureTyped ==
    /\ made \subseteq Futures
    /\ result \in [Futures -> {"none", "value", "error"}]
    /\ remaining \in [Futures -> Int]
    /\ \A s \in Futures : \A n \in DOMAIN callbacks[s] : Source(callbacks[s][n]) = s

(* A future that the text of a function asks for is not touched before the  *)
(* function started                                                         *)
Stirred(f) == Present(Marker(f)) \/ result[f] # "none" \/ (Kind[f] # "promise" /\ f \in made)
AskedIn(x, f) == \E n \in DOMAIN Body[x] : Body[x][n] \in Asked(f)
NestedFuture(x, f) == AskedIn(x, f) /\ Stirred(f) => Started(x)

CollectInv ==
    /\ LoopInv /\ FutureTyped /\ ~misuse
    /\ \A f \in Futures : FutureInv(f)
    /\ \A c \in Callbacks : CallbackInv(c)
    /\ \A x \in Jobs \cup Launched, f \in Futures : NestedFuture(x, f)

-----------------------------------------------------------------------------
(* Of these tokens none is new *)
Fewer(S) == \A P \in SUBSET S : (Present(P)' => Present(P)) /\ (Single(P) => Single(P)')

(* A result is final *)
Final == \A f \in Futures : result[f] # "none" => result'[f] = result[f]

(* The invariant after a step in which no function starts *)
FutureKept(f) == FutureInv(f)' /\ (Stirred(f)' => Stirred(f))
Collected ==
    /\ FutureTyped' /\ ~misuse'
    /\ \A f \in Futures : FutureKept(f)
    /\ \A c \in Callbacks : CallbackInv(c)'

LEMMA EmitFewer ==
  ASSUME Shape, NEW t \in Threads, todo[t] # <<>>, NEW steps \in Seq(Working), Emits(t, steps), NEW S,
         \A n \in DOMAIN steps : steps[n] \notin S
  PROVE  Fewer(S)
  <1> SUFFICES ASSUME NEW P \in SUBSET S PROVE (Present(P)' => Present(P)) /\ (Single(P) => Single(P)')
    BY DEF Fewer
  <1>1. \A n \in DOMAIN steps : steps[n] \notin P
    OBVIOUS
  <1> QED BY <1>1, EmitTokens

LEMMA ThrowFewer ==
  ASSUME Shape, NEW t \in Threads, todo[t] # <<>>, Head(todo[t])[1] \in {"inline", "func"},
         todo' = [todo EXCEPT ![t] = Unwound(todo[t])], tasks' = tasks, NEW S
  PROVE  Fewer(S)
  <1> SUFFICES ASSUME NEW P \in SUBSET S PROVE (Present(P)' => Present(P)) /\ (Single(P) => Single(P)')
    BY DEF Fewer
  <1>1. PICK d \in 1 .. Len(todo[t]) : UnwoundBy(todo[t], d)
    BY UnwoundIsSuffix
  <1> QED BY <1>1, ThrowTokens

LEMMA WorkerFewer ==
  ASSUME Shape, NEW w \in Workers, Idle(w), NEW S, Finish \notin S,
         \/ tasks # <<>> /\ tasks' = Tail(tasks) /\ todo' = [todo EXCEPT ![w] = Append(Head(tasks), Finish)]
         \/ tasks' = tasks /\ todo' = [todo EXCEPT ![w] = <<>>]
  PROVE  Fewer(S)
  <1> SUFFICES ASSUME NEW P \in SUBSET S PROVE (Present(P)' => Present(P)) /\ (Single(P) => Single(P)')
    BY DEF Fewer
  <1>1. Finish \notin P
    OBVIOUS
  <1> QED BY <1>1, TakeTokens, IdleTokens

LEMMA StillFewer ==
  ASSUME UNCHANGED <<todo, tasks>>, NEW S
  PROVE  Fewer(S)
  BY DEF Fewer, Present, OnThread, InQueue, Single

LEMMA Kinfolk ==
  ASSUME NEW f
  PROVE  /\ Marker(f) \subseteq Own(f) /\ Late(f) \subseteq Own(f) /\ {<<"error_if_needed", f>>} \subseteq Own(f)
         /\ {<<"make", f>>, <<"launch", f>>} \subseteq Own(f) /\ {<<"mark", f, "error">>} \subseteq Own(f)
         /\ {<<"call", f>>} \subseteq Link(f)
         /\ Late(f) \subseteq Marker(f) /\ {<<"make", f>>, <<"launch", f>>} \subseteq Marker(f)
         /\ {<<"mark", f, "error">>} \subseteq Late(f) /\ Asked(f) \subseteq Marker(f)
  BY DEF Own, Marker, Late, Asked, Link

(* A future that the step is not about. *)
LEMMA FutureFrame ==
  ASSUME NEW z \in Futures, FutureInv(z), Fewer(Own(z)), Final,
         result'[z] = result[z], remaining'[z] = remaining[z], z \in made' <=> z \in made,
         \A c \in Callbacks : c[1] = z /\ Open(c)' => Open(c)
  PROVE  FutureKept(z)
  <1>1. /\ (Present(Marker(z))' => Present(Marker(z))) /\ (Single(Marker(z)) => Single(Marker(z))')
        /\ (Present(Late(z))' => Present(Late(z)))
        /\ (Present({<<"error_if_needed", z>>})' => Present({<<"error_if_needed", z>>}))
        /\ (Present({<<"make", z>>, <<"launch", z>>})' => Present({<<"make", z>>, <<"launch", z>>}))
        /\ (Present({<<"mark", z, "error">>})' => Present({<<"mark", z, "error">>}))
    BY Kinfolk DEF Fewer
  <1>2. z \notin made' => Unmade(z)'
    BY <1>1 DEF FutureInv, Unmade
  <1>3. ASSUME Kind[z] = "then" PROVE ThenInv(z)'
    BY <1>1, <1>3 DEF FutureInv, ThenInv
  <1>4. ASSUME Kind[z] = "all" PROVE AllInv(z)'
    <2>1. AllInv(z)
      BY <1>4 DEF FutureInv
    <2>2. Sources[z] \in Seq(Futures) /\ \A i \in 1 .. Len(Sources[z]) : Sources[z][i] \in Futures /\ <<z, i>> \in Callbacks
      BY <1>4, AddsAreWork, ElementOfSeq
    <2>3. PICK D \in SUBSET (1 .. Len(Sources[z])) : Settled(z, D)
      BY <2>1 DEF AllInv
    <2>4. Settled(z, D)'
      <3>1. ASSUME NEW i \in D PROVE result'[Sources[z][i]] = "value" /\ ~Open(<<z, i>>)'
        <4>1. i \in 1 .. Len(Sources[z]) /\ <<z, i>> \in Callbacks /\ <<z, i>>[1] = z
          BY <2>2
        <4>2. result[Sources[z][i]] = "value" /\ ~Open(<<z, i>>)
          BY <2>3 DEF Settled
        <4>3. ~Open(<<z, i>>)'
          BY <4>1, <4>2
        <4> QED BY <4>1, <4>2, <4>3, <2>2 DEF Final
      <3>2. remaining'[z] = Len(Sources[z]) - Cardinality(D)
        BY <2>3 DEF Settled
      <3> QED BY <3>1, <3>2 DEF Settled
    <2>5. Failed(z) => Failed(z)'
      BY <2>2 DEF Failed, Final
    <2> QED BY <2>1, <2>4, <2>5, <1>1 DEF AllInv
  <1>5. FutureInv(z)'
    BY <1>1, <1>2, <1>3, <1>4 DEF FutureInv
  <1> QED BY <1>1, <1>5 DEF FutureKept, Stirred

LEMMA CallbackFrame ==
  ASSUME NEW c \in Callbacks, CallbackInv(c), Fewer(Link(c)), Final, made \subseteq made',
         Added(c)' => Added(c), AddedOnce(c)'
  PROVE  CallbackInv(c)' /\ (Open(c)' => Open(c))
  <1>1. /\ (Present(Link(c))' => Present(Link(c))) /\ (Single(Link(c)) => Single(Link(c))')
        /\ (Present({<<"call", c>>})' => Present({<<"call", c>>}))
    BY Kinfolk DEF Fewer
  <1>2. Source(c) \in Futures
    BY CallbackArgs
  <1>3. Open(c)' => Open(c)
    BY <1>1 DEF Open
  <1>4. Present({<<"call", c>>})' => result'[Source(c)] # "none"
    BY <1>1, <1>2 DEF CallbackInv, Final
  <1>5. (Present({<<"call", c>>}) => result[Source(c)] # "none")'
    BY <1>4 DEF Source
  <1> QED BY <1>1, <1>3, <1>5 DEF CallbackInv

(* A step that is about no future, and in which no function starts. *)
LEMMA QuietKeeps ==
  ASSUME CollectInv, UNCHANGED futureState, \A z \in Futures : Fewer(Own(z)), \A c \in Callbacks : Fewer(Link(c))
  PROVE  Collected
  <1>1. UNCHANGED <<made, result, callbacks, remaining, misuse>>
    BY DEF futureState
  <1>2. Final
    BY <1>1 DEF Final
  <1>3. \A c \in Callbacks : CallbackInv(c)' /\ (Open(c)' => Open(c))
    <2> TAKE c \in Callbacks
    <2>1. (Added(c)' => Added(c)) /\ (AddedOnce(c) => AddedOnce(c)')
      BY <1>1 DEF Added, AddedOnce, Source
    <2>2. CallbackInv(c) /\ AddedOnce(c)
      BY DEF CollectInv, CallbackInv
    <2> QED BY <2>1, <2>2, <1>1, <1>2, CallbackFrame
  <1>4. \A f \in Futures : FutureKept(f)
    BY <1>1, <1>2, <1>3, FutureFrame DEF CollectInv
  <1>5. FutureTyped' /\ ~misuse'
    BY <1>1 DEF CollectInv, FutureTyped, Source
  <1> QED BY <1>3, <1>4, <1>5 DEF Collected

(* The steps that are about no future. *)
FutureKinds == {"launch", "fulfil", "make", "check", "mark", "error_if_needed", "add", "call"}

LEMMA OwnTokens ==
  ASSUME NEW s, NEW f
  PROVE  /\ s \in Own(f) => s[1] \in FutureKinds /\ s[1] \notin {"add", "call"} /\ s[2] = f
         /\ s \in Link(f) => s[1] \in {"add", "call"} /\ s[1] \in FutureKinds /\ s[2] = f
  BY DEF Own, Marker, Late, Asked, Link, FutureKinds

LEMMA EmitQuiets ==
  ASSUME CollectInv, UNCHANGED futureState, NEW t \in Threads, todo[t] # <<>>, NEW steps \in Seq(Working), Emits(t, steps),
         \A n \in DOMAIN steps : steps[n][1] \notin FutureKinds
  PROVE  Collected
  <1>1. Shape
    BY DEF CollectInv, LoopInv, PoolInv
  <1>2. \A z \in Futures : Fewer(Own(z))
    BY <1>1, OwnTokens, EmitFewer
  <1>3. \A c \in Callbacks : Fewer(Link(c))
    BY <1>1, OwnTokens, EmitFewer
  <1> QED BY <1>2, <1>3, QuietKeeps

LEMMA OneQuiet ==
  ASSUME CollectInv, UNCHANGED futureState, NEW t \in Threads, todo[t] # <<>>, tasks' = tasks,
         NEW s \in Working, s[1] \notin FutureKinds, Continue(t, <<s>>) \/ Continue(t, <<>>)
  PROVE  Collected
  <1>1. CASE Continue(t, <<s>>)
    <2>1. PICK steps \in Seq(Working) : steps = <<s>>
      BY ShortLines
    <2>2. Emits(t, steps) /\ \A n \in DOMAIN steps : steps[n][1] \notin FutureKinds
      BY <1>1, <2>1 DEF Emits
    <2> QED BY <2>2, EmitQuiets
  <1>2. CASE Continue(t, <<>>)
    <2>1. PICK steps \in Seq(Working) : steps = <<>>
      BY ShortLines
    <2>2. Emits(t, steps) /\ DOMAIN steps = {}
      BY <1>2, <2>1 DEF Emits
    <2> QED BY <2>2, EmitQuiets
  <1> QED BY <1>1, <1>2

LEMMA StillQuiets ==
  ASSUME CollectInv, UNCHANGED <<futureState, todo, tasks>>
  PROVE  Collected
  <1>1. \A S : Fewer(S)
    BY StillFewer
  <1> QED BY <1>1, QuietKeeps

LEMMA ThrowQuiets ==
  ASSUME CollectInv, UNCHANGED futureState, NEW t \in Threads, todo[t] # <<>>, Head(todo[t])[1] \in {"inline", "func"},
         todo' = [todo EXCEPT ![t] = Unwound(todo[t])], tasks' = tasks
  PROVE  Collected
  <1>1. Shape
    BY DEF CollectInv, LoopInv, PoolInv
  <1>2. (\A z \in Futures : Fewer(Own(z))) /\ (\A c \in Callbacks : Fewer(Link(c)))
    BY <1>1, ThrowFewer
  <1> QED BY <1>2, QuietKeeps

LEMMA LoopHeadQuiets ==
  ASSUME CollectInv, UNCHANGED futureState, NEW w \in Workers, Idle(w), NEW avail, NEW awaited, LoopHead(w, avail, awaited)
  PROVE  Collected
  <1>1. Shape
    BY DEF CollectInv, LoopInv, PoolInv
  <1>2. \/ tasks # <<>> /\ tasks' = Tail(tasks) /\ todo' = [todo EXCEPT ![w] = Append(Head(tasks), Finish)]
        \/ tasks' = tasks /\ todo' = [todo EXCEPT ![w] = <<>>]
    BY LoopHeadTurns
  <1>3. Finish[1] \notin FutureKinds
    BY DEF Finish, FutureKinds
  <1>4. \A z \in Futures : Fewer(Own(z))
    BY <1>1, <1>2, <1>3, OwnTokens, WorkerFewer
  <1>5. \A c \in Callbacks : Fewer(Link(c))
    BY <1>1, <1>2, <1>3, OwnTokens, WorkerFewer
  <1> QED BY <1>4, <1>5, QuietKeeps

LEMMA PoolCollects ==
  ASSUME CollectInv, NEW t \in Threads, PoolStep(t), UNCHANGED futureState
  PROVE  Collected
  <1>1. Shape
    BY DEF CollectInv, LoopInv, PoolInv
  <1>2. CASE FinishTask(t)
    <2>1. todo[t] # <<>> /\ Head(todo[t])[1] = "finish"
      BY <1>2 DEF FinishTask, At
    <2>2. /\ Head(todo[t]) = Finish /\ Head(todo[t]) = todo[t][1] /\ DOMAIN todo[t] = 1 .. Len(todo[t])
          /\ Len(todo[t]) \in Nat \ {0}
      BY <1>1, <2>1, HeadStep, StepArgs
    <2>3. t \in Workers /\ 1 = Len(todo[t])
      <3>1. 1 \in DOMAIN todo[t] /\ todo[t][1] = Finish /\ Ends(todo[t], t)
        BY <1>1, <2>2 DEF Shape
      <3> QED BY <3>1 DEF Ends
    <2>4. Idle(t)
      BY <2>2, <2>3 DEF Idle
    <2>5. \E avail, awaited : LoopHead(t, avail, awaited)
      BY <1>2 DEF FinishTask
    <2> QED BY <2>3, <2>4, <2>5, LoopHeadQuiets
  <1>3. CASE WaitWorkComplete(t) \/ Destroy(t) \/ JoinWorkers(t)
    <2>1. /\ todo[t] # <<>> /\ tasks' = tasks
          /\ Continue(t, <<<<"join_workers">>>>) \/ Continue(t, <<>>) \/ UNCHANGED todo
      BY <1>3 DEF WaitWorkComplete, Destroy, JoinWorkers, At, Sleep, poolState
    <2>2. <<"join_workers">> \in Working /\ <<"join_workers">>[1] \notin FutureKinds
      BY MakeSteps DEF FutureKinds
    <2> QED BY <2>1, <2>2, OneQuiet, StillQuiets
  <1> QED BY <1>2, <1>3 DEF PoolStep

LEMMA WakeCollects ==
  ASSUME CollectInv, NEW w \in Workers, WorkerWakes(w), UNCHANGED futureState
  PROVE  Collected
  <1>1. todo[w] = <<>> /\ LoopHead(w, available, asleep)
    BY DEF WorkerWakes
  <1>2. Idle(w)
    BY <1>1 DEF Idle
  <1> QED BY <1>1, <1>2, LoopHeadQuiets

LEMMA JobCollects ==
  ASSUME CollectInv, NEW t \in Threads,
         FutureWait(t) \/ Notify(t) \/ ParallelFor(t) \/ Enqueue(t) \/ ChunkDone(t) \/ Join(t) \/ Joined(t) \/ Return(t)
  PROVE  Collected
  <1>1. Shape
    BY DEF CollectInv, LoopInv, PoolInv
  <1>w. <<"join_workers">> \in Working /\ <<"join_workers">>[1] \notin FutureKinds
    BY MakeSteps DEF FutureKinds
  <1>2. CASE FutureWait(t) \/ Notify(t) \/ ChunkDone(t) \/ Joined(t) \/ Return(t)
    <2>1. /\ todo[t] # <<>> /\ tasks' = tasks /\ UNCHANGED futureState
          /\ Continue(t, <<>>) \/ UNCHANGED todo
      BY <1>2 DEF FutureWait, Notify, ChunkDone, Joined, Return, At, Sleep, poolState
    <2> QED BY <2>1, <1>w, OneQuiet, StillQuiets
  <1>3. CASE Join(t)
    <2>1. At(t, "join") /\ Head(todo[t]) \in Steps /\ Head(todo[t])[1] = "join" /\ Arg(t) = Head(todo[t])[2]
      BY <1>1, <1>3, ArgsAt DEF Join
    <2>2. Arg(t) \in Jobs
      BY <2>1, StepArgs
    <2>3. <<"joined", Arg(t)>> \in Working /\ <<"joined", Arg(t)>>[1] \notin FutureKinds
      BY <2>2, MakeSteps DEF FutureKinds
    <2>4. /\ todo[t] # <<>> /\ tasks' = tasks /\ UNCHANGED futureState
          /\ Continue(t, <<<<"joined", Arg(t)>>>>) \/ Continue(t, <<>>)
      BY <1>3 DEF Join, At, poolState
    <2> QED BY <2>3, <2>4, OneQuiet
  <1>4. CASE Enqueue(t)
    <2>1. At(t, "enqueue") /\ Head(todo[t]) \in Steps /\ Head(todo[t])[1] = "enqueue" /\ Arg(t) = Head(todo[t])[2]
      BY <1>1, <1>4, ArgsAt DEF Enqueue
    <2>2. Arg(t) \in Jobs /\ Head(todo[t])[3] \in Index
      BY <2>1, StepArgs
    <2>3. PICK steps \in Seq(Working) : steps = <<<<"chunk", Arg(t), Head(todo[t])[3]>>>>
      BY <2>2, MakeSteps, ShortLines
    <2>4. \A n \in DOMAIN steps : steps[n][1] \notin FutureKinds
      BY <2>3 DEF FutureKinds
    <2>5. todo[t] # <<>> /\ UNCHANGED futureState /\ Emits(t, steps)
      BY <1>4, <2>3 DEF Enqueue, Run, Emits, At
    <2> QED BY <2>4, <2>5, EmitQuiets
  <1>5. CASE ParallelFor(t)
    <2>1. At(t, "for") /\ Head(todo[t]) \in Steps /\ Head(todo[t])[1] = "for" /\ Arg(t) = Head(todo[t])[2]
      BY <1>1, <1>5, ArgsAt DEF ParallelFor
    <2>2. Arg(t) \in Jobs
      BY <2>1, StepArgs
    <2>3. <<"inline", Arg(t)>> \in Working /\ <<"inline", Arg(t)>>[1] \notin FutureKinds
      BY <2>2, MakeSteps DEF FutureKinds
    <2>4. /\ todo[t] # <<>> /\ tasks' = tasks /\ UNCHANGED futureState
          /\ \/ Continue(t, <<<<"inline", Arg(t)>>>>) \/ Continue(t, <<>>)
             \/ Size[Arg(t)] > Grain[Arg(t)] /\ Size[Arg(t)] > 1 /\ Continue(t, ForLine(Arg(t)))
      BY <1>5 DEF ParallelFor, At, poolState, ForLine
    <2>5. CASE Size[Arg(t)] > Grain[Arg(t)] /\ Size[Arg(t)] > 1 /\ Continue(t, ForLine(Arg(t)))
      <3> DEFINE j == Arg(t)
      <3>1. PICK steps \in Seq(Working) : steps = ForLine(j)
        BY <2>2, <2>5, ForLineIsWork
      <3>2. /\ Len(steps) = NumTasks(j) + 2 /\ NumTasks(j) \in Nat \ {0}
            /\ \A n \in 1 .. NumTasks(j) - 1 : steps[n] = <<"enqueue", j, n>>
            /\ steps[NumTasks(j)] = <<"chunk", j, 0>>
            /\ steps[NumTasks(j) + 1] = <<"join", j>>
            /\ steps[NumTasks(j) + 2] = <<"return", j>>
        BY <2>2, <2>5, <3>1, ForLineIsWork
      <3>3. DOMAIN steps = 1 .. NumTasks(j) + 2
        BY <3>2, LenProperties
      <3> HIDE DEF j
      <3>4. ASSUME NEW n \in DOMAIN steps PROVE steps[n][1] \notin FutureKinds
        <4>1. n \in 1 .. NumTasks(j) - 1 \/ n = NumTasks(j) \/ n = NumTasks(j) + 1 \/ n = NumTasks(j) + 2
          BY <3>2, <3>3
        <4> QED BY <4>1, <3>2 DEF FutureKinds
      <3>5. Emits(t, steps)
        BY <2>4, <2>5, <3>1 DEF Emits, j
      <3> QED BY <2>4, <3>4, <3>5, EmitQuiets
    <2> QED BY <2>3, <2>4, <2>5, OneQuiet
  <1> QED BY <1>2, <1>3, <1>4, <1>5

-----------------------------------------------------------------------------
(* The call that asks for a future is determined by its kind. *)
AskOf(z) ==
    IF Kind[z] = "launch" THEN <<"launch", z>> ELSE IF Kind[z] = "promise" THEN <<"fulfil", z>> ELSE <<"make", z>>

LEMMA CallAsks ==
  ASSUME NEW s \in CallSteps, NEW z \in Futures
  PROVE  /\ s \in Own(z) => s = AskOf(z) /\ s \in Asked(z) /\ s[1] \in Once
         /\ \A c : s \notin Link(c)
  <1>1. s \in Steps /\ s[1] \in {"for", "launch", "wait", "make", "fulfil", "complete", "destroy"}
    BY DEF CallSteps, Steps, Working
  <1>2. \A c : s \notin Link(c)
    BY <1>1, OwnTokens
  <1>3. ASSUME s \in Own(z) PROVE s \in {<<"launch", z>>, <<"fulfil", z>>, <<"make", z>>}
    BY <1>1, <1>3 DEF Own, Marker, Late, Asked
  <1>4. ASSUME s \in Own(z) PROVE s = AskOf(z) /\ s \in Asked(z) /\ s[1] \in Once
    <2>1. CASE s = <<"launch", z>>
      BY <2>1, <1>1, StepKinds DEF AskOf, Asked, Once
    <2>2. CASE s = <<"fulfil", z>>
      BY <2>2, <1>1, StepKinds DEF AskOf, Asked, Once
    <2>3. CASE s = <<"make", z>>
      BY <2>3, <1>1, StepKinds DEF AskOf, Asked, Once
    <2> QED BY <1>3, <1>4, <2>1, <2>2, <2>3
  <1> QED BY <1>2, <1>4

LEMMA OneAsk ==
  ASSUME NEW x \in Jobs \cup Launched, NEW y \in Jobs \cup Launched, NEW n \in DOMAIN Body[x], NEW k \in DOMAIN Body[y],
         NEW z \in Futures, Body[x][n] \in Own(z), Body[y][k] \in Own(z)
  PROVE  x = y /\ n = k
  <1>1. Body[x][n] \in CallSteps /\ Body[y][k] \in CallSteps
    BY BodyCalls
  <1>2. Body[x][n] = Body[y][k] /\ Body[x][n][1] \in Once
    BY <1>1, CallAsks
  <1>3. DOMAIN Body = Jobs \cup Launched
    BY ParallelAssumption
  <1> QED BY <1>2, <1>3, ParallelAssumption

(* The invariant after a step *)
Regained ==
    /\ FutureTyped' /\ ~misuse'
    /\ \A f \in Futures : FutureInv(f)'
    /\ \A c \in Callbacks : CallbackInv(c)'
    /\ \A x \in Jobs \cup Launched, f \in Futures : NestedFuture(x, f)'

LEMMA CollectedRegains ==
  ASSUME CollectInv, Collected, StayStarted
  PROVE  Regained
  <1>1. ASSUME NEW x \in Jobs \cup Launched, NEW f \in Futures PROVE NestedFuture(x, f)'
    <2>1. NestedFuture(x, f) /\ (Stirred(f)' => Stirred(f)) /\ (Started(x) => Started(x)')
      BY DEF CollectInv, Collected, FutureKept, StayStarted
    <2> QED BY <2>1 DEF NestedFuture, AskedIn
  <1> QED BY <1>1 DEF Collected, FutureKept, Regained

(* A future that the function about to start asks for. *)
LEMMA NotStirred ==
  ASSUME NEW z \in Futures, FutureInv(z), ~Stirred(z), \A c \in Callbacks : CallbackInv(c)
  PROVE  /\ ~Present(Marker(z)) /\ ~Present(Late(z)) /\ result[z] = "none"
         /\ z \in made => Kind[z] = "promise"
         /\ \A c \in Callbacks : c[1] = z => ~Open(c)
  <1>1. ~Present(Marker(z)) /\ result[z] = "none" /\ (z \in made => Kind[z] = "promise")
    BY DEF Stirred
  <1>2. ~Present(Late(z))
    BY <1>1, Kinfolk, MorePresent
  <1>3. ASSUME NEW c \in Callbacks, c[1] = z PROVE ~Open(c)
    BY <1>1, <1>3, CallbackArgs DEF CallbackInv
  <1> QED BY <1>1, <1>2, <1>3

(* A function starts: the calls in its text come next, for the first time.  *)
LEMMA SpawnCollects ==
  ASSUME CollectInv, UNCHANGED futureState, StayStarted, NEW t \in Threads, todo[t] # <<>>,
         NEW steps \in Seq(Working), Emits(t, steps),
         NEW x \in Jobs \cup Launched, Present(Starter(x)), Started(x)',
         \A n \in DOMAIN steps : (n \in DOMAIN Body[x] /\ steps[n] = Body[x][n]) \/ steps[n][1] = "sub"
  PROVE  Regained
  <1>1. Shape
    BY DEF CollectInv, LoopInv, PoolInv
  <1>2. UNCHANGED <<made, result, callbacks, remaining, misuse>>
    BY DEF futureState
  <1>3. Final
    BY <1>2 DEF Final
  <1>4. \A n \in DOMAIN steps : \A z : steps[n] \in Own(z) \cup Link(z) =>
            n \in DOMAIN Body[x] /\ steps[n] = Body[x][n] /\ Body[x][n] \in CallSteps
    <2>1. "sub" \notin FutureKinds
      BY DEF FutureKinds
    <2> QED BY <2>1, OwnTokens, BodyCalls
  <1>5. ASSUME NEW c \in Callbacks PROVE CallbackInv(c)' /\ (Open(c)' => Open(c))
    <2>1. (Added(c)' => Added(c)) /\ (AddedOnce(c) => AddedOnce(c)')
      BY <1>2 DEF Added, AddedOnce, Source
    <2>2. CallbackInv(c) /\ AddedOnce(c)
      BY DEF CollectInv, CallbackInv
    <2>3. \A n \in DOMAIN steps : steps[n] \notin Link(c)
      <3>1. PICK f \in Futures : f = c[1]
        BY CallbackArgs
      <3> QED BY <3>1, <1>4, CallAsks
    <2>4. Fewer(Link(c))
      BY <2>3, <1>1, EmitFewer
    <2> QED BY <2>1, <2>2, <2>4, <1>2, <1>3, CallbackFrame
  <1>6. ASSUME NEW z \in Futures, \A n \in DOMAIN steps : steps[n] \notin Own(z) PROVE FutureKept(z)
    <2>1. Fewer(Own(z))
      BY <1>1, <1>6, EmitFewer
    <2>2. FutureInv(z)
      BY DEF CollectInv
    <2> QED BY <2>1, <2>2, <1>2, <1>3, <1>5, FutureFrame
  <1>7. ASSUME NEW z \in Futures, NEW m \in DOMAIN steps, steps[m] \in Own(z)
        PROVE  /\ FutureInv(z)'
               /\ m \in DOMAIN Body[x] /\ Body[x][m] \in Own(z)
    <2>1. /\ m \in DOMAIN Body[x] /\ steps[m] = Body[x][m] /\ Body[x][m] \in CallSteps
          /\ steps[m] = AskOf(z) /\ steps[m] \in Asked(z)
      BY <1>4, <1>7, CallAsks
    <2>2. ~Stirred(z)
      <3>1. NestedFuture(x, z) /\ ~Started(x)
        BY DEF CollectInv, Started
      <3> QED BY <3>1, <2>1 DEF NestedFuture, AskedIn
    <2>3. FutureInv(z) /\ \A c \in Callbacks : CallbackInv(c)
      BY DEF CollectInv
    <2>4. /\ ~Present(Marker(z)) /\ ~Present(Late(z)) /\ result[z] = "none"
          /\ z \in made => Kind[z] = "promise"
          /\ \A c \in Callbacks : c[1] = z => ~Open(c)
      BY <2>2, <2>3, NotStirred
    <2>5. \A n \in DOMAIN steps : steps[n] \in Own(z) => n = m
      BY <1>4, <1>7, <2>1, OneAsk
    <2>6. Single(Marker(z))'
      <3>1. \A n, k \in DOMAIN steps : steps[n] \in Marker(z) /\ steps[k] \in Marker(z) => n = k
        BY <2>5, Kinfolk
      <3> QED BY <3>1, <2>4, <1>1, EmitTokens
    <2>7. \A n \in DOMAIN steps : /\ steps[n] \notin Late(z) /\ steps[n] \notin {<<"error_if_needed", z>>}
                                  /\ steps[n] \notin {<<"mark", z, "error">>}
                                  /\ Kind[z] = "promise" => steps[n] \notin {<<"make", z>>, <<"launch", z>>}
      <3>1. /\ AskOf(z) \notin Late(z) /\ AskOf(z) \notin {<<"error_if_needed", z>>}
            /\ AskOf(z) \notin {<<"mark", z, "error">>}
            /\ Kind[z] = "promise" => AskOf(z) \notin {<<"make", z>>, <<"launch", z>>}
        BY DEF AskOf, Late
      <3> QED BY <3>1, <2>1, <2>5, Kinfolk
    <2>8. /\ Present(Late(z))' => Present(Late(z))
          /\ Present({<<"error_if_needed", z>>})' => Present({<<"error_if_needed", z>>})
          /\ Present({<<"mark", z, "error">>})' => Present({<<"mark", z, "error">>})
      BY <2>7, <1>1, EmitTokens
    <2>9. z \in made' => ~Present({<<"make", z>>, <<"launch", z>>})'
      <3>1. z \in made => ~Present({<<"make", z>>, <<"launch", z>>})
        BY <2>3 DEF FutureInv
      <3> QED BY <3>1, <2>4, <2>7, <1>1, <1>2, EmitTokens
    <2>10. z \notin made' => Unmade(z)'
      BY <2>3, <2>8, <1>2 DEF FutureInv, Unmade
    <2>11. ThenInv(z)'
      <3>1. \A c \in Callbacks : c[1] = z => ~Open(c)'
        BY <2>4, <1>5
      <3> QED BY <3>1 DEF ThenInv
    <2>12. ASSUME Kind[z] = "all" PROVE AllInv(z)'
      <3>1. AllInv(z)
        BY <2>3, <2>12 DEF FutureInv
      <3>2. PICK D \in SUBSET (1 .. Len(Sources[z])) : Settled(z, D)
        BY <3>1 DEF AllInv
      <3>3. \A i \in D : ~Open(<<z, i>>)'
        <4>1. \A i \in D : <<z, i>> \in Callbacks /\ <<z, i>>[1] = z
          BY <2>12, AddsAreWork
        <4> QED BY <4>1, <2>4, <1>5
      <3>4. Settled(z, D)'
        BY <3>2, <3>3, <1>2 DEF Settled
      <3>5. Failed(z) => Failed(z)'
        BY <1>2 DEF Failed
      <3> QED BY <3>1, <3>4, <3>5, <2>8, <1>2 DEF AllInv
    <2>13. FutureInv(z)'
      <3>1. Kind[z] # "all" => ~Present({<<"error_if_needed", z>>})'
        BY <2>3, <2>8 DEF FutureInv
      <3>2. result'[z] = "none"
        BY <2>4, <1>2
      <3> QED BY <3>1, <3>2, <2>6, <2>9, <2>10, <2>11, <2>12 DEF FutureInv
    <2> QED BY <2>1, <2>13, <1>7
  <1>8. \A f \in Futures : FutureInv(f)'
    BY <1>6, <1>7 DEF FutureKept
  <1>9. ASSUME NEW y \in Jobs \cup Launched, NEW z \in Futures PROVE NestedFuture(y, z)'
    <2>1. CASE \A n \in DOMAIN steps : steps[n] \notin Own(z)
      <3>1. NestedFuture(y, z) /\ (Stirred(z)' => Stirred(z)) /\ (Started(y) => Started(y)')
        BY <2>1, <1>6 DEF CollectInv, FutureKept, StayStarted
      <3> QED BY <3>1 DEF NestedFuture, AskedIn
    <2>2. ASSUME NEW m \in DOMAIN steps, steps[m] \in Own(z) PROVE NestedFuture(y, z)'
      <3>1. SUFFICES ASSUME NEW k \in DOMAIN Body[y], Body[y][k] \in Asked(z) PROVE Started(y)'
        BY DEF NestedFuture, AskedIn
      <3>2. Body[y][k] \in Own(z)
        BY <3>1, Kinfolk
      <3>3. y = x
        BY <2>2, <3>2, <1>7, OneAsk
      <3> QED BY <3>3
    <2> QED BY <2>1, <2>2
  <1>10. FutureTyped' /\ ~misuse'
    BY <1>2 DEF CollectInv, FutureTyped, Source
  <1> QED BY <1>5, <1>8, <1>9, <1>10 DEF Regained

LEMMA SpawnStarts ==
  ASSUME LoopInv, NEW t \in Threads, todo[t] # <<>>, NEW steps \in Seq(Working), Emits(t, steps),
         NEW x \in Jobs \cup Launched, Head(todo[t]) \in Starter(x), Begun(x), made' = made, returned \subseteq returned',
         Head(todo[t]) \notin BegunToken(x) \/ x \in returned',
         \A n \in DOMAIN steps : (n \in DOMAIN Body[x] /\ steps[n] = Body[x][n]) \/ steps[n][1] = "sub"
  PROVE  Present(Starter(x)) /\ Started(x)'
  <1>1. Shape
    BY DEF LoopInv, PoolInv
  <1>2. Single(Starter(x))
    BY DEF LoopInv, JobInv, Tokens, LaunchInv
  <1>3. Present(Starter(x))
    BY <1>1, <1>2, OnlyOne
  <1>4. \A n \in DOMAIN steps : steps[n] \notin Starter(x)
    <2>1. ASSUME NEW n \in DOMAIN Body[x] PROVE Body[x][n] \notin Starter(x)
      <3>1. Foreign(Body[x][n], x) /\ Body[x][n] \in Steps
        BY <1>3, NoSelfCall, BodyCalls
      <3> QED BY <3>1, ForeignTokens, Members
    <2>2. \A s : s[1] = "sub" => s \notin Starter(x)
      BY DEF Starter
    <2> QED BY <2>1, <2>2
  <1>5. ~Present(Starter(x))'
    BY <1>1, <1>2, <1>4, EmitTokens
  <1>6. Begun(x)'
    <2>1. CASE x \in returned' \/ x \in made \cap Launched
      BY <2>1 DEF Begun
    <2>2. CASE x \notin returned' /\ x \notin made \cap Launched
      <3>1. Present(BegunToken(x)) /\ Head(todo[t]) \notin BegunToken(x)
        BY <2>2 DEF Begun
      <3>2. Present(BegunToken(x))'
        BY <3>1, <1>1, EmitTokens
      <3> QED BY <3>2 DEF Begun
    <2> QED BY <2>1, <2>2
  <1> QED BY <1>3, <1>5, <1>6 DEF Started

LEMMA CallFuncCollects ==
  ASSUME CollectInv, StayStarted, NEW t \in Threads, CallFunc(t)
  PROVE  Regained
  <1>1. Shape /\ LoopInv
    BY DEF CollectInv, LoopInv, PoolInv
  <1>2. At(t, "func") /\ Head(todo[t]) \in Steps /\ Head(todo[t])[1] = "func" /\ Arg(t) = Head(todo[t])[2]
    BY <1>1, ArgsAt DEF CallFunc
  <1>3. PICK f \in Launched : Head(todo[t]) = <<"func", f>> /\ todo[t] # <<>> /\ Arg(t) = f
    BY <1>2, StepArgs DEF At
  <1>4. /\ UNCHANGED <<tasks, made, returned, futureState>>
        /\ Continue(t, Body[f]) \/ todo' = [todo EXCEPT ![t] = Unwound(todo[t])]
    BY <1>3 DEF CallFunc, Throws, futureState, poolState
  <1>5. CASE todo' = [todo EXCEPT ![t] = Unwound(todo[t])]
    <2>1. Head(todo[t])[1] \in {"inline", "func"}
      BY <1>3
    <2> QED BY <2>1, <1>3, <1>4, <1>5, ThrowQuiets, CollectedRegains
  <1>6. CASE Continue(t, Body[f])
    <2>1. f \in Jobs \cup Launched /\ LaunchInv(f)
      BY <1>1 DEF LoopInv
    <2>2. PICK steps \in Seq(Working) : steps = Body[f]
      BY <2>1, BodyIsWork
    <2>3. Emits(t, steps)
      BY <2>2, <1>4, <1>6 DEF Emits
    <2>4. Head(todo[t]) \in Starter(f) /\ Head(todo[t]) \notin BegunToken(f) /\ Head(todo[t]) \in {<<"func", f>>}
      <3>1. <<"func", f>> # <<"inline", f>> /\ <<"func", f>> # <<"return", f>>
        OBVIOUS
      <3> QED BY <3>1, <1>3 DEF Starter, BegunToken
    <2>5. Present({<<"func", f>>})
      <3>1. {<<"func", f>>} \subseteq Starter(f)
        BY DEF Starter
      <3> QED BY <3>1, <2>1, <2>4, <1>1, <1>3, OnlyOne DEF LaunchInv
    <2>6. Begun(f)
      BY <2>1, <2>5 DEF LaunchInv, Begun
    <2>7. \A n \in DOMAIN steps : n \in DOMAIN Body[f] /\ steps[n] = Body[f][n]
      BY <2>2
    <2>8. Present(Starter(f)) /\ Started(f)'
      BY <2>1, <2>3, <2>4, <2>6, <2>7, <1>1, <1>3, <1>4, SpawnStarts
    <2> QED BY <2>1, <2>3, <2>7, <2>8, <1>3, <1>4, SpawnCollects
  <1> QED BY <1>4, <1>5, <1>6

LEMMA InlineCollects ==
  ASSUME CollectInv, StayStarted, NEW t \in Threads, RunInline(t)
  PROVE  Regained
  <1>1. Shape /\ LoopInv
    BY DEF CollectInv, LoopInv, PoolInv
  <1>2. At(t, "inline") /\ Head(todo[t]) \in Steps /\ Head(todo[t])[1] = "inline" /\ Arg(t) = Head(todo[t])[2]
    BY <1>1, ArgsAt DEF RunInline
  <1>3. PICK j \in Jobs : Head(todo[t]) = <<"inline", j>> /\ todo[t] # <<>> /\ Arg(t) = j
    BY <1>2, StepArgs DEF At
  <1>4. /\ UNCHANGED <<tasks, made, futureState>> /\ returned' = returned \cup {j}
        /\ Continue(t, Body[j]) \/ todo' = [todo EXCEPT ![t] = Unwound(todo[t])]
    BY <1>3 DEF RunInline, Throws, futureState, poolState
  <1>5. CASE todo' = [todo EXCEPT ![t] = Unwound(todo[t])]
    <2>1. Head(todo[t])[1] \in {"inline", "func"}
      BY <1>3
    <2> QED BY <2>1, <1>3, <1>4, <1>5, ThrowQuiets, CollectedRegains
  <1>6. CASE Continue(t, Body[j])
    <2>1. j \in Jobs \cup Launched
      OBVIOUS
    <2>2. PICK steps \in Seq(Working) : steps = Body[j]
      BY <2>1, BodyIsWork
    <2>3. Emits(t, steps)
      BY <2>2, <1>4, <1>6 DEF Emits
    <2>4. Head(todo[t]) \in Starter(j) /\ Begun(j) /\ j \in returned'
      BY <1>1, <1>3, <1>4, InlineOf
    <2>5. \A n \in DOMAIN steps : n \in DOMAIN Body[j] /\ steps[n] = Body[j][n]
      BY <2>2
    <2>6. Present(Starter(j)) /\ Started(j)'
      BY <2>1, <2>3, <2>4, <2>5, <1>1, <1>3, <1>4, SpawnStarts
    <2> QED BY <2>1, <2>3, <2>5, <2>6, <1>3, <1>4, SpawnCollects
  <1> QED BY <1>4, <1>5, <1>6

LEMMA ChunkCollects ==
  ASSUME CollectInv, StayStarted, NEW t \in Threads, RunChunk(t)
  PROVE  Regained
  <1>1. Shape /\ LoopInv
    BY DEF CollectInv, LoopInv, PoolInv
  <1>2. At(t, "chunk") /\ Head(todo[t]) \in Steps /\ Head(todo[t])[1] = "chunk" /\ Arg(t) = Head(todo[t])[2]
    BY <1>1, ArgsAt DEF RunChunk
  <1>3. PICK j \in Jobs, i \in Index : /\ Head(todo[t]) = <<"chunk", j, i>> /\ todo[t] # <<>>
                                       /\ Arg(t) = j /\ Head(todo[t])[3] = i
    BY <1>2, StepArgs DEF At
  <1> DEFINE end == <<<<"sub", j, i>>>>
  <1>4. /\ UNCHANGED <<tasks, made, returned, futureState>>
        /\ Continue(t, end) \/ (i = 0 /\ Continue(t, Body[j] \o end))
    <2>1. <<>> \o end = end
      BY <1>3, ChunkLineIsWork
    <2> HIDE DEF end
    <2>2. Continue(t, end) \/ Continue(t, (IF i = 0 THEN Body[j] ELSE <<>>) \o end)
      BY <1>3 DEF RunChunk, end
    <2>3. UNCHANGED <<tasks, made, returned, futureState>>
      BY DEF RunChunk, futureState, poolState
    <2> QED BY <2>1, <2>2, <2>3
  <1>5. CASE Continue(t, end)
    <2>1. <<"sub", j, i>> \in Working /\ <<"sub", j, i>>[1] \notin FutureKinds
      BY MakeSteps DEF FutureKinds
    <2>2. Collected
      BY <2>1, <1>3, <1>4, <1>5, OneQuiet
    <2> QED BY <2>2, CollectedRegains
  <1>6. CASE i = 0 /\ Continue(t, Body[j] \o end)
    <2> DEFINE L == Len(Body[j]) + 1
    <2>1. PICK steps \in Seq(Working) : steps = Body[j] \o end
      BY <1>3, ChunkLineIsWork
    <2>2. /\ Len(Body[j]) \in Nat /\ Len(steps) = L
          /\ \A n \in 1 .. Len(Body[j]) : steps[n] = Body[j][n]
          /\ steps[L] = <<"sub", j, i>>
      BY <2>1, <1>3, ChunkLineIsWork
    <2>3. DOMAIN steps = 1 .. L /\ DOMAIN Body[j] = 1 .. Len(Body[j])
      <3>1. Body[j] \in Seq(Working)
        BY BodyIsWork
      <3> QED BY <3>1, <2>2, LenProperties
    <2>4. \A n \in DOMAIN steps : (n \in DOMAIN Body[j] /\ steps[n] = Body[j][n]) \/ steps[n][1] = "sub"
      <3>1. \A n \in 1 .. L : n = L \/ n \in 1 .. Len(Body[j])
        BY <2>2
      <3>2. steps[L][1] = "sub"
        BY <2>2
      <3> QED BY <3>1, <3>2, <2>2, <2>3
    <2>5. Emits(t, steps)
      BY <2>1, <1>4, <1>6 DEF Emits
    <2>6. Begun(j)
      BY <1>1, <1>3, ChunkOf
    <2>7. Head(todo[t]) \in Starter(j) /\ Head(todo[t]) \notin BegunToken(j)
      BY <1>3, <1>6 DEF Starter, BegunToken
    <2>8. j \in Jobs \cup Launched
      OBVIOUS
    <2> HIDE DEF L
    <2>9. Present(Starter(j)) /\ Started(j)'
      BY <2>4, <2>5, <2>6, <2>7, <2>8, <1>1, <1>3, <1>4, SpawnStarts
    <2> QED BY <2>4, <2>5, <2>8, <2>9, <1>3, <1>4, SpawnCollects
  <1> QED BY <1>4, <1>5, <1>6

-----------------------------------------------------------------------------
(* A step about one future: the callbacks, and the other futures. *)
LEMMA SameCallbacks ==
  ASSUME CollectInv, NEW t \in Threads, todo[t] # <<>>, NEW steps \in Seq(Working), Emits(t, steps),
         callbacks' = callbacks, Final, made \subseteq made',
         \A n \in DOMAIN steps : steps[n][1] \notin {"add", "call"}
  PROVE  \A c \in Callbacks : CallbackInv(c)' /\ (Open(c)' => Open(c))
  <1> TAKE c \in Callbacks
  <1>1. Shape
    BY DEF CollectInv, LoopInv, PoolInv
  <1>2. (Added(c)' => Added(c)) /\ (AddedOnce(c) => AddedOnce(c)')
    BY DEF Added, AddedOnce, Source
  <1>3. CallbackInv(c) /\ AddedOnce(c)
    BY DEF CollectInv, CallbackInv
  <1>4. \A n \in DOMAIN steps : steps[n] \notin Link(c)
    BY OwnTokens
  <1>5. Fewer(Link(c))
    BY <1>1, <1>4, EmitFewer
  <1> QED BY <1>2, <1>3, <1>5, CallbackFrame

LEMMA OtherFutures ==
  ASSUME CollectInv, NEW t \in Threads, todo[t] # <<>>, NEW steps \in Seq(Working), Emits(t, steps), NEW f, Final,
         \A z \in Futures \ {f} : result'[z] = result[z] /\ remaining'[z] = remaining[z] /\ (z \in made' <=> z \in made),
         \A n \in DOMAIN steps : steps[n][1] \in FutureKinds /\ steps[n][1] \notin {"add", "call"} => steps[n][2] = f,
         \A c \in Callbacks : c[1] # f /\ Open(c)' => Open(c)
  PROVE  \A z \in Futures \ {f} : FutureKept(z)
  <1> TAKE z \in Futures \ {f}
  <1>1. Shape /\ FutureInv(z)
    BY DEF CollectInv, LoopInv, PoolInv
  <1>2. \A n \in DOMAIN steps : steps[n] \notin Own(z)
    BY OwnTokens
  <1>3. Fewer(Own(z))
    BY <1>1, <1>2, EmitFewer
  <1> QED BY <1>1, <1>3, FutureFrame

(* collectAll's future after a step that completes no source. *)
LEMMA AllStays ==
  ASSUME NEW f \in Futures, Kind[f] = "all", AllInv(f), Final, result'[f] = result[f], remaining'[f] = remaining[f],
         \A c \in Callbacks : c[1] = f /\ Open(c)' => Open(c),
         Present(Late(f))' => remaining[f] = 0,
         Present({<<"error_if_needed", f>>})' => Present({<<"error_if_needed", f>>}) \/ Failed(f),
         ~Present({<<"mark", f, "error">>})'
  PROVE  AllInv(f)'
  <1>1. Sources[f] \in Seq(Futures) /\ \A i \in 1 .. Len(Sources[f]) : Sources[f][i] \in Futures /\ <<f, i>> \in Callbacks
    BY AddsAreWork, ElementOfSeq
  <1>2. PICK D \in SUBSET (1 .. Len(Sources[f])) : Settled(f, D)
    BY DEF AllInv
  <1>3. Settled(f, D)'
    <2>1. ASSUME NEW i \in D PROVE result'[Sources[f][i]] = "value" /\ ~Open(<<f, i>>)'
      <3>1. i \in 1 .. Len(Sources[f]) /\ <<f, i>> \in Callbacks /\ <<f, i>>[1] = f
        BY <1>1
      <3>2. result[Sources[f][i]] = "value" /\ ~Open(<<f, i>>)
        BY <1>2 DEF Settled
      <3>3. ~Open(<<f, i>>)'
        BY <3>1, <3>2
      <3> QED BY <3>1, <3>2, <3>3, <1>1 DEF Final
    <2>2. remaining'[f] = Len(Sources[f]) - Cardinality(D)
      BY <1>2 DEF Settled
    <2> QED BY <2>1, <2>2 DEF Settled
  <1>4. Failed(f) => Failed(f)'
    BY <1>1 DEF Failed, Final
  <1> QED BY <1>3, <1>4 DEF AllInv

(* The step that completes a future comes next. *)
LEMMA MarkNext ==
  ASSUME CollectInv, NEW t \in Threads, todo[t] # <<>>, NEW steps \in Seq(Working), Emits(t, steps), NEW f \in Futures,
         Head(todo[t]) \in Marker(f), NEW m \in DOMAIN steps, NEW res \in {"value", "error"},
         steps[m] = <<"mark", f, res>>, Kind[f] = "all" => res = "value" /\ remaining[f] = 0,
         \A n \in DOMAIN steps : n # m => steps[n] \notin Own(f),
         UNCHANGED <<result, remaining>>, f \in made',
         \A c \in Callbacks : c[1] = f /\ Open(c)' => Open(c)
  PROVE  FutureKept(f)
  <1>1. Shape /\ FutureInv(f) /\ Single(Marker(f))
    BY DEF CollectInv, LoopInv, PoolInv, FutureInv
  <1>2. Present(Marker(f))
    BY <1>1, OnlyOne
  <1>3. result'[f] = "none" /\ Final
    BY <1>1, <1>2 DEF FutureInv, Final
  <1>4. Single(Marker(f))'
    <2>1. \A n, k \in DOMAIN steps : steps[n] \in Marker(f) /\ steps[k] \in Marker(f) => n = k
      BY Kinfolk
    <2> QED BY <2>1, <1>1, EmitTokens
  <1>5. ~Present({<<"make", f>>, <<"launch", f>>})'
    <2> DEFINE P == {<<"make", f>>, <<"launch", f>>}
    <2>1. P \subseteq Marker(f) /\ P \subseteq Own(f)
      BY Kinfolk
    <2>2. Single(P) /\ (Present(P) <=> Head(todo[t]) \in P)
      BY <2>1, <1>1, SubSingle, OnlyOne
    <2>3. <<"mark", f, res>> \notin P
      OBVIOUS
    <2>4. \A n \in DOMAIN steps : steps[n] \notin P
      BY <2>1, <2>3
    <2> HIDE DEF P
    <2>5. ~Present(P)'
      BY <2>2, <2>4, <1>1, EmitTokens
    <2> QED BY <2>5 DEF P
  <1>6. Present({<<"error_if_needed", f>>})' => Present({<<"error_if_needed", f>>})
    <2>1. <<"mark", f, res>> \notin {<<"error_if_needed", f>>}
      OBVIOUS
    <2>2. \A n \in DOMAIN steps : steps[n] \notin {<<"error_if_needed", f>>}
      BY <2>1, Kinfolk
    <2> QED BY <2>2, <1>1, EmitTokens
  <1>7. ASSUME Kind[f] = "then" PROVE ThenInv(f)'
    <2>1. \A c \in Callbacks : c[1] = f => ~Open(c)'
      BY <1>1, <1>2, <1>7 DEF FutureInv, ThenInv
    <2> QED BY <2>1 DEF ThenInv
  <1>8. ASSUME Kind[f] = "all" PROVE AllInv(f)'
    <2>1. AllInv(f)
      BY <1>1, <1>8 DEF FutureInv
    <2>2. ~Present({<<"mark", f, "error">>})'
      <3>1. <<"mark", f, res>> \notin {<<"mark", f, "error">>}
        BY <1>8
      <3>2. \A n \in DOMAIN steps : steps[n] \notin {<<"mark", f, "error">>}
        BY <3>1, Kinfolk
      <3> QED BY <3>2, <2>1, <1>1, EmitTokens DEF AllInv
    <2> QED BY <2>1, <2>2, <1>3, <1>6, <1>8, AllStays
  <1>9. FutureInv(f)'
    <2>1. Kind[f] # "all" => ~Present({<<"error_if_needed", f>>})'
      BY <1>1, <1>6 DEF FutureInv
    <2> QED BY <2>1, <1>3, <1>4, <1>5, <1>7, <1>8 DEF FutureInv
  <1> QED BY <1>2, <1>9 DEF FutureKept, Stirred

LEMMA LaunchCollects ==
  ASSUME CollectInv, NEW t \in Threads, Launch(t)
  PROVE  Collected
  <1>1. Shape
    BY DEF CollectInv, LoopInv, PoolInv
  <1>2. At(t, "launch") /\ Head(todo[t]) \in Steps /\ Head(todo[t])[1] = "launch" /\ Arg(t) = Head(todo[t])[2]
    BY <1>1, ArgsAt DEF Launch
  <1>3. PICK f \in Launched : Head(todo[t]) = <<"launch", f>> /\ todo[t] # <<>> /\ Arg(t) = f
    BY <1>2, StepArgs DEF At
  <1>4. f \in Futures /\ Kind[f] = "launch" /\ "value" \in Outcome
    BY DEF Launched, Outcome
  <1>5. PICK steps \in Seq(Working) : steps = <<<<"func", f>>, <<"mark", f, "value">>>>
    BY <1>4, MakeSteps, ShortLines
  <1>6. DOMAIN steps = {1, 2} /\ steps[1] = <<"func", f>> /\ steps[2] = <<"mark", f, "value">>
    BY <1>5
  <1>7. /\ made' = made \cup {f} /\ UNCHANGED <<result, callbacks, remaining, misuse>>
        /\ Emits(t, steps)
    BY <1>3, <1>5 DEF Launch, poolState, Run, Emits
  <1>8. Final
    BY <1>7 DEF Final
  <1>9. steps[1] \notin Own(f) /\ \A n \in DOMAIN steps : steps[n][1] \notin {"add", "call"} /\ steps[n][2] = f
    BY <1>6, OwnTokens DEF FutureKinds
  <1>10. \A c \in Callbacks : CallbackInv(c)' /\ (Open(c)' => Open(c))
    BY <1>3, <1>7, <1>8, <1>9, SameCallbacks
  <1>11. \A z \in Futures \ {f} : FutureKept(z)
    BY <1>3, <1>7, <1>8, <1>9, <1>10, OtherFutures
  <1>12. Head(todo[t]) \in Marker(f)
    BY <1>3 DEF Marker, Asked
  <1>13. 2 \in DOMAIN steps /\ \A n \in DOMAIN steps : n # 2 => steps[n] \notin Own(f)
    BY <1>6, <1>9
  <1>14. FutureKept(f)
    BY <1>3, <1>4, <1>6, <1>7, <1>10, <1>12, <1>13, MarkNext
  <1>15. FutureTyped' /\ ~misuse'
    BY <1>4, <1>7 DEF CollectInv, FutureTyped, Source
  <1> QED BY <1>10, <1>11, <1>14, <1>15 DEF Collected

(* The only step that comes next completes f. *)
LEMMA OneMarkNext ==
  ASSUME CollectInv, NEW t \in Threads, todo[t] # <<>>, NEW f \in Futures, Head(todo[t]) \in Marker(f),
         NEW res \in {"value", "error"}, Kind[f] = "all" => res = "value" /\ remaining[f] = 0,
         tasks' = tasks, Continue(t, <<<<"mark", f, res>>>>),
         UNCHANGED <<result, remaining, callbacks, misuse>>, made' = made \cup {f}
  PROVE  Collected
  <1>1. PICK steps \in Seq(Working) : steps = <<<<"mark", f, res>>>>
    BY MakeSteps, ShortLines DEF Outcome
  <1>2. DOMAIN steps = {1} /\ steps[1] = <<"mark", f, res>> /\ Emits(t, steps)
    BY <1>1 DEF Emits
  <1>3. Final /\ \A n \in DOMAIN steps : steps[n][1] \notin {"add", "call"} /\ steps[n][2] = f
    BY <1>2 DEF Final
  <1>4. \A c \in Callbacks : CallbackInv(c)' /\ (Open(c)' => Open(c))
    BY <1>2, <1>3, SameCallbacks
  <1>5. \A z \in Futures \ {f} : FutureKept(z)
    BY <1>2, <1>3, <1>4, OtherFutures
  <1>6. 1 \in DOMAIN steps /\ \A n \in DOMAIN steps : n # 1 => steps[n] \notin Own(f)
    BY <1>2
  <1>7. FutureKept(f)
    BY <1>2, <1>4, <1>6, MarkNext
  <1>8. FutureTyped' /\ ~misuse'
    BY DEF CollectInv, FutureTyped, Source
  <1> QED BY <1>4, <1>5, <1>7, <1>8 DEF Collected

LEMMA FulfilCollects ==
  ASSUME CollectInv, NEW t \in Threads, Fulfil(t)
  PROVE  Collected
  <1>1. Shape
    BY DEF CollectInv, LoopInv, PoolInv
  <1>2. At(t, "fulfil") /\ Head(todo[t]) \in Steps /\ Head(todo[t])[1] = "fulfil" /\ Arg(t) = Head(todo[t])[2]
    BY <1>1, ArgsAt DEF Fulfil
  <1>3. PICK f \in Futures : Head(todo[t]) = <<"fulfil", f>> /\ todo[t] # <<>> /\ Arg(t) = f /\ Kind[f] = "promise"
    BY <1>2, StepArgs, StepKinds DEF At
  <1>4. PICK res \in {"value", "error"} : Continue(t, <<<<"mark", f, res>>>>)
    BY <1>3 DEF Fulfil
  <1>5. f \in made
    BY <1>3 DEF CollectInv, FutureInv, Unmade
  <1>6. tasks' = tasks /\ UNCHANGED <<result, remaining, callbacks, misuse>> /\ made' = made \cup {f}
    BY <1>5 DEF Fulfil, poolState, futureState
  <1>7. Head(todo[t]) \in Marker(f)
    BY <1>3 DEF Marker, Asked
  <1> QED BY <1>3, <1>4, <1>6, <1>7, OneMarkNext

LEMMA CheckCollects ==
  ASSUME CollectInv, NEW t \in Threads, CheckCompleted(t)
  PROVE  Collected
  <1>1. Shape
    BY DEF CollectInv, LoopInv, PoolInv
  <1>2. At(t, "check") /\ Head(todo[t]) \in Steps /\ Head(todo[t])[1] = "check" /\ Arg(t) = Head(todo[t])[2]
    BY <1>1, ArgsAt DEF CheckCompleted
  <1>3. PICK f \in Futures : Head(todo[t]) = <<"check", f>> /\ todo[t] # <<>> /\ Arg(t) = f
    BY <1>2, StepArgs DEF At
  <1>4. FutureInv(f)
    BY DEF CollectInv
  <1>5. Head(todo[t]) \in Marker(f) /\ Head(todo[t]) \in Late(f)
    BY <1>3 DEF Marker, Late
  <1>6. Present(Marker(f)) /\ Present(Late(f))
    BY <1>1, <1>3, <1>4, <1>5, Kinfolk, OnlyOne DEF FutureInv
  <1>7. result[f] = "none" /\ f \in made /\ (Kind[f] = "all" => remaining[f] = 0)
    BY <1>4, <1>6 DEF FutureInv, Unmade, AllInv
  <1>8. Continue(t, <<<<"mark", f, "value">>>>)
    BY <1>3, <1>7 DEF CheckCompleted
  <1>9. tasks' = tasks /\ UNCHANGED <<result, remaining, callbacks, misuse>> /\ made' = made \cup {f}
    BY <1>7 DEF CheckCompleted, poolState, futureState
  <1>10. "value" \in {"value", "error"}
    OBVIOUS
  <1> QED BY <1>3, <1>5, <1>7, <1>8, <1>9, <1>10, OneMarkNext

(* The callback at the head of a thread is over after the step. *)
LEMMA CallbackEnds ==
  ASSUME CollectInv, NEW t \in Threads, todo[t] # <<>>, NEW steps \in Seq(Working), Emits(t, steps), callbacks' = callbacks,
         NEW c \in Callbacks, Head(todo[t]) = <<"call", c>>, \A n \in DOMAIN steps : steps[n][1] \notin {"add", "call"}
  PROVE  /\ Open(c) /\ ~Open(c)' /\ c[1] \in made /\ result[Source(c)] # "none"
  <1>1. Shape /\ CallbackInv(c)
    BY DEF CollectInv, LoopInv, PoolInv
  <1>2. Head(todo[t]) \in Link(c) /\ Head(todo[t]) \in {<<"call", c>>} /\ Single(Link(c))
    BY <1>1 DEF Link, CallbackInv
  <1>3. Present(Link(c)) /\ Present({<<"call", c>>})
    BY <1>1, <1>2, Kinfolk, OnlyOne
  <1>4. \A n \in DOMAIN steps : steps[n] \notin Link(c)
    BY OwnTokens
  <1>5. ~Present(Link(c))'
    BY <1>1, <1>2, <1>4, EmitTokens
  <1>6. ~Added(c)'
    BY <1>1, <1>3 DEF CallbackInv, Added, Source
  <1> QED BY <1>1, <1>3, <1>5, <1>6 DEF Open, CallbackInv

LEMMA CallThenCollects ==
  ASSUME CollectInv, NEW t \in Threads, CallThen(t)
  PROVE  Collected
  <1>1. Shape
    BY DEF CollectInv, LoopInv, PoolInv
  <1>2. At(t, "call") /\ Head(todo[t]) \in Steps /\ Head(todo[t])[1] = "call" /\ Arg(t) = Head(todo[t])[2]
    BY <1>1, ArgsAt DEF CallThen
  <1>3. PICK d \in Callbacks : Head(todo[t]) = <<"call", d>> /\ todo[t] # <<>> /\ Arg(t) = d
    BY <1>2, StepArgs DEF At
  <1>4. PICK f \in Futures : f = d[1]
    BY CallbackArgs
  <1>5. Kind[f] = "then" /\ Len(Sources[f]) = 1
    BY <1>3, <1>4, FutureAssumption DEF CallThen
  <1>6. PICK res \in {"value", "error"} : Continue(t, <<<<"mark", f, res>>>>)
    BY <1>3, <1>4 DEF CallThen
  <1>7. tasks' = tasks /\ UNCHANGED <<made, result, callbacks, remaining, misuse>>
    BY DEF CallThen, poolState, futureState
  <1>8. PICK steps \in Seq(Working) : steps = <<<<"mark", f, res>>>>
    BY MakeSteps, ShortLines DEF Outcome
  <1>9. DOMAIN steps = {1} /\ steps[1] = <<"mark", f, res>> /\ Emits(t, steps)
    BY <1>6, <1>7, <1>8 DEF Emits
  <1>10. Final /\ \A n \in DOMAIN steps : steps[n][1] \notin {"add", "call"} /\ steps[n][2] = f
    BY <1>7, <1>9 DEF Final
  <1>11. \A c \in Callbacks : CallbackInv(c)' /\ (Open(c)' => Open(c))
    BY <1>3, <1>7, <1>9, <1>10, SameCallbacks
  <1>12. \A z \in Futures \ {f} : FutureKept(z)
    BY <1>3, <1>7, <1>9, <1>10, <1>11, OtherFutures
  <1>13. Open(d) /\ ~Open(d)' /\ f \in made
    BY <1>3, <1>4, <1>7, <1>9, <1>10, CallbackEnds
  <1>14. FutureInv(f) /\ ~Present(Marker(f)) /\ result[f] = "none" /\ ~Present({<<"error_if_needed", f>>})
    <2>1. FutureInv(f)
      BY DEF CollectInv
    <2> QED BY <2>1, <1>4, <1>5, <1>13 DEF FutureInv, ThenInv
  <1>15. Single(Marker(f))'
    <2>1. \A n, k \in DOMAIN steps : n = k
      BY <1>9
    <2> QED BY <2>1, <1>1, <1>3, <1>9, <1>14, EmitTokens
  <1>16. ~Present({<<"make", f>>, <<"launch", f>>})' /\ ~Present({<<"error_if_needed", f>>})'
    <2>1. steps[1] \notin {<<"make", f>>, <<"launch", f>>} /\ steps[1] \notin {<<"error_if_needed", f>>}
      BY <1>9
    <2>2. ~Present({<<"make", f>>, <<"launch", f>>})
      BY <1>14, Kinfolk, MorePresent
    <2> QED BY <2>1, <2>2, <1>1, <1>3, <1>9, <1>14, EmitTokens
  <1>17. ThenInv(f)'
    <2>1. ASSUME NEW c \in Callbacks, c[1] = f PROVE ~Open(c)'
      <3>1. c = d
        <4>1. c[2] \in 1 .. 1 /\ c = <<c[1], c[2]>> /\ d[2] \in 1 .. 1 /\ d = <<d[1], d[2]>>
          BY <2>1, <1>4, <1>5, CallbackArgs
        <4> QED BY <4>1, <2>1, <1>4
      <3> QED BY <3>1, <1>13
    <2> QED BY <2>1 DEF ThenInv
  <1>18. FutureKept(f)
    <2>1. result'[f] = "none" /\ f \in made' /\ Stirred(f)
      BY <1>5, <1>7, <1>13, <1>14 DEF Stirred
    <2>2. FutureInv(f)'
      BY <2>1, <1>5, <1>15, <1>16, <1>17 DEF FutureInv
    <2> QED BY <2>1, <2>2 DEF FutureKept
  <1>19. FutureTyped' /\ ~misuse'
    BY <1>7 DEF CollectInv, FutureTyped, Source
  <1> QED BY <1>11, <1>12, <1>18, <1>19 DEF Collected

-----------------------------------------------------------------------------
(* collectAll. *)
LEMMA FullCount ==
  ASSUME NEW L \in Nat, NEW D \in SUBSET (1 .. L)
  PROVE  IsFiniteSet(D) /\ Cardinality(D) \in Nat /\ (L - Cardinality(D) = 0 => D = 1 .. L)
  <1>1. IsFiniteSet(1 .. L) /\ Cardinality(1 .. L) = L
    BY FS_Interval
  <1>2. IsFiniteSet(D) /\ (Cardinality(1 .. L) = Cardinality(D) => 1 .. L = D)
    BY <1>1, FS_Subset
  <1>3. Cardinality(D) \in Nat
    BY <1>2, FS_CardinalityType
  <1> QED BY <1>1, <1>2, <1>3

LEMMA CountedAll ==
  ASSUME NEW f \in Futures, Kind[f] = "all", AllInv(f), remaining[f] = 0
  PROVE  \A i \in 1 .. Len(Sources[f]) : result[Sources[f][i]] = "value" /\ ~Open(<<f, i>>)
  <1>1. Len(Sources[f]) \in Nat
    BY AddsAreWork
  <1>2. PICK D \in SUBSET (1 .. Len(Sources[f])) : Settled(f, D)
    BY DEF AllInv
  <1>3. Len(Sources[f]) - Cardinality(D) = 0
    BY <1>2 DEF Settled
  <1>4. D = 1 .. Len(Sources[f])
    BY <1>1, <1>3, FullCount
  <1> QED BY <1>2, <1>4 DEF Settled

(* A made future of collectAll has no step to come but late ones. *)
LEMMA OnlyLate ==
  ASSUME Shape, Placed, NEW f \in Futures, Kind[f] = "all", FutureInv(f), f \in made, ~Present(Late(f))
  PROVE  ~Present(Marker(f))
  <1> SUFFICES ASSUME Present(Marker(f)) PROVE FALSE
    OBVIOUS
  <1>1. PICK s \in Marker(f) : s \in Steps /\ Present({s})
    BY TokenIsStep
  <1>2. s \notin Late(f)
    BY <1>1, MorePresent
  <1>3. ~Present({<<"make", f>>, <<"launch", f>>})
    BY DEF FutureInv
  <1>4. s = <<"fulfil", f>>
    <2>1. s \notin {<<"make", f>>, <<"launch", f>>}
      BY <1>1, <1>3, MorePresent
    <2> QED BY <2>1, <1>2 DEF Marker, Asked
  <1> QED BY <1>1, <1>4, StepKinds

(* The callback of a source that failed. *)
LEMMA CallAllFails ==
  ASSUME CollectInv, NEW t \in Threads, todo[t] # <<>>, NEW d \in Callbacks, Head(todo[t]) = <<"call", d>>,
         Kind[d[1]] = "all", result[Source(d)] = "error", tasks' = tasks, Continue(t, <<<<"error_if_needed", d[1]>>>>),
         UNCHANGED <<made, result, callbacks, remaining, misuse>>
  PROVE  Collected
  <1>1. Shape
    BY DEF CollectInv, LoopInv, PoolInv
  <1>2. PICK f \in Futures : f = d[1]
    BY CallbackArgs
  <1>3. PICK steps \in Seq(Working) : steps = <<<<"error_if_needed", f>>>>
    BY MakeSteps, ShortLines
  <1>4. DOMAIN steps = {1} /\ steps[1] = <<"error_if_needed", f>> /\ Emits(t, steps)
    BY <1>2, <1>3 DEF Emits
  <1>5. Final /\ \A n \in DOMAIN steps : steps[n][1] \notin {"add", "call"} /\ steps[n][2] = f
    BY <1>4 DEF Final
  <1>6. \A c \in Callbacks : CallbackInv(c)' /\ (Open(c)' => Open(c))
    BY <1>4, <1>5, SameCallbacks
  <1>7. \A z \in Futures \ {f} : FutureKept(z)
    BY <1>4, <1>5, <1>6, OtherFutures
  <1>8. f \in made
    BY <1>2, <1>4, <1>5, CallbackEnds
  <1>9. FutureInv(f) /\ AllInv(f)
    BY <1>2 DEF CollectInv, FutureInv
  <1>10. Failed(f)
    <2>1. d[2] \in 1 .. Len(Sources[f])
      BY <1>2, CallbackArgs
    <2> QED BY <2>1, <1>2 DEF Failed, Source
  <1>11. Fewer(Marker(f))
    <2>1. <<"error_if_needed", f>> \notin Marker(f)
      BY DEF Marker, Late, Asked
    <2> QED BY <2>1, <1>1, <1>4, EmitFewer
  <1>12. /\ (Present(Marker(f))' => Present(Marker(f))) /\ (Single(Marker(f)) => Single(Marker(f))')
         /\ (Present(Late(f))' => Present(Late(f)))
         /\ (Present({<<"make", f>>, <<"launch", f>>})' => Present({<<"make", f>>, <<"launch", f>>}))
         /\ (Present({<<"mark", f, "error">>})' => Present({<<"mark", f, "error">>}))
    BY <1>11, Kinfolk DEF Fewer
  <1>13. AllInv(f)'
    BY <1>2, <1>5, <1>6, <1>9, <1>10, <1>12, AllStays DEF AllInv
  <1>14. FutureKept(f)
    <2>1. FutureInv(f)'
      BY <1>2, <1>8, <1>9, <1>12, <1>13 DEF FutureInv
    <2> QED BY <2>1, <1>12 DEF FutureKept, Stirred
  <1>15. FutureTyped' /\ ~misuse'
    BY DEF CollectInv, FutureTyped, Source
  <1> QED BY <1>6, <1>7, <1>14, <1>15 DEF Collected

(* The callback of a source with a value. *)
LEMMA CallAllCounts ==
  ASSUME CollectInv, NEW t \in Threads, todo[t] # <<>>, NEW d \in Callbacks, Head(todo[t]) = <<"call", d>>,
         Kind[d[1]] = "all", result[Source(d)] = "value", tasks' = tasks,
         Continue(t, IF remaining[d[1]] = 1 THEN <<<<"check", d[1]>>>> ELSE <<>>),
         remaining' = [remaining EXCEPT ![d[1]] = @ - 1], UNCHANGED <<made, result, callbacks, misuse>>
  PROVE  Collected
  <1>1. Shape /\ Placed
    BY DEF CollectInv, LoopInv, PoolInv
  <1>2. PICK f \in Futures : f = d[1]
    BY CallbackArgs
  <1>3. PICK steps \in Seq(Working) : steps = IF remaining[f] = 1 THEN <<<<"check", f>>>> ELSE <<>>
    BY MakeSteps, ShortLines
  <1>4. /\ \A n \in DOMAIN steps : n = 1 /\ remaining[f] = 1 /\ steps[n] = <<"check", f>>
        /\ Emits(t, steps)
    <2>1. Emits(t, steps)
      BY <1>2, <1>3 DEF Emits
    <2>2. CASE remaining[f] = 1
      BY <2>1, <2>2, <1>3
    <2>3. CASE remaining[f] # 1
      <3>1. DOMAIN steps = {}
        BY <2>3, <1>3
      <3> QED BY <3>1, <2>1
    <2> QED BY <2>2, <2>3
  <1>5. Final /\ \A n \in DOMAIN steps : steps[n][1] \notin {"add", "call"} /\ steps[n][2] = f
    BY <1>4 DEF Final
  <1>6. \A c \in Callbacks : CallbackInv(c)' /\ (Open(c)' => Open(c))
    BY <1>4, <1>5, SameCallbacks
  <1>7. remaining \in [Futures -> Int] /\ remaining'[f] = remaining[f] - 1 /\ remaining' \in [Futures -> Int]
        /\ \A z \in Futures \ {f} : remaining'[z] = remaining[z]
    BY <1>2 DEF CollectInv, FutureTyped
  <1>8. \A z \in Futures \ {f} : FutureKept(z)
    <2>1. \A z \in Futures \ {f} : result'[z] = result[z] /\ remaining'[z] = remaining[z] /\ (z \in made' <=> z \in made)
      BY <1>7
    <2>2. \A n \in DOMAIN steps : steps[n][1] \in FutureKinds /\ steps[n][1] \notin {"add", "call"} => steps[n][2] = f
      BY <1>5
    <2>3. \A c \in Callbacks : c[1] # f /\ Open(c)' => Open(c)
      BY <1>6
    <2>4. Emits(t, steps) /\ Final
      BY <1>4, <1>5
    <2> QED BY <2>1, <2>2, <2>3, <2>4, OtherFutures
  <1>9. Open(d) /\ ~Open(d)' /\ f \in made
    BY <1>2, <1>4, <1>5, CallbackEnds
  <1>10. FutureInv(f) /\ AllInv(f)
    BY <1>2 DEF CollectInv, FutureInv
  <1> DEFINE L == Len(Sources[f])
             i == d[2]
  <1>11. /\ Sources[f] \in Seq(Futures) /\ L \in Nat /\ i \in 1 .. L /\ d = <<f, i>> /\ Sources[f][i] = Source(d)
         /\ \A k \in 1 .. L : <<f, k>> \in Callbacks
    BY <1>2, AddsAreWork, CallbackArgs DEF Source
  <1>12. PICK D \in SUBSET (1 .. L) : Settled(f, D)
    BY <1>10 DEF AllInv
  <1>13. i \notin D
    BY <1>9, <1>11, <1>12 DEF Settled
  <1> DEFINE E == D \cup {i}
  <1>14. E \in SUBSET (1 .. L) /\ Cardinality(E) = Cardinality(D) + 1 /\ Cardinality(D) \in Nat
    <2>1. IsFiniteSet(D) /\ Cardinality(D) \in Nat
      BY <1>11, FullCount
    <2> QED BY <2>1, <1>11, <1>13, FS_AddElement
  <1> HIDE DEF L, i
  <1>15. Settled(f, E)'
    <2>1. remaining'[f] = L - Cardinality(E)
      BY <1>7, <1>11, <1>12, <1>14 DEF Settled, L
    <2>2. ASSUME NEW k \in E PROVE result'[Sources[f][k]] = "value" /\ ~Open(<<f, k>>)'
      <3>1. CASE k = i
        BY <3>1, <1>9, <1>11
      <3>2. CASE k \in D
        <4>1. result[Sources[f][k]] = "value" /\ ~Open(<<f, k>>) /\ <<f, k>> \in Callbacks
          BY <3>2, <1>11, <1>12 DEF Settled
        <4> QED BY <4>1, <1>6
      <3> QED BY <2>2, <3>1, <3>2
    <2> QED BY <2>1, <2>2 DEF Settled, L
  <1>16. remaining[f] # 0
    <2>1. SUFFICES ASSUME remaining[f] = 0 PROVE FALSE
      OBVIOUS
    <2>2. ~Open(<<f, i>>)
      BY <2>1, <1>2, <1>10, <1>11, CountedAll DEF L
    <2> QED BY <2>2, <1>9, <1>11
  <1>17. ~Present(Late(f)) /\ result[f] # "value" /\ ~Present(Marker(f))
    <2>1. ~Present(Late(f)) /\ result[f] # "value"
      BY <1>10, <1>16 DEF AllInv
    <2> QED BY <2>1, <1>1, <1>2, <1>9, <1>10, OnlyLate
  <1>18. remaining[f] = 1 => result[f] = "none"
    <2>1. SUFFICES ASSUME remaining[f] = 1 PROVE ~Failed(f)
      <3>1. result[f] \in {"none", "value", "error"}
        BY DEF CollectInv, FutureTyped
      <3> QED BY <2>1, <3>1, <1>10, <1>17 DEF AllInv
    <2>2. L - Cardinality(E) = 0
      BY <2>1, <1>7, <1>15 DEF Settled, L
    <2>3. E = 1 .. L
      BY <2>2, <1>11, <1>14, FullCount
    <2>4. \A k \in 1 .. L : result[Sources[f][k]] = "value"
      BY <2>3, <1>15 DEF Settled
    <2> QED BY <2>4 DEF Failed, L
  <1>19. Fewer({<<"error_if_needed", f>>, <<"mark", f, "error">>, <<"make", f>>, <<"launch", f>>})
    <2>1. <<"check", f>> \notin {<<"error_if_needed", f>>, <<"mark", f, "error">>, <<"make", f>>, <<"launch", f>>}
      OBVIOUS
    <2> QED BY <2>1, <1>1, <1>4, EmitFewer
  <1>20. /\ (Present({<<"error_if_needed", f>>})' => Present({<<"error_if_needed", f>>}))
         /\ (Present({<<"mark", f, "error">>})' => Present({<<"mark", f, "error">>}))
         /\ (Present({<<"make", f>>, <<"launch", f>>})' => Present({<<"make", f>>, <<"launch", f>>}))
    BY <1>19 DEF Fewer
  <1>21. Single(Marker(f))'
    <2>1. \A n, k \in DOMAIN steps : n = k
      BY <1>4
    <2> QED BY <2>1, <1>1, <1>4, <1>17, EmitTokens
  <1>22. /\ Present(Late(f))' => remaining[f] = 1
         /\ Present(Marker(f))' => remaining[f] = 1
    <2>1. CASE remaining[f] = 1
      BY <2>1
    <2>2. CASE remaining[f] # 1
      <3>1. \A n \in DOMAIN steps : FALSE
        BY <2>2, <1>4
      <3>2. ~Present(Late(f))' /\ ~Present(Marker(f))'
        BY <3>1, <1>1, <1>4, <1>17, EmitTokens
      <3> QED BY <3>2
    <2> QED BY <2>1, <2>2
  <1>23. AllInv(f)'
    <2>1. Failed(f) => Failed(f)'
      BY DEF Failed
    <2>2. Present(Late(f))' => remaining'[f] = 0
      BY <1>7, <1>22
    <2>3. ~Present({<<"mark", f, "error">>})'
      BY <1>10, <1>20 DEF AllInv
    <2>4. Present({<<"error_if_needed", f>>})' \/ result'[f] = "error" => Failed(f)'
      BY <2>1, <1>10, <1>20 DEF AllInv
    <2>5. \E S \in SUBSET (1 .. Len(Sources[f])) : Settled(f, S)'
      BY <1>14, <1>15 DEF L
    <2> QED BY <2>2, <2>3, <2>4, <2>5, <1>17 DEF AllInv
  <1>24. FutureKept(f)
    <2>1. result'[f] # "none" => ~Present(Marker(f))'
      BY <1>18, <1>22
    <2>2. f \in made' /\ ~Present({<<"make", f>>, <<"launch", f>>})'
      BY <1>9, <1>10, <1>20 DEF FutureInv
    <2>3. FutureInv(f)'
      BY <2>1, <2>2, <1>2, <1>21, <1>23 DEF FutureInv
    <2>4. Stirred(f)
      BY <1>2, <1>9 DEF Stirred
    <2> QED BY <2>3, <2>4 DEF FutureKept
  <1>25. FutureTyped' /\ ~misuse'
    BY <1>7 DEF CollectInv, FutureTyped, Source
  <1> QED BY <1>6, <1>8, <1>24, <1>25 DEF Collected

LEMMA CallAllCollects ==
  ASSUME CollectInv, NEW t \in Threads, CallAll(t)
  PROVE  Collected
  <1>1. Shape
    BY DEF CollectInv, LoopInv, PoolInv
  <1>2. At(t, "call") /\ Head(todo[t]) \in Steps /\ Head(todo[t])[1] = "call" /\ Arg(t) = Head(todo[t])[2]
    BY <1>1, ArgsAt DEF CallAll
  <1>3. PICK d \in Callbacks : Head(todo[t]) = <<"call", d>> /\ todo[t] # <<>> /\ Arg(t) = d
    BY <1>2, StepArgs DEF At
  <1>4. result[Source(d)] \in {"value", "error"}
    <2>1. CallbackInv(d) /\ Source(d) \in Futures
      BY CallbackArgs DEF CollectInv
    <2>2. Head(todo[t]) \in Link(d) /\ Head(todo[t]) \in {<<"call", d>>}
      BY <1>3 DEF Link
    <2>3. Present({<<"call", d>>})
      BY <2>1, <2>2, <1>1, <1>3, Kinfolk, OnlyOne DEF CallbackInv
    <2> QED BY <2>1, <2>3 DEF CallbackInv, CollectInv, FutureTyped
  <1>5. Kind[d[1]] = "all" /\ tasks' = tasks /\ UNCHANGED <<made, result, callbacks, misuse>>
    BY <1>3 DEF CallAll, poolState
  <1>6. CASE result[Source(d)] = "error"
    <2>1. Continue(t, <<<<"error_if_needed", d[1]>>>>) /\ UNCHANGED remaining
      BY <1>3, <1>6 DEF CallAll, Counts
    <2> QED BY <2>1, <1>3, <1>5, <1>6, CallAllFails
  <1>7. CASE result[Source(d)] = "value"
    <2>1. /\ Continue(t, IF remaining[d[1]] = 1 THEN <<<<"check", d[1]>>>> ELSE <<>>)
          /\ remaining' = [remaining EXCEPT ![d[1]] = @ - 1]
      BY <1>3, <1>7 DEF CallAll, Counts
    <2> QED BY <2>1, <1>3, <1>5, <1>7, CallAllCounts
  <1> QED BY <1>4, <1>6, <1>7

-----------------------------------------------------------------------------
(* A future is completed: its callbacks are called next. *)
LEMMA TakeCollects ==
  ASSUME CollectInv, NEW t \in Threads, todo[t] # <<>>, NEW f \in Futures, result[f] = "none", NEW res \in {"value", "error"},
         result' = [result EXCEPT ![f] = res], TakeCallbacks(t, f), tasks' = tasks, UNCHANGED <<made, remaining, misuse>>
  PROVE  /\ FutureTyped' /\ ~misuse' /\ Final /\ result'[f] = res
         /\ \A c \in Callbacks : CallbackInv(c)' /\ (Open(c)' => Open(c))
         /\ \A z \in Futures \ {f} : FutureKept(z)
         /\ Fewer(Own(f)) /\ \A P \in SUBSET Own(f) : Single(P) /\ Head(todo[t]) \in P => ~Present(P)'
  <1>1. Shape /\ FutureTyped /\ callbacks \in [Futures -> Seq(Callbacks)]
    BY DEF CollectInv, LoopInv, PoolInv, Shape, Typed
  <1>2. PICK steps \in Seq(Working) : steps = <<<<"notify", f>>>> \o Calls(f)
    BY <1>1, CallsAreWork
  <1>3. /\ Len(steps) = 1 + Len(callbacks[f]) /\ Len(callbacks[f]) \in Nat
        /\ \A n \in 1 .. 1 + Len(callbacks[f]) :
              steps[n] = IF n = 1 THEN <<"notify", f>> ELSE <<"call", callbacks[f][n - 1]>>
    BY <1>1, <1>2, CallsAreWork, LenProperties
  <1>4. DOMAIN steps = 1 .. 1 + Len(callbacks[f]) /\ DOMAIN callbacks[f] = 1 .. Len(callbacks[f])
    BY <1>1, <1>3, LenProperties
  <1>5. ASSUME NEW n \in DOMAIN steps
        PROVE  steps[n] = <<"notify", f>> \/ (n - 1 \in DOMAIN callbacks[f] /\ steps[n] = <<"call", callbacks[f][n - 1]>>)
    <2>1. n = 1 \/ n - 1 \in 1 .. Len(callbacks[f])
      BY <1>3, <1>4
    <2> QED BY <2>1, <1>3, <1>4
  <1>6. Emits(t, steps)
    BY <1>2 DEF TakeCallbacks, Emits
  <1>7. \A n \in DOMAIN steps : steps[n][1] \in {"notify", "call"}
    BY <1>5
  <1>8. /\ result \in [Futures -> {"none", "value", "error"}] /\ result'[f] = res
        /\ \A z \in Futures \ {f} : result'[z] = result[z]
        /\ result' \in [Futures -> {"none", "value", "error"}]
    BY <1>1 DEF FutureTyped
  <1>9. Final
    BY <1>8 DEF Final
  <1>10. callbacks'[f] = <<>> /\ \A z \in Futures \ {f} : callbacks'[z] = callbacks[z]
    BY <1>1 DEF TakeCallbacks
  <1>11. ASSUME NEW c \in Callbacks, NEW n \in DOMAIN steps, steps[n] \in Link(c)
         PROVE  n - 1 \in DOMAIN callbacks[f] /\ callbacks[f][n - 1] = c /\ Source(c) = f /\ Added(c)
    <2>1. steps[n] # <<"notify", f>>
      BY <1>11 DEF Link
    <2>2. n - 1 \in DOMAIN callbacks[f] /\ steps[n] = <<"call", callbacks[f][n - 1]>>
      BY <2>1, <1>5
    <2>3. callbacks[f][n - 1] = c
      BY <2>2, <1>11 DEF Link
    <2>4. Source(c) = f
      BY <2>2, <2>3, <1>1 DEF FutureTyped
    <2> QED BY <2>2, <2>3, <2>4 DEF Added
  <1>12. ASSUME NEW c \in Callbacks PROVE CallbackInv(c)' /\ (Open(c)' => Open(c))
    <2>1. CallbackInv(c) /\ AddedOnce(c) /\ Source(c) \in Futures
      BY CallbackArgs DEF CollectInv, CallbackInv
    <2>2. Source(c) = f => ~Added(c)' /\ AddedOnce(c)'
      <3>1. ASSUME Source(c) = f PROVE DOMAIN callbacks'[Source(c)] = {}
        BY <3>1, <1>10
      <3> QED BY <3>1 DEF Added, AddedOnce, Source
    <2>3. Source(c) # f => (Added(c)' => Added(c)) /\ (AddedOnce(c) => AddedOnce(c)')
      <3>1. Source(c) # f => callbacks'[Source(c)] = callbacks[Source(c)]
        BY <2>1, <1>10
      <3> QED BY <3>1 DEF Added, AddedOnce, Source
    <2>4. CASE Added(c) /\ Source(c) = f
      <3>1. ~Present(Link(c)) /\ Open(c) /\ c[1] \in made'
        BY <2>1, <2>4 DEF CallbackInv, Open
      <3>2. \A n, k \in DOMAIN steps : steps[n] \in Link(c) /\ steps[k] \in Link(c) => n = k
        <4> TAKE n, k \in DOMAIN steps
        <4> HAVE steps[n] \in Link(c) /\ steps[k] \in Link(c)
        <4>1. n - 1 = k - 1
          BY <1>11, <2>1, <2>4 DEF AddedOnce
        <4> QED BY <4>1, <1>4
      <3>3. Single(Link(c))'
        BY <3>1, <3>2, <1>1, <1>6, EmitTokens
      <3>4. ~Added(c)' /\ AddedOnce(c)'
        BY <2>2, <2>4
      <3>5. (result[Source(c)] # "none")'
        BY <2>4, <1>8 DEF Source
      <3> QED BY <3>1, <3>3, <3>4, <3>5 DEF CallbackInv
    <2>5. CASE ~(Added(c) /\ Source(c) = f)
      <3>1. \A n \in DOMAIN steps : steps[n] \notin Link(c)
        BY <2>5, <1>11
      <3>2. Fewer(Link(c))
        BY <3>1, <1>1, <1>6, EmitFewer
      <3>3. (Added(c)' => Added(c)) /\ AddedOnce(c)'
        BY <2>1, <2>2, <2>3
      <3> QED BY <3>2, <3>3, <2>1, <1>9, CallbackFrame
    <2> QED BY <2>4, <2>5
  <1>13. \A n \in DOMAIN steps : \A z : steps[n] \notin Own(z)
    <2>1. "notify" \notin FutureKinds
      BY DEF FutureKinds
    <2> QED BY <2>1, <1>7, OwnTokens
  <1>14. \A z \in Futures \ {f} : FutureKept(z)
    <2>1. \A n \in DOMAIN steps : steps[n][1] \in FutureKinds /\ steps[n][1] \notin {"add", "call"} => steps[n][2] = f
      BY <1>7 DEF FutureKinds
    <2>2. \A z \in Futures \ {f} : result'[z] = result[z] /\ remaining'[z] = remaining[z] /\ (z \in made' <=> z \in made)
      BY <1>8
    <2>3. \A c \in Callbacks : c[1] # f /\ Open(c)' => Open(c)
      BY <1>12
    <2> QED BY <2>1, <2>2, <2>3, <1>6, <1>9, OtherFutures
  <1>15. Fewer(Own(f)) /\ \A P \in SUBSET Own(f) : Single(P) /\ Head(todo[t]) \in P => ~Present(P)'
    <2>1. Fewer(Own(f))
      BY <1>1, <1>6, <1>13, EmitFewer
    <2>2. ASSUME NEW P \in SUBSET Own(f), Single(P), Head(todo[t]) \in P PROVE ~Present(P)'
      <3>1. \A n \in DOMAIN steps : steps[n] \notin P
        BY <1>13
      <3> QED BY <3>1, <2>2, <1>1, <1>6, EmitTokens
    <2> QED BY <2>1, <2>2
  <1>16. FutureTyped'
    <2>1. \A s \in Futures : \A n \in DOMAIN callbacks'[s] : Source(callbacks'[s][n]) = s
      <3> TAKE s \in Futures
      <3>1. CASE s = f
        <4>1. DOMAIN callbacks'[s] = {}
          BY <3>1, <1>10
        <4> QED BY <4>1
      <3>2. CASE s # f
        BY <3>2, <1>1, <1>10 DEF FutureTyped
      <3> QED BY <3>1, <3>2
    <2> QED BY <2>1, <1>1, <1>8 DEF FutureTyped, Source
  <1>17. ~misuse'
    BY DEF CollectInv
  <1> QED BY <1>8, <1>9, <1>12, <1>14, <1>15, <1>16, <1>17

LEMMA MarkCollects ==
  ASSUME CollectInv, NEW t \in Threads, Mark(t)
  PROVE  Collected
  <1>1. Shape
    BY DEF CollectInv, LoopInv, PoolInv
  <1>2. At(t, "mark") /\ Head(todo[t]) \in Steps /\ Head(todo[t])[1] = "mark" /\ Arg(t) = Head(todo[t])[2]
    BY <1>1, ArgsAt DEF Mark
  <1>3. PICK f \in Futures, res \in {"value", "error"} :
           /\ Head(todo[t]) = <<"mark", f, res>> /\ todo[t] # <<>> /\ Arg(t) = f /\ Head(todo[t])[3] = res
    BY <1>2, StepArgs DEF At, Outcome
  <1>4. FutureInv(f) /\ Single(Marker(f))
    BY DEF CollectInv, FutureInv
  <1>5. Head(todo[t]) \in Marker(f) /\ Head(todo[t]) \in Late(f)
    BY <1>3 DEF Marker, Late
  <1>6. Present(Marker(f)) /\ Present(Late(f))
    BY <1>1, <1>3, <1>4, <1>5, Kinfolk, OnlyOne
  <1>7. result[f] = "none" /\ f \in made /\ (Kind[f] = "all" => remaining[f] = 0 /\ res = "value")
    <2>1. result[f] = "none" /\ f \in made /\ (Kind[f] = "all" => remaining[f] = 0)
      BY <1>4, <1>6 DEF FutureInv, Unmade, AllInv
    <2>2. ASSUME Kind[f] = "all" PROVE res = "value"
      <3>1. {<<"mark", f, "error">>} \subseteq Marker(f) /\ ~Present({<<"mark", f, "error">>})
        BY <2>2, <1>4, Kinfolk DEF FutureInv, AllInv
      <3>2. Head(todo[t]) \notin {<<"mark", f, "error">>}
        BY <3>1, <1>1, <1>3, <1>4, <1>5, OnlyOne
      <3> QED BY <3>2, <1>3
    <2> QED BY <2>1, <2>2
  <1>8. /\ result' = [result EXCEPT ![f] = res] /\ TakeCallbacks(t, f)
        /\ tasks' = tasks /\ UNCHANGED <<made, remaining, misuse>>
    BY <1>3, <1>7 DEF Mark, poolState
  <1>9. /\ FutureTyped' /\ ~misuse' /\ Final /\ result'[f] = res
        /\ \A c \in Callbacks : CallbackInv(c)' /\ (Open(c)' => Open(c))
        /\ \A z \in Futures \ {f} : FutureKept(z)
        /\ Fewer(Own(f)) /\ \A P \in SUBSET Own(f) : Single(P) /\ Head(todo[t]) \in P => ~Present(P)'
    BY <1>3, <1>7, <1>8, TakeCollects
  <1>10. /\ Single(Marker(f))' /\ ~Present(Marker(f))' /\ ~Present(Late(f))'
         /\ ~Present({<<"make", f>>, <<"launch", f>>})'
         /\ (Present({<<"error_if_needed", f>>})' => Present({<<"error_if_needed", f>>}))
         /\ (Present({<<"mark", f, "error">>})' => Present({<<"mark", f, "error">>}))
    <2>1. Single(Late(f))
      BY <1>4, Kinfolk, SubSingle
    <2>2. ~Present({<<"make", f>>, <<"launch", f>>})
      BY <1>4, <1>7 DEF FutureInv
    <2> QED BY <2>1, <2>2, <1>4, <1>5, <1>9, Kinfolk DEF Fewer
  <1>11. ASSUME Kind[f] = "then" PROVE ThenInv(f)'
    <2>1. \A c \in Callbacks : c[1] = f => ~Open(c)'
      BY <1>4, <1>6, <1>9, <1>11 DEF FutureInv, ThenInv
    <2> QED BY <2>1 DEF ThenInv
  <1>12. ASSUME Kind[f] = "all" PROVE AllInv(f)'
    <2>1. AllInv(f)
      BY <1>4, <1>12 DEF FutureInv
    <2>2. Sources[f] \in Seq(Futures) /\ \A i \in 1 .. Len(Sources[f]) : Sources[f][i] \in Futures /\ <<f, i>> \in Callbacks
      BY <1>12, AddsAreWork, ElementOfSeq
    <2>3. PICK D \in SUBSET (1 .. Len(Sources[f])) : Settled(f, D)
      BY <2>1 DEF AllInv
    <2>4. Settled(f, D)'
      <3>1. ASSUME NEW i \in D PROVE result'[Sources[f][i]] = "value" /\ ~Open(<<f, i>>)'
        <4>1. result[Sources[f][i]] = "value" /\ ~Open(<<f, i>>) /\ <<f, i>> \in Callbacks /\ Sources[f][i] \in Futures
          BY <2>2, <2>3 DEF Settled
        <4> QED BY <4>1, <1>9 DEF Final
      <3>2. remaining'[f] = Len(Sources[f]) - Cardinality(D)
        BY <2>3, <1>8 DEF Settled
      <3> QED BY <3>1, <3>2 DEF Settled
    <2>5. Failed(f) => Failed(f)'
      BY <2>2, <1>9 DEF Failed, Final
    <2>6. remaining'[f] = 0 /\ result'[f] = "value"
      BY <1>7, <1>8, <1>9, <1>12
    <2> QED BY <2>1, <2>4, <2>5, <2>6, <1>10 DEF AllInv
  <1>13. FutureKept(f)
    <2>1. f \in made' /\ Stirred(f)
      BY <1>6, <1>7, <1>8 DEF Stirred
    <2>2. Kind[f] # "all" => ~Present({<<"error_if_needed", f>>})'
      BY <1>4, <1>10 DEF FutureInv
    <2>3. FutureInv(f)'
      BY <2>1, <2>2, <1>10, <1>11, <1>12 DEF FutureInv
    <2> QED BY <2>1, <2>3 DEF FutureKept
  <1> QED BY <1>9, <1>13 DEF Collected

LEMMA SetErrorCollects ==
  ASSUME CollectInv, NEW t \in Threads, SetErrorIfNeeded(t)
  PROVE  Collected
  <1>1. Shape /\ Placed
    BY DEF CollectInv, LoopInv, PoolInv
  <1>2. At(t, "error_if_needed") /\ Head(todo[t]) \in Steps /\ Head(todo[t])[1] = "error_if_needed" /\ Arg(t) = Head(todo[t])[2]
    BY <1>1, ArgsAt DEF SetErrorIfNeeded
  <1>3. PICK f \in Futures : Head(todo[t]) = <<"error_if_needed", f>> /\ todo[t] # <<>> /\ Arg(t) = f
    BY <1>2, StepArgs DEF At
  <1>4. FutureInv(f)
    BY DEF CollectInv
  <1>5. Present({<<"error_if_needed", f>>})
    <2>1. Head(todo[t]) = todo[t][1] /\ 1 \in DOMAIN todo[t]
      BY <1>1, <1>3, HeadStep
    <2> QED BY <2>1, <1>3 DEF Present, OnThread
  <1>6. Kind[f] = "all" /\ f \in made /\ AllInv(f) /\ Failed(f)
    BY <1>4, <1>5 DEF FutureInv, Unmade, AllInv
  <1>7. CASE result[f] # "none"
    <2>1. tasks' = tasks /\ UNCHANGED futureState /\ Continue(t, <<>>)
      BY <1>3, <1>7 DEF SetErrorIfNeeded, poolState, futureState
    <2>2. <<"join_workers">> \in Working /\ <<"join_workers">>[1] \notin FutureKinds
      BY MakeSteps DEF FutureKinds
    <2> QED BY <2>1, <2>2, <1>3, OneQuiet
  <1>8. CASE result[f] = "none"
    <2>1. /\ result' = [result EXCEPT ![f] = "error"] /\ TakeCallbacks(t, f)
          /\ tasks' = tasks /\ UNCHANGED <<made, remaining, misuse>>
      BY <1>3, <1>8 DEF SetErrorIfNeeded, poolState
    <2>2. "error" \in {"value", "error"}
      OBVIOUS
    <2>3. /\ FutureTyped' /\ ~misuse' /\ Final /\ result'[f] = "error"
          /\ \A c \in Callbacks : CallbackInv(c)' /\ (Open(c)' => Open(c))
          /\ \A z \in Futures \ {f} : FutureKept(z)
          /\ Fewer(Own(f))
      BY <2>1, <2>2, <1>3, <1>8, TakeCollects
    <2>4. ~Present(Late(f)) /\ ~Present(Marker(f))
      <3>1. remaining[f] # 0
        BY <1>6, CountedAll DEF Failed
      <3>2. ~Present(Late(f))
        BY <3>1, <1>6 DEF AllInv
      <3> QED BY <3>2, <1>1, <1>4, <1>6, OnlyLate
    <2>5. /\ Single(Marker(f))' /\ ~Present(Marker(f))' /\ ~Present(Late(f))'
          /\ ~Present({<<"make", f>>, <<"launch", f>>})' /\ ~Present({<<"mark", f, "error">>})'
      <3>1. Single(Marker(f)) /\ ~Present({<<"make", f>>, <<"launch", f>>}) /\ ~Present({<<"mark", f, "error">>})
        BY <1>4, <1>6 DEF FutureInv, AllInv
      <3> QED BY <3>1, <2>3, <2>4, Kinfolk DEF Fewer
    <2>6. AllInv(f)'
      <3>1. Sources[f] \in Seq(Futures) /\ \A i \in 1 .. Len(Sources[f]) : Sources[f][i] \in Futures /\ <<f, i>> \in Callbacks
        BY <1>6, AddsAreWork, ElementOfSeq
      <3>2. PICK D \in SUBSET (1 .. Len(Sources[f])) : Settled(f, D)
        BY <1>6 DEF AllInv
      <3>3. Settled(f, D)'
        <4>1. ASSUME NEW i \in D PROVE result'[Sources[f][i]] = "value" /\ ~Open(<<f, i>>)'
          <5>1. result[Sources[f][i]] = "value" /\ ~Open(<<f, i>>) /\ <<f, i>> \in Callbacks /\ Sources[f][i] \in Futures
            BY <3>1, <3>2 DEF Settled
          <5> QED BY <5>1, <2>3 DEF Final
        <4>2. remaining'[f] = Len(Sources[f]) - Cardinality(D)
          BY <3>2, <2>1 DEF Settled
        <4> QED BY <4>1, <4>2 DEF Settled
      <3>4. Failed(f)'
        BY <3>1, <2>3, <1>6 DEF Failed, Final
      <3> QED BY <3>3, <3>4, <2>3, <2>5 DEF AllInv
    <2>7. FutureKept(f)
      <3>1. f \in made' /\ Stirred(f)
        BY <1>6, <2>1 DEF Stirred
      <3>2. FutureInv(f)'
        BY <3>1, <2>5, <2>6, <1>6 DEF FutureInv
      <3> QED BY <3>1, <3>2 DEF FutureKept
    <2> QED BY <2>3, <2>7 DEF Collected
  <1> QED BY <1>7, <1>8

-----------------------------------------------------------------------------
(* A callback is added to its source, or called at once. *)
LEMMA AddCollects ==
  ASSUME CollectInv, NEW t \in Threads, AddCallback(t)
  PROVE  Collected
  <1>1. Shape /\ FutureTyped /\ callbacks \in [Futures -> Seq(Callbacks)]
    BY DEF CollectInv, LoopInv, PoolInv, Shape, Typed
  <1>2. At(t, "add") /\ Head(todo[t]) \in Steps /\ Head(todo[t])[1] = "add" /\ Arg(t) = Head(todo[t])[2]
    BY <1>1, ArgsAt DEF AddCallback
  <1>3. PICK d \in Callbacks : Head(todo[t]) = <<"add", d>> /\ todo[t] # <<>> /\ Arg(t) = d
    BY <1>2, StepArgs DEF At
  <1>4. PICK s \in Futures : s = Source(d)
    BY CallbackArgs
  <1>5. CallbackInv(d) /\ Head(todo[t]) \in Link(d)
    BY <1>3 DEF CollectInv, Link
  <1>6. Present(Link(d)) /\ ~Added(d) /\ Open(d) /\ d[1] \in made
    <2>1. Present(Link(d))
      BY <1>1, <1>3, <1>5, OnlyOne DEF CallbackInv
    <2> QED BY <2>1, <1>5 DEF CallbackInv, Open
  <1>7. tasks' = tasks /\ UNCHANGED <<made, result, remaining, misuse>> /\ Final
    BY DEF AddCallback, poolState, Final
  <1>8. PICK steps \in Seq(Working) :
           /\ Emits(t, steps) /\ \A n \in DOMAIN steps : n = 1 /\ steps[n] = <<"call", d>>
           /\ \/ result[s] # "none" /\ callbacks' = callbacks
              \/ DOMAIN steps = {} /\ callbacks' = [callbacks EXCEPT ![s] = Append(callbacks[s], d)]
    <2>1. CASE result[s] # "none"
      <3>1. PICK steps \in Seq(Working) : steps = <<<<"call", d>>>>
        BY MakeSteps, ShortLines
      <3>2. Continue(t, steps) /\ callbacks' = callbacks
        BY <3>1, <2>1, <1>3, <1>4 DEF AddCallback
      <3>3. \A n \in DOMAIN steps : n = 1 /\ steps[n] = <<"call", d>>
        BY <3>1
      <3> QED BY <3>2, <3>3, <2>1, <1>7 DEF Emits
    <2>2. CASE result[s] = "none"
      <3>1. PICK steps \in Seq(Working) : steps = <<>>
        BY ShortLines
      <3>2. Continue(t, steps) /\ callbacks' = [callbacks EXCEPT ![s] = Append(callbacks[s], d)]
        BY <3>1, <2>2, <1>3, <1>4 DEF AddCallback
      <3>3. DOMAIN steps = {}
        BY <3>1
      <3> QED BY <3>2, <3>3, <1>7 DEF Emits
    <2> QED BY <2>1, <2>2
  <1>9. ASSUME callbacks' = [callbacks EXCEPT ![s] = Append(callbacks[s], d)]
        PROVE  /\ \A z \in Futures \ {s} : callbacks'[z] = callbacks[z]
               /\ Len(callbacks[s]) \in Nat /\ DOMAIN callbacks[s] = 1 .. Len(callbacks[s])
               /\ DOMAIN callbacks'[s] = 1 .. Len(callbacks[s]) + 1
               /\ callbacks'[s][Len(callbacks[s]) + 1] = d
               /\ \A n \in 1 .. Len(callbacks[s]) : callbacks'[s][n] = callbacks[s][n]
    <2>1. callbacks[s] \in Seq(Callbacks) /\ callbacks'[s] = Append(callbacks[s], d)
      BY <1>1, <1>9
    <2>2. /\ Append(callbacks[s], d) \in Seq(Callbacks) /\ Len(Append(callbacks[s], d)) = Len(callbacks[s]) + 1
          /\ Append(callbacks[s], d)[Len(callbacks[s]) + 1] = d
          /\ \A n \in 1 .. Len(callbacks[s]) : Append(callbacks[s], d)[n] = callbacks[s][n]
      BY <2>1, AppendProperties
    <2>3. /\ Len(callbacks[s]) \in Nat /\ DOMAIN callbacks[s] = 1 .. Len(callbacks[s])
          /\ DOMAIN callbacks'[s] = 1 .. Len(callbacks[s]) + 1
      BY <2>1, <2>2, LenProperties
    <2>4. \A z \in Futures \ {s} : callbacks'[z] = callbacks[z]
      BY <1>9
    <2> QED BY <2>1, <2>2, <2>3, <2>4
  <1>10. ASSUME NEW c \in Callbacks, c # d PROVE CallbackInv(c)' /\ (Open(c)' => Open(c))
    <2>1. CallbackInv(c) /\ AddedOnce(c) /\ Source(c) \in Futures
      BY CallbackArgs DEF CollectInv, CallbackInv
    <2>2. \A n \in DOMAIN steps : steps[n] \notin Link(c)
      <3>1. <<"call", d>> \notin Link(c)
        BY <1>10 DEF Link
      <3> QED BY <3>1, <1>8
    <2>3. Fewer(Link(c))
      BY <2>2, <1>1, <1>3, <1>8, EmitFewer
    <2>4. (Added(c)' => Added(c)) /\ AddedOnce(c)'
      <3>1. CASE callbacks' = callbacks \/ Source(c) # s
        <4>1. callbacks'[Source(c)] = callbacks[Source(c)]
          BY <3>1, <2>1, <1>8, <1>9
        <4> QED BY <4>1, <2>1 DEF Added, AddedOnce, Source
      <3>2. CASE callbacks' = [callbacks EXCEPT ![s] = Append(callbacks[s], d)] /\ Source(c) = s
        <4> DEFINE M == Len(callbacks[s])
        <4>1. \A n \in DOMAIN callbacks'[s] : callbacks'[s][n] = c => n \in DOMAIN callbacks[s] /\ callbacks[s][n] = c
          <5>1. \A n \in 1 .. M + 1 : n = M + 1 \/ n \in 1 .. M
            BY <3>2, <1>9
          <5> QED BY <5>1, <3>2, <1>9, <1>10
        <4>2. \A n, k \in DOMAIN callbacks[s] : callbacks[s][n] = c /\ callbacks[s][k] = c => n = k
          BY <2>1, <3>2 DEF AddedOnce
        <4> QED BY <4>1, <4>2, <3>2 DEF Added, AddedOnce, Source
      <3> QED BY <3>1, <3>2, <1>8
    <2> QED BY <2>1, <2>3, <2>4, <1>7, CallbackFrame
  <1>11. CallbackInv(d)'
    <2>1. Single(Link(d))'
      <3>1. \A n, k \in DOMAIN steps : n = k
        BY <1>8
      <3> QED BY <3>1, <1>1, <1>3, <1>5, <1>8, EmitTokens DEF CallbackInv
    <2>2. CASE result[s] # "none" /\ callbacks' = callbacks
      <3>1. ~Added(d)' /\ AddedOnce(d)'
        BY <2>2, <1>5, <1>6 DEF Added, AddedOnce, Source, CallbackInv
      <3>2. (result[Source(d)] # "none")'
        BY <2>2, <1>4, <1>7 DEF Source
      <3> QED BY <2>1, <3>1, <3>2, <1>6, <1>7 DEF CallbackInv
    <2>3. CASE DOMAIN steps = {} /\ callbacks' = [callbacks EXCEPT ![s] = Append(callbacks[s], d)]
      <3>1. ~Present(Link(d))' /\ ~Present({<<"call", d>>})'
        <4>1. ~Present(Link(d))'
          BY <2>3, <1>1, <1>3, <1>5, <1>8, EmitTokens DEF CallbackInv
        <4>2. (Present({<<"call", d>>}) => Present(Link(d)))'
          BY Kinfolk DEF Present, OnThread, InQueue
        <4> QED BY <4>1, <4>2
      <3>2. AddedOnce(d)'
        <4> DEFINE M == Len(callbacks[s])
        <4>1. \A n \in DOMAIN callbacks'[s] : callbacks'[s][n] = d => n = M + 1
          <5>1. \A n \in 1 .. M + 1 : n = M + 1 \/ n \in 1 .. M
            BY <2>3, <1>9
          <5>2. \A n \in DOMAIN callbacks[s] : callbacks[s][n] # d
            BY <1>4, <1>6 DEF Added
          <5> QED BY <5>1, <5>2, <2>3, <1>9
        <4> HIDE DEF M
        <4> QED BY <4>1, <1>4 DEF AddedOnce, Source
      <3> QED BY <2>1, <3>1, <3>2, <1>6, <1>7 DEF CallbackInv
    <2> QED BY <2>2, <2>3, <1>8
  <1>12. \A c \in Callbacks : CallbackInv(c)' /\ (Open(c)' => Open(c))
    BY <1>6, <1>10, <1>11
  <1>13. ASSUME NEW z \in Futures PROVE FutureKept(z)
    <2>1. \A n \in DOMAIN steps : steps[n] \notin Own(z)
      BY <1>8, OwnTokens
    <2>2. Fewer(Own(z)) /\ FutureInv(z)
      BY <2>1, <1>1, <1>3, <1>8, EmitFewer DEF CollectInv
    <2> QED BY <2>2, <1>7, <1>12, FutureFrame
  <1>14. FutureTyped' /\ ~misuse'
    <2>1. ASSUME NEW z \in Futures, NEW n \in DOMAIN callbacks'[z] PROVE Source(callbacks'[z][n]) = z
      <3>1. CASE callbacks' = callbacks \/ z # s
        <4>1. callbacks'[z] = callbacks[z]
          BY <3>1, <1>8, <1>9
        <4> QED BY <4>1, <2>1, <1>1 DEF FutureTyped
      <3>2. CASE callbacks' = [callbacks EXCEPT ![s] = Append(callbacks[s], d)] /\ z = s
        <4>1. n = Len(callbacks[s]) + 1 \/ n \in 1 .. Len(callbacks[s])
          BY <3>2, <2>1, <1>9
        <4> QED BY <4>1, <3>2, <1>1, <1>4, <1>9 DEF FutureTyped
      <3> QED BY <3>1, <3>2, <1>8
    <2> QED BY <2>1, <1>1, <1>7 DEF FutureTyped, Source, CollectInv
  <1> QED BY <1>12, <1>13, <1>14 DEF Collected

(* then() and collectAll: the callbacks are to be added. *)
LEMMA MakeCollects ==
  ASSUME CollectInv, NEW t \in Threads, MakeDependent(t)
  PROVE  Collected
  <1>1. Shape /\ FutureTyped
    BY DEF CollectInv, LoopInv, PoolInv
  <1>2. At(t, "make") /\ Head(todo[t]) \in Steps /\ Head(todo[t])[1] = "make" /\ Arg(t) = Head(todo[t])[2]
    BY <1>1, ArgsAt DEF MakeDependent
  <1>3. PICK f \in Futures : Head(todo[t]) = <<"make", f>> /\ todo[t] # <<>> /\ Arg(t) = f /\ Kind[f] \in {"then", "all"}
    BY <1>2, StepArgs, StepKinds DEF At
  <1>4. /\ made' = made \cup {f} /\ tasks' = tasks /\ UNCHANGED <<result, callbacks, remaining, misuse>>
        /\ IF Sources[f] = <<>> THEN Continue(t, <<<<"mark", f, "value">>>>) ELSE Continue(t, Adds(f))
    BY <1>3 DEF MakeDependent, poolState
  <1>5. FutureInv(f) /\ Single(Marker(f)) /\ Head(todo[t]) \in Marker(f)
    BY <1>3 DEF CollectInv, FutureInv, Marker, Asked
  <1>6. Head(todo[t]) \in {<<"make", f>>, <<"launch", f>>}
    BY <1>3
  <1>7. Present(Marker(f)) /\ Present({<<"make", f>>, <<"launch", f>>})
    BY <1>1, <1>3, <1>5, <1>6, Kinfolk, OnlyOne
  <1>8. f \notin made /\ Unmade(f)
    BY <1>5, <1>7 DEF FutureInv
  <1>9. /\ Sources[f] \in Seq(Futures) /\ Len(Sources[f]) \in Nat
        /\ Adds(f) \in Seq(Working) /\ Len(Adds(f)) = Len(Sources[f])
        /\ \A n \in 1 .. Len(Sources[f]) : Adds(f)[n] = <<"add", <<f, n>>>> /\ <<f, n>> \in Callbacks
    BY <1>3, AddsAreWork
  <1>10. CASE Sources[f] = <<>>
    <2>1. Len(Sources[f]) = 0 /\ remaining[f] = 0
      BY <1>8, <1>10 DEF Unmade
    <2>2. "value" \in {"value", "error"} /\ Continue(t, <<<<"mark", f, "value">>>>)
      BY <1>4, <1>10
    <2> QED BY <2>1, <2>2, <1>3, <1>4, <1>5, OneMarkNext
  <1>11. CASE Sources[f] # <<>>
    <2>1. PICK steps \in Seq(Working) : steps = Adds(f)
      BY <1>9
    <2>2. Emits(t, steps) /\ DOMAIN steps = 1 .. Len(Sources[f])
      BY <2>1, <1>4, <1>9, <1>11, LenProperties DEF Emits
    <2>3. \A n \in DOMAIN steps : steps[n] = <<"add", <<f, n>>>> /\ steps[n][1] = "add"
      <3>1. \A n \in DOMAIN steps : steps[n] = <<"add", <<f, n>>>>
        BY <2>1, <2>2, <1>9, Zenon
      <3> QED BY <3>1
    <2>4. Final
      BY <1>4 DEF Final
    <2>5. \A c \in Callbacks : c[1] = f => ~Open(c)
      BY <1>8, CallbackArgs DEF CollectInv, CallbackInv
    <2>6. ASSUME NEW c \in Callbacks PROVE CallbackInv(c)' /\ (c[1] # f /\ Open(c)' => Open(c))
      <3>1. CallbackInv(c) /\ AddedOnce(c)
        BY DEF CollectInv, CallbackInv
      <3>2. (Added(c)' <=> Added(c)) /\ AddedOnce(c)'
        BY <3>1, <1>4 DEF Added, AddedOnce, Source
      <3>3. CASE c[1] # f
        <4>1. \A n \in DOMAIN steps : steps[n] \notin Link(c)
          <5>1. \A n : <<"add", <<f, n>>>>[2][1] = f
            OBVIOUS
          <5> QED BY <5>1, <3>3, <2>3, OwnTokens
        <4>2. Fewer(Link(c))
          BY <4>1, <2>2, <1>1, <1>3, EmitFewer
        <4> QED BY <4>2, <3>1, <3>2, <2>4, <1>4, CallbackFrame
      <3>4. CASE c[1] = f
        <4>1. ~Present(Link(c)) /\ ~Added(c) /\ ~Present({<<"call", c>>})
          <5>1. ~Present(Link(c)) /\ ~Added(c)
            BY <3>4, <2>5 DEF Open
          <5> QED BY <5>1, Kinfolk, MorePresent
        <4>2. \A n, k \in DOMAIN steps : steps[n] \in Link(c) /\ steps[k] \in Link(c) => n = k
          <5> TAKE n, k \in DOMAIN steps
          <5> HAVE steps[n] \in Link(c) /\ steps[k] \in Link(c)
          <5>1. <<f, n>> = c /\ <<f, k>> = c
            BY <2>3, OwnTokens
          <5> QED BY <5>1
        <4>3. Single(Link(c))'
          BY <4>1, <4>2, <2>2, <1>1, <1>3, EmitTokens
        <4>4. ~Present({<<"call", c>>})'
          <5>1. \A n \in DOMAIN steps : steps[n] \notin {<<"call", c>>}
            BY <2>3
          <5> QED BY <5>1, <4>1, <2>2, <1>1, <1>3, EmitTokens
        <4>5. c[1] \in made'
          BY <3>4, <1>4
        <4> QED BY <4>1, <4>3, <4>4, <4>5, <3>2, <3>4 DEF CallbackInv
      <3> QED BY <3>3, <3>4
    <2>7. \A z \in Futures \ {f} : FutureKept(z)
      <3>1. \A z \in Futures \ {f} : result'[z] = result[z] /\ remaining'[z] = remaining[z] /\ (z \in made' <=> z \in made)
        BY <1>4
      <3>2. \A n \in DOMAIN steps : steps[n][1] \in FutureKinds /\ steps[n][1] \notin {"add", "call"} => steps[n][2] = f
        BY <2>3
      <3> QED BY <3>1, <3>2, <2>2, <2>4, <2>6, <1>3, OtherFutures
    <2>8. \A n \in DOMAIN steps : steps[n] \notin Own(f)
      BY <2>3, OwnTokens
    <2>9. /\ Single(Marker(f))' /\ ~Present(Marker(f))'
      <3>1. \A n \in DOMAIN steps : steps[n] \notin Marker(f)
        BY <2>8, Kinfolk
      <3> QED BY <3>1, <2>2, <1>1, <1>3, <1>5, EmitTokens
    <2>10. /\ ~Present(Late(f))' /\ ~Present({<<"error_if_needed", f>>})'
           /\ ~Present({<<"make", f>>, <<"launch", f>>})' /\ ~Present({<<"mark", f, "error">>})'
      <3>1. Fewer(Own(f))
        BY <2>2, <2>8, <1>1, <1>3, EmitFewer
      <3>2. ~Present(Late(f)) /\ ~Present({<<"error_if_needed", f>>}) /\ ~Present({<<"mark", f, "error">>})
        BY <1>8, Kinfolk, MorePresent DEF Unmade
      <3>3. \A P : P \subseteq Marker(f) => ~Present(P)'
        <4>1. \A P : (P \subseteq Marker(f) /\ Present(P) => Present(Marker(f)))'
          BY DEF Present, OnThread, InQueue
        <4> QED BY <4>1, <2>9
      <3> QED BY <3>1, <3>2, <3>3, Kinfolk DEF Fewer
    <2>11. ASSUME Kind[f] = "all" PROVE AllInv(f)'
      <3>1. Settled(f, {})'
        BY <1>4, <1>8, <1>9, FS_EmptySet DEF Settled, Unmade
      <3>2. result'[f] = "none"
        BY <1>4, <1>8 DEF Unmade
      <3> QED BY <3>1, <3>2, <2>10 DEF AllInv
    <2>12. FutureKept(f)
      <3>1. result'[f] = "none" /\ f \in made' /\ Stirred(f)
        BY <1>4, <1>7, <1>8 DEF Unmade, Stirred
      <3>2. ThenInv(f)'
        BY <3>1, <2>9 DEF ThenInv
      <3>3. FutureInv(f)'
        BY <3>1, <3>2, <2>9, <2>10, <2>11 DEF FutureInv
      <3> QED BY <3>1, <3>3 DEF FutureKept
    <2>13. FutureTyped' /\ ~misuse'
      BY <1>1, <1>4 DEF FutureTyped, Source, CollectInv
    <2> QED BY <2>6, <2>7, <2>12, <2>13 DEF Collected
  <1> QED BY <1>10, <1>11

-----------------------------------------------------------------------------
(* Before the first step the threads of the program have its calls to do. *)
LEMMA InitCollect == Init => CollectInv
  <1> SUFFICES ASSUME Init PROVE CollectInv
    OBVIOUS
  <1>1. PICK p \in Programs : todo = [t \in Threads |-> IF t \in Mains THEN p[t] ELSE <<>>]
    BY DEF Init
  <1>2. /\ tasks = <<>> /\ DOMAIN tasks = {} /\ made = {f \in Futures : Kind[f] = "promise"} /\ ~misuse
        /\ result = [f \in Futures |-> "none"] /\ callbacks = [f \in Futures |-> <<>>]
        /\ remaining = [f \in Futures |-> Len(Sources[f])]
    BY DEF Init, PoolInit, FutureInit
  <1>3. ASSUME NEW t \in Threads, NEW n \in DOMAIN todo[t]
        PROVE  t \in Mains /\ n \in DOMAIN p[t] /\ todo[t][n] = p[t][n] /\ p[t][n] \in CallSteps
    <2>1. t \in Mains
      <3>1. t \notin Mains => todo[t] = <<>>
        BY <1>1
      <3>2. DOMAIN <<>> = {}
        OBVIOUS
      <3> QED BY <3>1, <3>2, <1>3
    <2>2. todo[t] = p[t]
      BY <2>1, <1>1
    <2>3. p \in [Mains -> Seq(CallSteps)]
      BY ParallelAssumption
    <2>4. p[t] \in Seq(CallSteps)
      BY <2>1, <2>3
    <2> QED BY <2>1, <2>2, <2>4, <1>3, LenProperties, ElementOfSeq
  <1>4. \A P : Present(P) <=> \E t \in Threads : \E n \in DOMAIN todo[t] : todo[t][n] \in P
    BY <1>2 DEF Present, OnThread, InQueue
  <1>5. \A c \in Callbacks : ~Present(Link(c)) /\ Single(Link(c)) /\ ~Present({<<"call", c>>})
    <2> TAKE c \in Callbacks
    <2>1. \A t \in Threads : \A n \in DOMAIN todo[t] : todo[t][n] \notin Link(c)
      <3>1. PICK f \in Futures : f = c[1]
        BY CallbackArgs
      <3> QED BY <3>1, <1>3, CallAsks
    <2>2. ~Present(Link(c))
      BY <2>1, <1>4
    <2>3. Single(Link(c))
      BY <2>1, <1>2 DEF Single, InQueue
    <2> QED BY <2>2, <2>3, Kinfolk, MorePresent
  <1>6. ASSUME NEW z \in Futures
        PROVE  /\ Single(Marker(z))
               /\ \A P \in SUBSET Own(z) : Present(P) => AskOf(z) \in P
    <2>1. ASSUME NEW t \in Threads, NEW n \in DOMAIN todo[t], todo[t][n] \in Own(z)
          PROVE  todo[t][n] = AskOf(z) /\ p[t][n][1] \in Once
      BY <2>1, <1>3, CallAsks
    <2>2. ASSUME NEW P \in SUBSET Own(z), Present(P) PROVE AskOf(z) \in P
      BY <2>1, <2>2, <1>4
    <2>3. ASSUME NEW t \in Threads, NEW u \in Threads, NEW n \in DOMAIN todo[t], NEW k \in DOMAIN todo[u],
                 todo[t][n] \in Marker(z), todo[u][k] \in Marker(z)
          PROVE  t = u /\ n = k
      <3>1. todo[t][n] = todo[u][k] /\ p[t][n][1] \in Once
        BY <2>1, <2>3, Kinfolk
      <3>2. /\ t \in Mains /\ n \in DOMAIN p[t] /\ todo[t][n] = p[t][n]
            /\ u \in Mains /\ k \in DOMAIN p[u] /\ todo[u][k] = p[u][k]
        BY <1>3
      <3>3. p[u][k] = p[t][n]
        BY <3>1, <3>2
      <3>4. \A l \in Mains : \A h \in DOMAIN p[l] : p[l][h] = p[t][n] => l = t /\ h = n
        BY <3>1, <3>2, ParallelAssumption
      <3> QED BY <3>2, <3>3, <3>4
    <2>4. ~InQueue(Marker(z))
      BY <1>2 DEF InQueue
    <2>5. Single(Marker(z))
      BY <2>3, <2>4, <1>2 DEF Single
    <2> QED BY <2>2, <2>5
  <1>7. ASSUME NEW c \in Callbacks PROVE CallbackInv(c) /\ ~Open(c)
    <2>1. Source(c) \in Futures
      BY CallbackArgs
    <2>2. DOMAIN callbacks[Source(c)] = {}
      BY <2>1, <1>2
    <2>3. ~Added(c) /\ AddedOnce(c)
      BY <2>2 DEF Added, AddedOnce
    <2> QED BY <2>3, <1>5 DEF CallbackInv, Open
  <1>8. ASSUME NEW f \in Futures PROVE FutureInv(f)
    <2>1. /\ ~Present(Late(f)) /\ ~Present({<<"error_if_needed", f>>}) /\ ~Present({<<"mark", f, "error">>})
          /\ Kind[f] = "promise" => ~Present({<<"make", f>>, <<"launch", f>>})
      <3>1. /\ AskOf(f) \notin Late(f) /\ AskOf(f) \notin {<<"error_if_needed", f>>}
            /\ AskOf(f) \notin {<<"mark", f, "error">>}
            /\ Kind[f] = "promise" => AskOf(f) \notin {<<"make", f>>, <<"launch", f>>}
        BY DEF AskOf, Late
      <3> QED BY <3>1, <1>6, Kinfolk
    <2>2. result[f] = "none" /\ remaining[f] = Len(Sources[f]) /\ (f \in made <=> Kind[f] = "promise")
      BY <1>2
    <2>3. ThenInv(f)
      BY <1>7 DEF ThenInv
    <2>4. AllInv(f)
      <3>1. Len(Sources[f]) \in Nat
        BY FutureAssumption, LenProperties
      <3>2. Settled(f, {})
        BY <3>1, <2>2, FS_EmptySet DEF Settled
      <3> QED BY <3>2, <2>1, <2>2 DEF AllInv
    <2> QED BY <2>1, <2>2, <2>3, <2>4, <1>6 DEF FutureInv, Unmade
  <1>9. ASSUME NEW x \in Jobs \cup Launched, NEW z \in Futures PROVE NestedFuture(x, z)
    <2>1. SUFFICES ASSUME NEW k \in DOMAIN Body[x], Body[x][k] \in Asked(z), Stirred(z) PROVE FALSE
      BY DEF NestedFuture, AskedIn
    <2>2. Present(Marker(z))
      BY <2>1, <1>2 DEF Stirred
    <2>3. PICK t \in Threads : \E n \in DOMAIN todo[t] : todo[t][n] \in Marker(z)
      BY <2>2, <1>4
    <2>4. PICK n \in DOMAIN todo[t] : todo[t][n] \in Marker(z)
      BY <2>3
    <2>5. todo[t][n] \in Own(z) /\ Body[x][k] \in Own(z)
      BY <2>1, <2>4, Kinfolk
    <2>6. t \in Mains /\ n \in DOMAIN p[t] /\ todo[t][n] = p[t][n] /\ p[t][n] \in CallSteps /\ Body[x][k] \in CallSteps
      BY <1>3, BodyCalls
    <2>7. p[t][n] = Body[x][k] /\ p[t][n][1] \in Once
      BY <2>5, <2>6, CallAsks
    <2>8. x \in DOMAIN Body
      BY ParallelAssumption
    <2>9. Body[x][k] # p[t][n]
      BY <2>6, <2>7, <2>8, ParallelAssumption
    <2> QED BY <2>7, <2>9
  <1>10. FutureTyped
    <2>1. made \subseteq Futures /\ result \in [Futures -> {"none", "value", "error"}]
      BY <1>2
    <2>2. remaining \in [Futures -> Int]
      <3>1. \A f \in Futures : Len(Sources[f]) \in Int
        BY FutureAssumption, LenProperties
      <3> QED BY <3>1, <1>2
    <2>3. \A s \in Futures : DOMAIN callbacks[s] = {}
      BY <1>2
    <2> QED BY <2>1, <2>2, <2>3 DEF FutureTyped
  <1> QED BY <1>2, <1>7, <1>8, <1>9, <1>10, InitLoop DEF CollectInv

LEMMA StepCollects ==
  ASSUME CollectInv, NEW t \in Threads, Step(t), StayStarted
  PROVE  Regained
  <1>1. CASE PoolStep(t) /\ UNCHANGED <<futureState, jobState>>
    BY <1>1, PoolCollects, CollectedRegains
  <1>2. CASE FutureWait(t) \/ Notify(t) \/ ParallelFor(t) \/ Enqueue(t) \/ ChunkDone(t) \/ Join(t) \/ Joined(t) \/ Return(t)
    BY <1>2, JobCollects, CollectedRegains
  <1>3. CASE Mark(t) \/ SetErrorIfNeeded(t) \/ AddCallback(t) \/ CallThen(t) \/ CallAll(t) \/ CheckCompleted(t)
                \/ MakeDependent(t) \/ Launch(t) \/ Fulfil(t)
    <2>1. Collected
      BY <1>3, MarkCollects, SetErrorCollects, AddCollects, CallThenCollects, CallAllCollects, CheckCollects,
         MakeCollects, LaunchCollects, FulfilCollects
    <2> QED BY <2>1, CollectedRegains
  <1>4. CASE RunInline(t) \/ RunChunk(t) \/ CallFunc(t)
    BY <1>4, InlineCollects, ChunkCollects, CallFuncCollects
  <1> QED BY <1>1, <1>2, <1>3, <1>4 DEF Step, FutureStep

LEMMA NextCollect == CollectInv /\ [Next]_vars => CollectInv'
  <1> SUFFICES ASSUME CollectInv, [Next]_vars PROVE CollectInv'
    OBVIOUS
  <1>1. LoopInv' /\ StayStarted
    BY NextLoop, NextStarted DEF CollectInv
  <1>2. Regained
    <2>1. CASE \E t \in Threads : Step(t)
      BY <2>1, <1>1, StepCollects
    <2>2. CASE \E w \in Workers : Wake(w)
      BY <2>2, <1>1, WakeCollects, CollectedRegains DEF Wake
    <2>3. CASE (\E t \in Mains : SpuriousWakeUp(t)) \/ UNCHANGED vars
      <3>1. UNCHANGED <<futureState, todo, tasks>>
        BY <2>3 DEF SpuriousWakeUp, vars, poolState
      <3> QED BY <3>1, <1>1, StillQuiets, CollectedRegains
    <2> QED BY <2>1, <2>2, <2>3 DEF Next
  <1> QED BY <1>1, <1>2 DEF CollectInv, Regained

LEMMA CollectIsRight == CollectInv => CollectAllIsRight
  <1> SUFFICES ASSUME CollectInv, NEW f \in Futures, Kind[f] = "all"
               PROVE  /\ result[f] = "value" => \A i \in DOMAIN Sources[f] : result[Sources[f][i]] = "value"
                      /\ result[f] = "error" => \E i \in DOMAIN Sources[f] : result[Sources[f][i]] = "error"
    BY DEF CollectAllIsRight, CollectInv
  <1>1. AllInv(f)
    BY DEF CollectInv, FutureInv
  <1>2. DOMAIN Sources[f] = 1 .. Len(Sources[f])
    BY AddsAreWork, LenProperties
  <1>3. ASSUME result[f] = "value" PROVE \A i \in DOMAIN Sources[f] : result[Sources[f][i]] = "value"
    BY <1>1, <1>2, <1>3, CountedAll DEF AllInv
  <1>4. ASSUME result[f] = "error" PROVE \E i \in DOMAIN Sources[f] : result[Sources[f][i]] = "error"
    BY <1>1, <1>2, <1>4 DEF AllInv, Failed
  <1> QED BY <1>3, <1>4

(* The future of collectAll has a value only when every source has one, and *)
(* an error only when a source has one, and no future is completed twice:   *)
(* for every program, pool and number of sources, however the callbacks of  *)
(* the sources interleave                                                   *)
THEOREM CollectAllIsAlwaysRight == Spec => []CollectAllIsRight
  BY InitCollect, NextCollect, CollectIsRight, PTL DEF Spec
=============================================================================
