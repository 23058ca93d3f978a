-------------------------- MODULE InputBufferProofs --------------------------
(***************************************************************************)
(* Proofs about module InputBuffer, for every set of producers, devices and *)
(* streams and every assignment of streams to nodes: whenever add() or      *)
(* evaluate_function waits for an event, the event was recorded; every      *)
(* kernel finds the gradients the host meant it to add up, however the      *)
(* devices run and whatever memory is reused; and the caller of backward()  *)
(* finds the sum on its own stream.                                         *)
(***************************************************************************)
EXTENDS InputBuffer, SequenceTheorems, TLAPS

Events == [stream : Streams, count : Nat]

Kernels ==
    [kind : {"grad", "sum", "leaf", "use"}, reads : SUBSET Tensors, writes : Tensors \cup {None},
     gives : SUBSET Producers, want : SUBSET Producers]
Waits == [kind : {"wait"}, event : Events]
Reuses == [kind : {"reuse"}, writes : Tensors]
Ops == Kernels \cup Waits \cup Reuses

Queues == [Streams -> Seq(Ops)]

TypeOK ==
    /\ node_stream \in [Producers -> Streams \cup {None}]
    /\ consumer_stream \in Streams /\ caller_stream \in Streams /\ device \in Devices
    /\ stage \in [Producers -> {"idle", "called", "added"}]
    /\ consumer \in {"idle", "ready", "called", "posted", "used"}
    /\ arrived \in SUBSET Producers
    /\ buffer \in Tensors \cup {None}
    /\ ready_event \in Events \cup {None}
    /\ work \in Queues /\ done \in [Streams -> Nat]

(* The buffer is empty until a gradient arrives and after it was dropped, *)
(* which is when all producers were added                                 *)
Filled ==
    /\ consumer # "idle" => \A p \in Producers : stage[p] = "added"
    /\ arrived # {} <=> opt_accum_stream # None
    /\ consumer \in {"idle", "ready"} /\ arrived # {} => buffer \in Tensors

(* Where the gradient is not ready on the stream that sums or consumes it, *)
(* there is an event                                                       *)
Recorded ==
    opt_accum_stream # None =>
        /\ opt_accum_stream \in Streams /\ ready_stream \in Streams
        /\ ready_stream # opt_accum_stream => ready_event # None
        /\ ready_stream # consumer_stream => ready_event # None

IInv == TypeOK /\ Filled /\ Recorded /\ EventsAreThere

-----------------------------------------------------------------------------
(* Queues and streams *)
LEMMA TensorTypes ==
  /\ \A p \in Producers : Grad(p) \in Tensors /\ Sum(p) \in Tensors
  /\ Leaf \in Tensors
  BY DEF Tensors

LEMMA QueueType ==
  ASSUME NEW w \in Queues, NEW s, NEW op \in Ops
  PROVE  Queue(w, s, op) \in Queues
  <1>1. CASE s \in Streams
    <2>1. Append(w[s], op) \in Seq(Ops)
      BY <1>1, AppendProperties DEF Queues
    <2> QED BY <2>1 DEF Queues, Queue
  <1>2. CASE s \notin Streams
    BY <1>2 DEF Queues, Queue
  <1> QED BY <1>1, <1>2

LEMMA KernelType ==
  ASSUME NEW k \in {"grad", "sum", "leaf", "use"}, NEW r \in SUBSET Tensors,
         NEW x \in Tensors \cup {None}, NEW g \in SUBSET Producers, NEW c \in SUBSET Producers
  PROVE  Kernel(k, r, x, g, c) \in Ops
  BY DEF Kernel, Ops, Kernels

LEMMA EventOnType ==
  ASSUME NEW w \in Queues, NEW s \in Streams
  PROVE  EventOn(w, s) \in Events /\ EventOn(w, s) # None
  <1>1. Len(w[s]) \in Nat
    BY LenProperties DEF Queues
  <1>2. EventOn(w, s) \in Events
    BY <1>1 DEF EventOn, Events
  <1> QED BY <1>2, InputBufferAssumption DEF Events

LEMMA WaitForType ==
  ASSUME NEW w \in Queues, NEW s, NEW e \in Events \cup {None}
  PROVE  WaitFor(w, s, e) \in Queues
  <1>1. e # None => Wait(e) \in Ops
    BY DEF Wait, Ops, Waits
  <1> QED BY <1>1, QueueType DEF WaitFor

LEMMA FollowType ==
  ASSUME NEW w \in Queues, NEW s, NEW r \in Streams
  PROVE  Follow(w, s, r) \in Queues
  BY EventOnType, WaitForType DEF Follow

LEMMA StreamTypes ==
  ASSUME TypeOK
  PROVE  /\ CallerStream(LeafDevice) \in Streams
         /\ \A p \in Producers : /\ CurrentStream(p, device) \in Streams
                                /\ ProducerStream(p) \in Streams
                                /\ AccumStream(p) \in Streams
  <1>1. \A s \in Streams, d \in Devices : Current(s, d) \in Streams
    BY InputBufferAssumption DEF Current
  <1>2. LeafDevice \in Devices
    BY InputBufferAssumption DEF TypeOK, LeafDevice
  <1>3. \A p \in Producers : CurrentStream(p, device) \in Streams
    BY <1>1 DEF TypeOK, CurrentStream
  <1>4. \A p \in Producers : ProducerStream(p) \in Streams
    BY <1>3 DEF TypeOK, ProducerStream
  <1> QED BY <1>1, <1>2, <1>3, <1>4 DEF TypeOK, CallerStream, AccumStream

-----------------------------------------------------------------------------
LEMMA InitIInv == Init => IInv
  <1> SUFFICES ASSUME Init PROVE IInv
    OBVIOUS
  <1>1. work \in Queues
    BY EmptySeq DEF Init, Queues
  <1>2. TypeOK
    BY <1>1 DEF Init, TypeOK
  <1> QED BY <1>2 DEF Init, IInv, Filled, Recorded, EventsAreThere

LEMMA CallProducerIInv ==
  ASSUME IInv, NEW p \in Producers, CallProducer(p)
  PROVE  IInv'
  <1> DEFINE s == CurrentStream(p, device)
             op == Kernel("grad", {}, Grad(p), {p}, {p})
             w == Queue(work, s, op)
  <1> USE DEF IInv
  <1>1. s \in Streams /\ ProducerStream(p) \in Streams
    BY StreamTypes
  <1>2. op \in Ops
    BY KernelType, TensorTypes
  <1>3. w \in Queues
    BY <1>2, QueueType DEF TypeOK
  <1>4. work' \in Queues
    <2>1. work' = IF ProducerStream(p) = s THEN w ELSE Follow(w, ProducerStream(p), s)
      BY DEF CallProducer
    <2> HIDE DEF w, s
    <2> QED BY <1>1, <1>3, <2>1, FollowType
  <1>5. TypeOK'
    BY <1>4 DEF TypeOK, CallProducer, config, slot
  <1>6. Filled' /\ Recorded' /\ EventsAreThere'
    BY DEF TypeOK, CallProducer, config, slot, Filled, Recorded, EventsAreThere
  <1> QED BY <1>5, <1>6

(* What every add() does: the consumer becomes ready with the last one. *)
LEMMA AddedStep ==
  ASSUME IInv, NEW p \in Producers, Added(p)
  PROVE  /\ stage' \in [Producers -> {"idle", "called", "added"}]
         /\ consumer = "idle" /\ consumer' \in {"idle", "ready"}
         /\ consumer' # "idle" => \A q \in Producers : stage'[q] = "added"
         /\ UNCHANGED <<config, done>>
  <1>1. consumer = "idle"
    BY DEF IInv, Filled, Added
  <1> QED BY <1>1 DEF IInv, TypeOK, Added, ConsumerAfter

LEMMA AddUndefinedIInv ==
  ASSUME IInv, NEW p \in Producers, AddUndefined(p)
  PROVE  IInv'
  <1>1. Added(p)
    BY DEF AddUndefined
  <1>2. TypeOK'
    BY <1>1, AddedStep DEF IInv, TypeOK, AddUndefined, config, slot
  <1>3. Filled' /\ Recorded' /\ EventsAreThere'
    BY <1>1, AddedStep DEF IInv, AddUndefined, config, slot, Filled, Recorded, EventsAreThere
  <1> QED BY <1>2, <1>3 DEF IInv

(* The first gradient: an event is recorded unless the producer's stream is *)
(* both where it is summed and where it is consumed.                        *)
LEMMA AddFirstIInv ==
  ASSUME IInv, NEW p \in Producers, AddFirst(p)
  PROVE  IInv'
  <1>1. Added(p)
    BY DEF AddFirst
  <1>2. ProducerStream(p) \in Streams /\ AccumStream(p) \in Streams
    BY StreamTypes DEF IInv
  <1>3. EventOn(work, ProducerStream(p)) \in Events /\ EventOn(work, ProducerStream(p)) # None
    BY <1>2, EventOnType DEF IInv, TypeOK
  <1>4. TypeOK'
    BY <1>1, <1>3, AddedStep, TensorTypes DEF IInv, TypeOK, AddFirst, config
  <1>5. Filled'
    BY <1>1, <1>2, AddedStep, TensorTypes, InputBufferAssumption DEF AddFirst, Filled
  <1>6. Recorded'
    BY <1>1, <1>2, <1>3, AddedStep DEF AddFirst, Recorded, NeedsEvent, config
  <1>7. EventsAreThere'
    BY DEF IInv, AddFirst, EventsAreThere
  <1> QED BY <1>4, <1>5, <1>6, <1>7 DEF IInv

(* A further gradient: the sum is ready on the accumulation stream. *)
LEMMA AddNextIInv ==
  ASSUME IInv, NEW p \in Producers, NEW sum \in {buffer, Grad(p), Sum(p)}, AddNext(p, sum)
  PROVE  IInv'
  <1> DEFINE s  == opt_accum_stream
             w1 == IF s = ProducerStream(p) THEN work ELSE Follow(work, s, ProducerStream(p))
             w2 == IF s = ready_stream THEN w1 ELSE WaitFor(w1, s, ready_event)
             op == Kernel("sum", {buffer, Grad(p)}, sum, {}, arrived \cup {p})
             w3 == Queue(w2, s, op)
  <1>1. Added(p) /\ s # None
    BY DEF AddNext
  <1>2. ProducerStream(p) \in Streams /\ s \in Streams /\ ready_stream \in Streams
    BY <1>1, StreamTypes DEF IInv, Recorded
  <1>3. buffer \in Tensors /\ sum \in Tensors
    BY <1>1, AddedStep, TensorTypes DEF IInv, Filled
  <1>4. op \in Ops
    BY <1>3, KernelType, TensorTypes DEF IInv, TypeOK
  <1>5. w1 \in Queues
    BY <1>2, FollowType DEF IInv, TypeOK
  <1>6. w2 \in Queues
    <2> HIDE DEF w1
    <2> QED BY <1>5, WaitForType DEF IInv, TypeOK
  <1>7. w3 \in Queues
    <2> HIDE DEF w2, op
    <2> QED BY <1>4, <1>6, QueueType
  <1>8. /\ work' = w3 /\ buffer' = sum /\ arrived' = arrived \cup {p}
        /\ ready_event' = IF consumer_stream = s THEN ready_event ELSE EventOn(w3, s)
        /\ ready_stream' = s /\ opt_accum_stream' = s
        /\ wrong' = IF s # ready_stream /\ ready_event = None
                      THEN wrong \cup {"event"} ELSE wrong
    BY DEF AddNext
  <1> HIDE DEF w3
  <1>9. EventOn(w3, s) \in Events /\ EventOn(w3, s) # None
    BY <1>2, <1>7, EventOnType
  <1>10. TypeOK'
    BY <1>1, <1>3, <1>7, <1>8, <1>9, AddedStep DEF IInv, TypeOK, config
  <1>11. Filled'
    BY <1>1, <1>3, <1>8, AddedStep DEF Filled
  <1>12. Recorded'
    BY <1>1, <1>2, <1>8, <1>9, AddedStep DEF Recorded, config
  <1>13. EventsAreThere'
    BY <1>1, <1>8 DEF IInv, Recorded, EventsAreThere
  <1> QED BY <1>10, <1>11, <1>12, <1>13 DEF IInv

-----------------------------------------------------------------------------
LEMMA CallConsumerIInv ==
  ASSUME IInv, CallConsumer
  PROVE  IInv'
  <1> DEFINE w == IF ConsumerWaits THEN WaitFor(work, consumer_stream, ready_event) ELSE work
             op == Kernel("leaf", {buffer}, Leaf, {}, arrived)
  <1>1. consumer = "ready" /\ arrived # {} /\ opt_accum_stream # None /\ buffer \in Tensors
    BY DEF IInv, Filled, CallConsumer
  <1>2. w \in Queues
    BY WaitForType DEF IInv, TypeOK
  <1>3. op \in Ops
    BY <1>1, KernelType, TensorTypes DEF IInv, TypeOK
  <1>4. work' \in Queues
    <2>1. work' = Queue(w, consumer_stream, op)
      BY DEF CallConsumer
    <2> HIDE DEF w, op
    <2> QED BY <1>2, <1>3, <2>1, QueueType
  <1>5. TypeOK'
    BY <1>4 DEF IInv, TypeOK, CallConsumer, config, slot
  <1>6. ConsumerWaits => ready_event # None
    BY <1>1 DEF IInv, Recorded, ConsumerWaits
  <1>7. Filled' /\ Recorded' /\ EventsAreThere'
    BY <1>1, <1>6 DEF IInv, CallConsumer, config, slot, Filled, Recorded, EventsAreThere
  <1> QED BY <1>5, <1>7 DEF IInv

LEMMA DropBufferIInv ==
  ASSUME IInv, DropBuffer
  PROVE  IInv'
  BY DEF IInv, DropBuffer, config, TypeOK, Filled, Recorded, EventsAreThere

LEMMA ExecPostProcessingIInv ==
  ASSUME IInv, ExecPostProcessing
  PROVE  IInv'
  <1>1. SyncCaller(work) \in Queues
    BY FollowType DEF IInv, TypeOK, SyncCaller
  <1>2. TypeOK'
    BY <1>1 DEF IInv, TypeOK, ExecPostProcessing, config, slot
  <1>3. Filled' /\ Recorded' /\ EventsAreThere'
    BY DEF IInv, ExecPostProcessing, config, slot, Filled, Recorded, EventsAreThere
  <1> QED BY <1>2, <1>3 DEF IInv

LEMMA UseGradientIInv ==
  ASSUME IInv, UseGradient
  PROVE  IInv'
  <1>1. Kernel("use", {Leaf}, None, {}, arrived) \in Ops
    BY KernelType, TensorTypes DEF IInv, TypeOK
  <1>2. work' \in Queues
    BY <1>1, QueueType DEF IInv, TypeOK, UseGradient
  <1>3. TypeOK'
    BY <1>2 DEF IInv, TypeOK, UseGradient, config, slot
  <1>4. Filled' /\ Recorded' /\ EventsAreThere'
    BY DEF IInv, UseGradient, config, slot, Filled, Recorded, EventsAreThere
  <1> QED BY <1>3, <1>4 DEF IInv

-----------------------------------------------------------------------------
(* The devices find wrong operands, but never a missing event. *)
LEMMA ExecuteIInv ==
  ASSUME IInv, NEW s \in Streams, Execute(s)
  PROVE  IInv'
  <1> DEFINE op == work[s][done[s] + 1]
  <1>1. op \in Ops
    <2>1. work[s] \in Seq(Ops) /\ done[s] \in Nat /\ done[s] < Len(work[s])
      BY DEF IInv, TypeOK, Queues, Execute
    <2>2. Len(work[s]) \in Nat
      BY <2>1, LenProperties
    <2>3. done[s] + 1 \in 1..Len(work[s])
      BY <2>1, <2>2
    <2> QED BY <2>1, <2>3, ElementOfSeq
  <1>2. op.kind # "event"
    <2> HIDE DEF op
    <2> QED BY <1>1 DEF Ops, Kernels, Waits, Reuses
  <1>3. wrong' = wrong \/ wrong' = wrong \cup {op.kind}
    <2>1. CASE op.kind = "wait" \/ op.kind = "reuse"
      BY <2>1 DEF Execute
    <2>2. CASE op.kind # "wait" /\ op.kind # "reuse"
      BY <2>2 DEF Execute, RunKernel
    <2> QED BY <2>1, <2>2
  <1>4. TypeOK'
    BY DEF IInv, TypeOK, Execute, config, slot
  <1>5. Filled' /\ Recorded'
    BY DEF IInv, Execute, config, slot, Filled, Recorded
  <1>6. EventsAreThere'
    BY <1>2, <1>3 DEF IInv, EventsAreThere
  <1> QED BY <1>4, <1>5, <1>6 DEF IInv

LEMMA ReuseBlockIInv ==
  ASSUME IInv, NEW x \in Tensors, ReuseBlock(x)
  PROVE  IInv'
  <1>1. Reuse(x) \in Ops
    BY DEF Reuse, Ops, Reuses
  <1>2. work' \in Queues
    BY <1>1, QueueType DEF IInv, TypeOK, ReuseBlock
  <1>3. TypeOK'
    BY <1>2 DEF IInv, TypeOK, ReuseBlock, config, slot
  <1>4. Filled' /\ Recorded' /\ EventsAreThere'
    BY DEF IInv, ReuseBlock, config, slot, Filled, Recorded, EventsAreThere
  <1> QED BY <1>3, <1>4 DEF IInv

-----------------------------------------------------------------------------
LEMMA NextIInv == IInv /\ [Next]_vars => IInv'
  <1> SUFFICES ASSUME IInv, [Next]_vars PROVE IInv'
    OBVIOUS
  <1>1. CASE UNCHANGED vars
    BY <1>1 DEF vars, config, slot, IInv, TypeOK, Filled, Recorded, EventsAreThere
  <1>2. CASE HostStep
    BY <1>2, CallProducerIInv, AddUndefinedIInv, AddFirstIInv, AddNextIInv, CallConsumerIInv,
       DropBufferIInv, ExecPostProcessingIInv, UseGradientIInv DEF HostStep
  <1> QED BY <1>1, <1>2, ExecuteIInv, ReuseBlockIInv DEF Next

(* Although add() records an event only if it thinks somebody has to wait,  *)
(* the event is there whenever add() or evaluate_function waits: the        *)
(* assertions on ready_event in front of the waits never fail.              *)
THEOREM EventsAreAlwaysThere == Spec => []EventsAreThere
  <1>1. IInv => EventsAreThere
    BY DEF IInv
  <1> QED BY <1>1, InitIInv, NextIInv, PTL DEF Spec

-----------------------------------------------------------------------------
(* What the devices may do.  The host queues operations; in which order     *)
(* operations of different streams run is open, but for the waits.          *)

(* How far the devices may have come: a prefix of every queue, in which no  *)
(* wait was passed before its event.                                        *)
Cut(w, c) ==
    /\ \A s \in Streams : c[s] <= Len(w[s])
    /\ \A s \in Streams : \A i \in 1 .. Len(w[s]) :
          i <= c[s] /\ w[s][i].kind = "wait" => w[s][i].event.count <= c[w[s][i].event.stream]

(* The first j operations of r happen before operation k of s is over *)
HB(w, r, j, s, k) == \A c \in [Streams -> Nat] : Cut(w, c) /\ k <= c[s] => j <= c[r]

Readers == {"sum", "leaf", "use"}

Writes(w, t, m, x) == m \in 1 .. Len(w[t]) /\ w[t][m].kind # "wait" /\ w[t][m].writes = x
Reads(w, s, k, x) == k \in 1 .. Len(w[s]) /\ w[s][k].kind \in Readers /\ x \in w[s][k].reads

(* Operation j of r makes v of tensor x; once it ran nobody changed that *)
Made(x, r, j, v) ==
    /\ Writes(work, r, j, x) /\ work[r][j].kind # "reuse" /\ work[r][j].want = v
    /\ done[r] >= j => content[x] = v

(* Every other operation that writes x happens before that *)
Last(x, r, j) ==
    \A t \in Streams : \A m \in 1 .. Len(work[t]) : Writes(work, t, m, x) => HB(work, t, m, r, j)

(* Operation k of s finds v in x: it was made before, and every other write *)
(* happens before it was made or after it is read                           *)
Supplied(s, k, x, r, j, v) ==
    /\ Made(x, r, j, v)
    /\ HB(work, r, j, s, k - 1)
    /\ \A t \in Streams : \A m \in 1 .. Len(work[t]) :
          Writes(work, t, m, x) => HB(work, t, m, r, j) \/ HB(work, s, k, t, m)

Finds(s, k, x, v) == \E r \in Streams : \E j \in 1 .. Len(work[r]) : Supplied(s, k, x, r, j, v)

(* A kernel finds what the host meant it to find *)
KernelSupplied(s, k) ==
    /\ \A x \in work[s][k].reads : \E v \in SUBSET work[s][k].want : Finds(s, k, x, v)
    /\ \A q \in work[s][k].want : \E x \in work[s][k].reads :
          \E v \in SUBSET work[s][k].want : q \in v /\ Finds(s, k, x, v)

ReadersSupplied ==
    \A s \in Streams : \A k \in 1 .. Len(work[s]) :
        done[s] < k /\ work[s][k].kind \in Readers => KernelSupplied(s, k)

OpRight(w, op) ==
    /\ op.kind = "wait" => op.event.count <= Len(w[op.event.stream])
    /\ op.kind = "grad" => op.reads = {} /\ op.gives = op.want
    /\ op.kind \in Readers => op.gives = {}
    /\ op.kind = "leaf" => op.writes = Leaf
    /\ op.kind = "use" => op.reads = {Leaf}

OpsRight ==
    \A s \in Streams : \A k \in 1 .. Len(work[s]) :
        OpRight(work, work[s][k]) /\ (work[s][k].kind = "sum" => s = opt_accum_stream)

Untouched(x) ==
    \/ \E p \in Producers : x = Grad(p) /\ stage[p] = "idle"
    \/ \E p \in Producers : x = Sum(p) /\ stage[p] # "added"
    \/ x = Leaf /\ consumer \in {"idle", "ready"}

Unread(x) == Untouched(x) \/ \E p \in Producers : x = Grad(p) /\ stage[p] = "called"

(* Nobody has anything to do with a tensor that does not exist yet *)
TouchedOnly ==
    \A x \in Tensors :
        /\ Untouched(x) => \A s \in Streams : \A k \in 1 .. Len(work[s]) : ~Writes(work, s, k, x)
        /\ Unread(x) => /\ \A s \in Streams : \A k \in 1 .. Len(work[s]) : ~Reads(work, s, k, x)
                        /\ free_events[x] = None

(* The allocator knows of every stream that reads a tensor *)
Covered ==
    \A x \in Tensors \ {Leaf} : \A s \in Streams : \A k \in 1 .. Len(work[s]) :
        Reads(work, s, k, x) =>
            /\ s = block_stream[x] \/ s \in stream_uses[x]
            /\ free_events[x] # None =>
                  s = block_stream[x] \/ \E e \in free_events[x] : e.stream = s /\ k <= e.count

FreeIsDone ==
    /\ free_events[Leaf] = None /\ buffer # Leaf
    /\ consumer \in {"idle", "ready"} /\ arrived # {} => free_events[buffer] = None

GradMade(p, r, j) ==
    /\ Made(Grad(p), r, j, {p}) /\ Last(Grad(p), r, j)
    /\ HB(work, r, j, ProducerStream(p), Len(work[ProducerStream(p)]))

GradReady ==
    \A p \in Producers : stage[p] = "called" =>
        /\ block_stream[Grad(p)] = CurrentStream(p, device)
        /\ \E r \in Streams : \E j \in 1 .. Len(work[r]) : GradMade(p, r, j)

Awaited == ready_stream # opt_accum_stream \/ ready_stream # consumer_stream

BufferMade(r, j) ==
    /\ Made(buffer, r, j, arrived) /\ Last(buffer, r, j)
    /\ HB(work, r, j, ready_stream, Len(work[ready_stream]))
    /\ Awaited => /\ HB(work, r, j, ready_event.stream, ready_event.count)
                  /\ ready_event.count <= Len(work[ready_event.stream])

BufferReady ==
    consumer \in {"idle", "ready"} /\ arrived # {} =>
        /\ buffer \in Tensors \ {Leaf} /\ ~Unread(buffer)
        /\ \E r \in Streams : \E j \in 1 .. Len(work[r]) : BufferMade(r, j)
        /\ DeviceOf[opt_accum_stream] = device
        /\ DeviceOf[consumer_stream] = device => opt_accum_stream = consumer_stream
        /\ opt_accum_stream \in {ready_stream, consumer_stream} =>
              opt_accum_stream = block_stream[buffer] \/ opt_accum_stream \in stream_uses[buffer]

LeafMade(k) ==
    /\ Made(Leaf, consumer_stream, k, arrived) /\ Last(Leaf, consumer_stream, k)
    /\ consumer = "posted" =>
          HB(work, consumer_stream, k, CallerStream(LeafDevice), Len(work[CallerStream(LeafDevice)]))

LeafReady ==
    consumer \in {"called", "posted", "used"} =>
        \E k \in 1 .. Len(work[consumer_stream]) : LeafMade(k)

Blocks ==
    /\ block_stream \in [Tensors -> Streams \cup {None}]
    /\ stream_uses \in [Tensors -> SUBSET Streams]
    /\ free_events \in [Tensors -> (SUBSET Events) \cup {None}]
    /\ content \in [Tensors -> SUBSET Producers]

NothingWrong == wrong = {} /\ Cut(work, done)

SyncInv ==
    /\ IInv /\ Blocks /\ NothingWrong /\ OpsRight
    /\ ReadersSupplied /\ TouchedOnly /\ Covered /\ FreeIsDone
    /\ GradReady /\ BufferReady /\ LeafReady
-----------------------------------------------------------------------------
(* Operations and queues *)
LEMMA OpAt ==
  ASSUME NEW w \in Queues, NEW s \in Streams
  PROVE  /\ Len(w[s]) \in Nat /\ w[s] \in Seq(Ops)
         /\ \A k \in 1 .. Len(w[s]) : w[s][k] \in Ops
  <1>1. w[s] \in Seq(Ops)
    BY DEF Queues
  <1>2. Len(w[s]) \in Nat
    BY <1>1, LenProperties
  <1>3. ASSUME NEW k \in 1 .. Len(w[s]) PROVE w[s][k] \in Ops
    BY <1>1, ElementOfSeq
  <1> QED BY <1>1, <1>2, <1>3

LEMMA OpKinds ==
  ASSUME NEW op \in Ops
  PROVE  /\ op.kind = "wait" => op.event \in Events /\ op.event.stream \in Streams /\ op.event.count \in Nat
         /\ op.kind = "reuse" => op.writes \in Tensors
         /\ op.kind \notin {"wait", "reuse"} =>
              /\ op.kind \in {"grad"} \cup Readers /\ op.reads \in SUBSET Tensors
              /\ op.want \in SUBSET Producers /\ op.gives \in SUBSET Producers
         /\ op.kind \in {"grad", "wait", "reuse"} \cup Readers
         /\ op.kind \in Readers => op.kind \notin {"wait", "reuse"}
  BY DEF Ops, Kernels, Waits, Reuses, Events, Readers

LEMMA NoneIsNoTensor == None \notin Tensors
  BY InputBufferAssumption DEF Tensors, Grad, Sum, Leaf

LEMMA TensorsDiffer ==
  /\ \A p, q \in Producers : (Grad(p) = Grad(q) \/ Sum(p) = Sum(q)) => p = q
  /\ \A p, q \in Producers : Grad(p) # Sum(q)
  /\ \A p \in Producers : Grad(p) # Leaf /\ Sum(p) # Leaf
  BY DEF Grad, Sum, Leaf

LEMMA QueueEffect ==
  ASSUME NEW w \in Queues, NEW s \in Streams, NEW op \in Ops, NEW v, v = Queue(w, s, op)
  PROVE  /\ v \in Queues
         /\ Len(v[s]) = Len(w[s]) + 1 /\ v[s][Len(w[s]) + 1] = op
         /\ \A i \in 1 .. Len(w[s]) : v[s][i] = w[s][i]
         /\ \A t \in Streams : t # s => v[t] = w[t]
  <1>1. v \in Queues
    BY QueueType
  <1>2. w[s] \in Seq(Ops) /\ w \in [Streams -> Seq(Ops)]
    BY OpAt DEF Queues
  <1>3. v[s] = Append(w[s], op) /\ \A t \in Streams : t # s => v[t] = w[t]
    BY <1>2 DEF Queue
  <1> QED BY <1>1, <1>2, <1>3, AppendProperties

-----------------------------------------------------------------------------
(* What the host queues in one step: waits for events that exist, and one   *)
(* other operation at place k0 of s0, or none if k0 is 0                    *)
GoodWait(v, op) == op.kind = "wait" /\ op.event.count <= Len(v[op.event.stream])

Grown(w, v, s0, k0) ==
    /\ v \in Queues
    /\ \A s \in Streams : Len(w[s]) <= Len(v[s])
    /\ \A s \in Streams : \A i \in 1 .. Len(w[s]) : v[s][i] = w[s][i]
    /\ \A s \in Streams : \A k \in Len(w[s]) + 1 .. Len(v[s]) :
          (s = s0 /\ k = k0) \/ GoodWait(v, v[s][k])

LEMMA GrownNot ==
  ASSUME NEW w \in Queues, NEW s0, NEW k0
  PROVE  Grown(w, w, s0, k0)
  <1>1. \A s \in Streams : Len(w[s]) \in Nat
    BY OpAt
  <1> QED BY <1>1 DEF Grown

LEMMA GrownWait ==
  ASSUME NEW w \in Queues, NEW v, NEW s0, NEW k0, Grown(w, v, s0, k0),
         NEW s \in Streams, NEW e \in Events, e.count <= Len(v[e.stream]), NEW u, u = Queue(v, s, Wait(e))
  PROVE  /\ Grown(w, u, s0, k0) /\ Grown(v, u, s0, 0)
         /\ u[s][Len(u[s])] = Wait(e) /\ Len(u[s]) = Len(v[s]) + 1
  <1>1. v \in Queues /\ Wait(e) \in Ops
    BY DEF Grown, Wait, Ops, Waits
  <1>2. /\ u \in Queues
        /\ Len(u[s]) = Len(v[s]) + 1 /\ u[s][Len(v[s]) + 1] = Wait(e)
        /\ \A i \in 1 .. Len(v[s]) : u[s][i] = v[s][i]
        /\ \A t \in Streams : t # s => u[t] = v[t]
    BY <1>1, QueueEffect
  <1>3. \A t \in Streams : Len(w[t]) \in Nat /\ Len(v[t]) \in Nat /\ Len(u[t]) \in Nat
    BY <1>1, <1>2, OpAt
  <1>4. \A t \in Streams : Len(v[t]) <= Len(u[t]) /\ Len(w[t]) <= Len(v[t])
    BY <1>2, <1>3 DEF Grown
  <1>5. Wait(e).kind = "wait" /\ Wait(e).event = e /\ e.stream \in Streams /\ e.count \in Nat
    BY DEF Wait, Events
  <1>6. GoodWait(u, Wait(e))
    BY <1>3, <1>4, <1>5 DEF GoodWait
  <1>7. ASSUME NEW t \in Streams, NEW i \in 1 .. Len(v[t]) PROVE u[t][i] = v[t][i]
    BY <1>2
  <1>8. ASSUME NEW t \in Streams, NEW k \in Len(v[t]) + 1 .. Len(u[t]) PROVE GoodWait(u, u[t][k])
    <2>1. t = s /\ k = Len(v[s]) + 1
      BY <1>2, <1>3
    <2> QED BY <1>2, <1>6, <2>1
  <1>9. Grown(v, u, s0, 0)
    BY <1>2, <1>4, <1>7, <1>8 DEF Grown
  <1>10. ASSUME NEW t \in Streams, NEW i \in 1 .. Len(w[t]) PROVE u[t][i] = w[t][i]
    <2>1. i \in 1 .. Len(v[t])
      BY <1>3, <1>4
    <2> QED BY <1>7, <2>1 DEF Grown
  <1>11. ASSUME NEW t \in Streams, NEW k \in Len(w[t]) + 1 .. Len(u[t])
         PROVE  (t = s0 /\ k = k0) \/ GoodWait(u, u[t][k])
    <2>1. CASE k <= Len(v[t])
      <3>1. k \in 1 .. Len(v[t]) /\ k \in Len(w[t]) + 1 .. Len(v[t])
        BY <1>3, <2>1
      <3>2. CASE t = s0 /\ k = k0
        BY <3>2
      <3>3. CASE GoodWait(v, v[t][k])
        <4>1. u[t][k] = v[t][k] /\ v[t][k] \in Ops
          BY <1>1, <1>7, <3>1, OpAt
        <4>2. v[t][k].kind = "wait" /\ v[t][k].event.stream \in Streams /\ v[t][k].event.count \in Nat
          BY <3>3, <4>1, OpKinds DEF GoodWait
        <4> QED BY <1>3, <1>4, <3>3, <4>1, <4>2 DEF GoodWait
      <3> QED BY <3>1, <3>2, <3>3 DEF Grown
    <2>2. CASE ~(k <= Len(v[t]))
      <3>1. k \in Len(v[t]) + 1 .. Len(u[t])
        BY <1>3, <2>2
      <3> QED BY <1>8, <3>1
    <2> QED BY <2>1, <2>2
  <1>12. Grown(w, u, s0, k0)
    <2>1. \A t \in Streams : Len(w[t]) <= Len(u[t])
      BY <1>3, <1>4
    <2> QED BY <1>2, <2>1, <1>10, <1>11 DEF Grown
  <1> QED BY <1>2, <1>9, <1>12

LEMMA GrownKernel ==
  ASSUME NEW w \in Queues, NEW v, NEW s0 \in Streams, Grown(w, v, s0, 0), NEW op \in Ops,
         NEW u, u = Queue(v, s0, op)
  PROVE  /\ Grown(w, u, s0, Len(v[s0]) + 1) /\ Len(u[s0]) = Len(v[s0]) + 1
         /\ u[s0][Len(v[s0]) + 1] = op /\ Len(w[s0]) < Len(v[s0]) + 1
         /\ \A t \in Streams : Len(v[t]) <= Len(u[t])
         /\ \A t \in Streams : \A i \in 1 .. Len(v[t]) : u[t][i] = v[t][i]
  <1>1. v \in Queues
    BY DEF Grown
  <1>2. /\ u \in Queues
        /\ Len(u[s0]) = Len(v[s0]) + 1 /\ u[s0][Len(v[s0]) + 1] = op
        /\ \A i \in 1 .. Len(v[s0]) : u[s0][i] = v[s0][i]
        /\ \A t \in Streams : t # s0 => u[t] = v[t]
    BY <1>1, QueueEffect
  <1>3. \A t \in Streams : Len(w[t]) \in Nat /\ Len(v[t]) \in Nat /\ Len(u[t]) \in Nat
    BY <1>1, <1>2, OpAt
  <1>4. \A t \in Streams : Len(v[t]) <= Len(u[t]) /\ Len(w[t]) <= Len(v[t])
    BY <1>2, <1>3 DEF Grown
  <1>7. ASSUME NEW t \in Streams, NEW i \in 1 .. Len(v[t]) PROVE u[t][i] = v[t][i]
    BY <1>2
  <1>10. ASSUME NEW t \in Streams, NEW i \in 1 .. Len(w[t]) PROVE u[t][i] = w[t][i]
    <2>1. i \in 1 .. Len(v[t])
      BY <1>3, <1>4
    <2> QED BY <1>7, <2>1 DEF Grown
  <1>11. ASSUME NEW t \in Streams, NEW k \in Len(w[t]) + 1 .. Len(u[t])
         PROVE  (t = s0 /\ k = Len(v[s0]) + 1) \/ GoodWait(u, u[t][k])
    <2>1. CASE k <= Len(v[t])
      <3>1. k \in 1 .. Len(v[t]) /\ k \in Len(w[t]) + 1 .. Len(v[t]) /\ k # 0
        BY <1>3, <2>1
      <3>2. GoodWait(v, v[t][k])
        BY <3>1 DEF Grown
      <3>3. u[t][k] = v[t][k] /\ v[t][k] \in Ops
        BY <1>1, <1>7, <3>1, OpAt
      <3>4. v[t][k].kind = "wait" /\ v[t][k].event.stream \in Streams /\ v[t][k].event.count \in Nat
        BY <3>2, <3>3, OpKinds DEF GoodWait
      <3> QED BY <1>3, <1>4, <3>2, <3>3, <3>4 DEF GoodWait
    <2>2. CASE ~(k <= Len(v[t]))
      <3>1. k \in Len(v[t]) + 1 .. Len(u[t])
        BY <1>3, <2>2
      <3> QED BY <1>2, <1>3, <3>1
    <2> QED BY <2>1, <2>2
  <1>12. Grown(w, u, s0, Len(v[s0]) + 1)
    <2>1. \A t \in Streams : Len(w[t]) <= Len(u[t])
      BY <1>3, <1>4
    <2> QED BY <1>2, <2>1, <1>10, <1>11 DEF Grown
  <1>13. Len(w[s0]) < Len(v[s0]) + 1
    BY <1>3, <1>4
  <1> QED BY <1>2, <1>4, <1>7, <1>12, <1>13

-----------------------------------------------------------------------------
(* Happens-before *)
Well(w) ==
    \A s \in Streams : \A k \in 1 .. Len(w[s]) :
        w[s][k].kind = "wait" => w[s][k].event.count <= Len(w[w[s][k].event.stream])

(* What happens before something in the queues does so in longer queues: a  *)
(* cut of these, cut off where the old ones ended, is a cut of the old ones *)
LEMMA HBGrows ==
  ASSUME NEW w \in Queues, Well(w), NEW v, NEW s0, NEW k0, Grown(w, v, s0, k0),
         NEW r \in Streams, NEW j \in Nat, NEW s \in Streams, NEW k \in Nat, k <= Len(w[s]),
         HB(w, r, j, s, k)
  PROVE  HB(v, r, j, s, k)
  <1> SUFFICES ASSUME NEW c \in [Streams -> Nat], Cut(v, c), k <= c[s]
               PROVE  j <= c[r]
    BY DEF HB
  <1> DEFINE b == [t \in Streams |-> IF c[t] <= Len(w[t]) THEN c[t] ELSE Len(w[t])]
  <1>1. v \in Queues /\ \A t \in Streams : Len(w[t]) \in Nat /\ Len(v[t]) \in Nat /\ Len(w[t]) <= Len(v[t])
    BY OpAt DEF Grown
  <1>2. b \in [Streams -> Nat] /\ \A t \in Streams : b[t] <= Len(w[t]) /\ b[t] <= c[t]
    BY <1>1
  <1>3. \A t \in Streams, n \in Nat : n <= Len(w[t]) /\ n <= c[t] => n <= b[t]
    BY <1>1
  <1> HIDE DEF b
  <1>4. ASSUME NEW t \in Streams, NEW i \in 1 .. Len(w[t]), i <= b[t], w[t][i].kind = "wait"
        PROVE  w[t][i].event.count <= b[w[t][i].event.stream]
    <2>1. i \in 1 .. Len(v[t]) /\ v[t][i] = w[t][i] /\ i <= c[t]
      BY <1>1, <1>2, <1>4 DEF Grown
    <2>2. w[t][i] \in Ops /\ w[t][i].event.stream \in Streams /\ w[t][i].event.count \in Nat
      BY <1>4, OpAt, OpKinds
    <2>3. w[t][i].event.count <= c[w[t][i].event.stream]
      BY <2>1, <1>4 DEF Cut
    <2>4. w[t][i].event.count <= Len(w[w[t][i].event.stream])
      BY <1>4 DEF Well
    <2> QED BY <1>3, <2>2, <2>3, <2>4
  <1>5. Cut(w, b)
    BY <1>2, <1>4 DEF Cut
  <1>6. k <= b[s]
    BY <1>3
  <1>7. j <= b[r]
    BY <1>2, <1>5, <1>6 DEF HB
  <1> QED BY <1>2, <1>7

LEMMA HBOrder ==
  ASSUME NEW w, NEW s \in Streams, NEW j \in Nat, NEW k \in Nat, j <= k
  PROVE  HB(w, s, j, s, k)
  BY DEF HB

LEMMA HBTrans ==
  ASSUME NEW w, NEW r, NEW i, NEW s \in Streams, NEW j \in Nat, NEW t \in Streams, NEW k \in Nat,
         HB(w, r, i, s, j), HB(w, s, j, t, k)
  PROVE  HB(w, r, i, t, k)
  BY DEF HB

LEMMA HBLater ==
  ASSUME NEW w, NEW r, NEW i, NEW s \in Streams, NEW j \in Nat, NEW k \in Nat, j <= k, HB(w, r, i, s, j)
  PROVE  HB(w, r, i, s, k)
  BY HBOrder, HBTrans

(* ... and by a wait *)
LEMMA HBWait ==
  ASSUME NEW w, NEW s \in Streams, NEW i \in 1 .. Len(w[s]), NEW e \in Events, w[s][i] = Wait(e),
         NEW k \in Nat, i <= k
  PROVE  HB(w, e.stream, e.count, s, k)
  <1> SUFFICES ASSUME NEW c \in [Streams -> Nat], Cut(w, c), k <= c[s]
               PROVE  e.count <= c[e.stream]
    BY DEF HB
  <1>1. i <= c[s] /\ w[s][i].kind = "wait" /\ w[s][i].event = e
    BY DEF Wait
  <1> QED BY <1>1 DEF Cut

LEMMA HBDone ==
  ASSUME NEW w, NEW c \in [Streams -> Nat], Cut(w, c), NEW r, NEW j, NEW s, NEW k,
         HB(w, r, j, s, k), k <= c[s]
  PROVE  j <= c[r]
  BY DEF HB

-----------------------------------------------------------------------------
(* The devices *)
LEMMA WellOps ==
  ASSUME OpsRight
  PROVE  Well(work)
  BY DEF OpsRight, OpRight, Well

(* What stays true of a tensor that was made when some stream goes on *)
LEMMA ExecuteMade ==
  ASSUME SyncInv, NEW s \in Streams, Execute(s), NEW x \in Tensors, NEW r \in Streams, NEW j \in Nat, NEW v,
         Made(x, r, j, v),
         work[s][done[s] + 1].kind \notin {"wait", "reuse"} =>
             content' = [y \in Tensors |-> IF y = work[s][done[s] + 1].writes
                                           THEN work[s][done[s] + 1].want ELSE content[y]],
         Writes(work, s, done[s] + 1, x) => ~(j <= done[r])
  PROVE  Made(x, r, j, v)'
  <1> DEFINE k == done[s] + 1
             op == work[s][k]
  <1>1. done \in [Streams -> Nat] /\ work \in Queues /\ content \in [Tensors -> SUBSET Producers]
    BY DEF SyncInv, IInv, TypeOK, Blocks
  <1>2. work' = work /\ done' = [done EXCEPT ![s] = k] /\ done[s] < Len(work[s])
    BY DEF Execute
  <1>3. k \in 1 .. Len(work[s]) /\ op \in Ops
    BY <1>1, <1>2, OpAt
  <1>4. SUFFICES ASSUME j <= done'[r] PROVE content'[x] = v
    BY <1>1, <1>2 DEF Made
  <1>5. CASE Writes(work, s, k, x)
    <2>1. ~(j <= done[r])
      BY <1>5
    <2>2. r = s /\ j = k
      BY <1>1, <1>2, <1>4, <2>1
    <2>3. op.kind \notin {"wait", "reuse"} /\ op.want = v /\ op.writes = x
      BY <2>2 DEF Made, Writes
    <2> QED BY <2>3
  <1>6. CASE ~Writes(work, s, k, x)
    <2>1. ~(r = s /\ j = k)
      BY <1>6 DEF Made
    <2>2. j <= done[r]
      BY <1>1, <1>2, <1>4, <2>1
    <2>3. op.kind = "wait" \/ op.writes # x
      BY <1>3, <1>6 DEF Writes
    <2>4. content'[x] = content[x]
      <3>1. CASE op.kind = "wait"
        BY <3>1 DEF Execute
      <3>2. CASE op.kind = "reuse"
        <4>1. content' = [content EXCEPT ![op.writes] = {}] /\ op.writes # x
          BY <2>3, <3>2 DEF Execute
        <4> QED BY <1>1, <4>1
      <3>3. CASE op.kind \notin {"wait", "reuse"}
        BY <2>3, <3>3
      <3> QED BY <3>1, <3>2, <3>3
    <2> QED BY <2>2, <2>4 DEF Made
  <1> QED BY <1>5, <1>6

(* A kernel at the head of its stream finds what it was meant to find *)
LEMMA KernelSees ==
  ASSUME SyncInv, NEW s \in Streams, done[s] < Len(work[s]),
         work[s][done[s] + 1].kind \notin {"wait", "reuse"}
  PROVE  Sees(work[s][done[s] + 1]) = work[s][done[s] + 1].want
  <1>1. done \in [Streams -> Nat] /\ work \in Queues /\ Cut(work, done)
    BY DEF SyncInv, IInv, TypeOK, NothingWrong
  <1>2. PICK k \in Nat : k = done[s] + 1
    BY <1>1
  <1>3. PICK op \in Ops : op = work[s][k]
    BY <1>1, <1>2, OpAt
  <1>4. k \in 1 .. Len(work[s]) /\ done[s] < k /\ k - 1 = done[s]
    BY <1>1, <1>2, OpAt
  <1>5. op.kind \in {"grad"} \cup Readers
    BY <1>2, <1>3, OpKinds
  <1>6. OpRight(work, op)
    BY <1>3, <1>4 DEF SyncInv, OpsRight
  <1>7. CASE op.kind = "grad"
    BY <1>2, <1>3, <1>6, <1>7 DEF OpRight, Sees
  <1>8. CASE op.kind \in Readers
    <2>1. KernelSupplied(s, k) /\ op.gives = {}
      BY <1>3, <1>4, <1>6, <1>8 DEF SyncInv, ReadersSupplied, OpRight
    <2>2. ASSUME NEW x, NEW v, Finds(s, k, x, v) PROVE content[x] = v
      <3>1. PICK r \in Streams, j \in Nat : Supplied(s, k, x, r, j, v)
        BY <2>2 DEF Finds
      <3>2. j <= done[r]
        BY <1>1, <1>4, <3>1, HBDone DEF Supplied
      <3> QED BY <1>1, <3>1, <3>2 DEF Supplied, Made
    <2>3. \A x \in op.reads : content[x] \subseteq op.want
      BY <1>3, <2>1, <2>2 DEF KernelSupplied
    <2>4. \A q \in op.want : \E x \in op.reads : q \in content[x]
      BY <1>3, <2>1, <2>2 DEF KernelSupplied
    <2>5. Sees(op) = op.want
      BY <2>1, <2>3, <2>4 DEF Sees
    <2> QED BY <1>2, <1>3, <2>5
  <1> QED BY <1>5, <1>7, <1>8

LEMMA ExecuteSync ==
  ASSUME SyncInv, NEW s \in Streams, Execute(s)
  PROVE  SyncInv'
  <1>1. /\ done \in [Streams -> Nat] /\ work \in Queues /\ Cut(work, done) /\ wrong = {}
        /\ content \in [Tensors -> SUBSET Producers]
    BY DEF SyncInv, IInv, TypeOK, NothingWrong, Blocks
  <1>2. PICK k \in Nat : k = done[s] + 1
    BY <1>1
  <1>3. PICK op \in Ops : op = work[s][k]
    BY <1>1, <1>2, OpAt DEF Execute
  <1>4. /\ work' = work /\ done' = [done EXCEPT ![s] = k] /\ done[s] < Len(work[s])
        /\ UNCHANGED <<config, stage, consumer, arrived, slot, blocks>>
    BY <1>2 DEF Execute
  <1>5. k \in 1 .. Len(work[s]) /\ done[s] < k /\ k - 1 = done[s] /\ Len(work[s]) \in Nat
    BY <1>1, <1>2, <1>4, OpAt
  <1>6. ASSUME op.kind \notin {"wait", "reuse"}
        PROVE  /\ content' = [y \in Tensors |-> IF y = op.writes THEN op.want ELSE content[y]]
               /\ wrong' = {}
    <2>1. Sees(op) = op.want
      BY <1>2, <1>3, <1>4, <1>6, KernelSees
    <2>2. RunKernel(op)
      BY <1>2, <1>3, <1>6 DEF Execute
    <2> QED BY <1>1, <2>1, <2>2 DEF RunKernel
  <1>7. wrong' = {} /\ content' \in [Tensors -> SUBSET Producers]
    <2>1. CASE op.kind = "wait"
      BY <1>1, <1>2, <1>3, <2>1 DEF Execute
    <2>2. CASE op.kind = "reuse"
      BY <1>1, <1>2, <1>3, <2>2 DEF Execute
    <2>3. CASE op.kind \notin {"wait", "reuse"}
      BY <1>1, <1>6, <2>3, OpKinds
    <2> QED BY <2>1, <2>2, <2>3
  <1>8. Cut(work, done')
    <2>1. done' \in [Streams -> Nat] /\ \A t \in Streams : done[t] <= done'[t]
      BY <1>1, <1>2, <1>4
    <2>2. ASSUME NEW t \in Streams PROVE done'[t] <= Len(work[t])
      BY <1>1, <1>4, <1>5 DEF Cut
    <2>3. ASSUME NEW t \in Streams, NEW i \in 1 .. Len(work[t]), i <= done'[t], work[t][i].kind = "wait"
          PROVE  work[t][i].event.count <= done'[work[t][i].event.stream]
      <3>1. work[t][i].event.stream \in Streams /\ work[t][i].event.count \in Nat
        BY <1>1, <2>3, OpAt, OpKinds
      <3>2. work[t][i].event.count <= done[work[t][i].event.stream]
        <4>1. CASE i <= done[t]
          BY <1>1, <2>3, <4>1 DEF Cut
        <4>2. CASE ~(i <= done[t])
          <5>1. t = s /\ i = k
            BY <1>1, <1>2, <1>4, <2>3, <4>2
          <5>2. Complete(op.event)
            BY <1>2, <1>3, <2>3, <5>1 DEF Execute
          <5> QED BY <1>1, <1>3, <3>1, <5>1, <5>2 DEF Complete
        <4> QED BY <4>1, <4>2
      <3> QED BY <1>1, <2>1, <3>1, <3>2
    <2> QED BY <2>2, <2>3 DEF Cut
  <1>9. ASSUME NEW x \in Tensors, NEW r \in Streams, NEW j \in Nat, NEW v, Made(x, r, j, v),
               Writes(work, s, k, x) => ~(j <= done[r])
        PROVE  Made(x, r, j, v)'
    BY <1>2, <1>3, <1>6, <1>9, ExecuteMade
  <1>10. ASSUME NEW x \in Tensors, NEW r \in Streams, NEW j \in Nat, NEW v, Made(x, r, j, v), Last(x, r, j)
         PROVE  Made(x, r, j, v)' /\ Last(x, r, j)'
    <2>1. ASSUME Writes(work, s, k, x), j <= done[r] PROVE FALSE
      <3>1. HB(work, s, k, r, j)
        BY <1>5, <1>10, <2>1 DEF Last
      <3>2. k <= done[s]
        BY <1>1, <2>1, <3>1, HBDone
      <3> QED BY <1>1, <1>5, <3>2
    <2> QED BY <1>4, <1>9, <1>10, <2>1 DEF Last
  <1>11. ASSUME NEW t \in Streams, NEW m \in 1 .. Len(work[t]), done'[t] < m, NEW x \in Tensors, NEW v,
                Finds(t, m, x, v)
         PROVE  Finds(t, m, x, v)'
    <2>1. PICK r \in Streams, j \in Nat : j \in 1 .. Len(work[r]) /\ Supplied(t, m, x, r, j, v)
      BY <1>11 DEF Finds
    <2>2. ASSUME Writes(work, s, k, x), j <= done[r] PROVE FALSE
      <3>1. CASE HB(work, s, k, r, j)
        <4>1. k <= done[s]
          BY <1>1, <2>2, <3>1, HBDone
        <4> QED BY <1>1, <1>5, <4>1
      <3>2. CASE HB(work, t, m, s, k)
        <4>1. done' \in [Streams -> Nat] /\ k <= done'[s]
          BY <1>1, <1>4
        <4>2. m <= done'[t]
          BY <1>8, <3>2, <4>1, HBDone
        <4> QED BY <1>11, <4>1, <4>2
      <3> QED BY <1>5, <2>1, <2>2, <3>1, <3>2 DEF Supplied
    <2>3. Made(x, r, j, v)'
      BY <1>9, <2>1, <2>2 DEF Supplied
    <2>4. Supplied(t, m, x, r, j, v)'
      BY <1>4, <2>1, <2>3 DEF Supplied
    <2> QED BY <1>4, <2>1, <2>4 DEF Finds
  <1>12. ReadersSupplied'
    <2> SUFFICES ASSUME NEW t \in Streams, NEW m \in 1 .. Len(work[t]), done'[t] < m,
                        work[t][m].kind \in Readers
                 PROVE  KernelSupplied(t, m)'
      BY <1>4 DEF ReadersSupplied
    <2>1. done[t] < m
      BY <1>1, <1>2, <1>4
    <2>2. KernelSupplied(t, m)
      BY <2>1 DEF SyncInv, ReadersSupplied
    <2>3. work[t][m].reads \subseteq Tensors
      BY <1>1, OpAt, OpKinds
    <2>4. \A x \in work[t][m].reads : \E v \in SUBSET work[t][m].want : Finds(t, m, x, v)'
      BY <1>11, <2>2, <2>3 DEF KernelSupplied
    <2>5. \A q \in work[t][m].want : \E x \in work[t][m].reads :
             \E v \in SUBSET work[t][m].want : q \in v /\ Finds(t, m, x, v)'
      BY <1>11, <2>2, <2>3 DEF KernelSupplied
    <2> QED BY <1>4, <2>4, <2>5 DEF KernelSupplied
  <1>13. IInv'
    BY ExecuteIInv DEF SyncInv
  <1>14. Blocks' /\ NothingWrong'
    BY <1>4, <1>7, <1>8 DEF SyncInv, Blocks, NothingWrong, blocks
  <1>15. OpsRight' /\ Covered' /\ FreeIsDone' /\ TouchedOnly'
    <2>1. OpsRight'
      BY <1>4 DEF SyncInv, OpsRight, OpRight, slot
    <2>2. Covered' /\ FreeIsDone'
      BY <1>4 DEF SyncInv, Covered, FreeIsDone, slot, blocks, Reads
    <2>3. TouchedOnly'
      BY <1>4 DEF SyncInv, TouchedOnly, Untouched, Unread, blocks, Writes, Reads
    <2> QED BY <2>1, <2>2, <2>3
  <1>16. GradReady'
    <2> SUFFICES ASSUME NEW p \in Producers, stage[p] = "called"
                 PROVE  /\ block_stream[Grad(p)] = CurrentStream(p, device)
                        /\ \E r \in Streams : \E j \in 1 .. Len(work[r]) : GradMade(p, r, j)'
      BY <1>4 DEF GradReady, blocks, config, CurrentStream
    <2>1. PICK r \in Streams, j \in Nat : j \in 1 .. Len(work[r]) /\ GradMade(p, r, j)
      BY DEF SyncInv, GradReady
    <2>2. Made(Grad(p), r, j, {p})' /\ Last(Grad(p), r, j)'
      BY <1>10, <2>1, TensorTypes DEF GradMade
    <2>3. ProducerStream(p)' = ProducerStream(p)
      BY <1>4 DEF ProducerStream, CurrentStream, config
    <2>4. GradMade(p, r, j)'
      BY <1>4, <2>1, <2>2, <2>3 DEF GradMade
    <2> QED BY <2>1, <2>4 DEF SyncInv, GradReady
  <1>17. BufferReady'
    <2> SUFFICES ASSUME consumer \in {"idle", "ready"}, arrived # {}
                 PROVE  BufferReady'
      BY <1>4 DEF BufferReady
    <2>0. buffer \in Tensors
      BY DEF SyncInv, BufferReady
    <2>1. PICK r \in Streams, j \in Nat : j \in 1 .. Len(work[r]) /\ BufferMade(r, j)
      BY DEF SyncInv, BufferReady
    <2>2. Made(buffer, r, j, arrived)' /\ Last(buffer, r, j)'
      <3>1. buffer' = buffer /\ arrived' = arrived
        BY <1>4 DEF slot
      <3>2. PICK x \in Tensors : x = buffer
        BY <2>0
      <3>3. PICK v : v = arrived
        OBVIOUS
      <3>4. Made(x, r, j, v) /\ Last(x, r, j)
        BY <2>1, <3>2, <3>3 DEF BufferMade
      <3>5. Made(x, r, j, v)' /\ Last(x, r, j)'
        BY <1>10, <3>4
      <3>6. Made(buffer, r, j, arrived)'
        BY <3>1, <3>2, <3>3, <3>5 DEF Made, Writes
      <3>7. Last(buffer, r, j)'
        BY <3>1, <3>2, <3>5 DEF Last, Writes
      <3> QED BY <3>6, <3>7
    <2>3. BufferMade(r, j)'
      BY <1>4, <2>1, <2>2 DEF BufferMade, Awaited, slot, config
    <2> QED BY <1>4, <2>1, <2>3 DEF SyncInv, BufferReady, slot, config, blocks, Unread, Untouched
  <1>18. LeafReady'
    <2> SUFFICES ASSUME consumer \in {"called", "posted", "used"} PROVE LeafReady'
      BY <1>4 DEF LeafReady
    <2>1. PICK j \in Nat : j \in 1 .. Len(work[consumer_stream]) /\ LeafMade(j)
      BY DEF SyncInv, LeafReady
    <2>2. consumer_stream \in Streams /\ consumer_stream' = consumer_stream /\ arrived' = arrived
      BY <1>4 DEF SyncInv, IInv, TypeOK, config
    <2>3. Made(Leaf, consumer_stream, j, arrived)' /\ Last(Leaf, consumer_stream, j)'
      BY <1>10, <2>1, <2>2, TensorTypes DEF LeafMade, Made, Last
    <2>4. LeafMade(j)'
      BY <1>4, <2>1, <2>3 DEF LeafMade, CallerStream, LeafDevice, Current, config
    <2> QED BY <1>4, <2>1, <2>2, <2>4 DEF LeafReady
  <1> QED BY <1>12, <1>13, <1>14, <1>15, <1>16, <1>17, <1>18 DEF SyncInv

-----------------------------------------------------------------------------
(* The host *)
LEMMA NewOnly ==
  ASSUME NEW w \in Queues, NEW v, NEW s0, NEW k0, Grown(w, v, s0, k0), NEW t \in Streams, NEW m, NEW x
  PROVE  /\ Writes(w, t, m, x) => Writes(v, t, m, x) /\ v[t][m] = w[t][m]
         /\ Reads(w, t, m, x) => Reads(v, t, m, x) /\ v[t][m] = w[t][m]
         /\ Writes(v, t, m, x) => Writes(w, t, m, x) \/ (t = s0 /\ m = k0)
         /\ Reads(v, t, m, x) => Reads(w, t, m, x) \/ (t = s0 /\ m = k0)
  <1>1. Len(w[t]) \in Nat /\ Len(v[t]) \in Nat /\ Len(w[t]) <= Len(v[t])
    BY OpAt DEF Grown
  <1>2. ASSUME m \in 1 .. Len(w[t]) PROVE m \in 1 .. Len(v[t]) /\ v[t][m] = w[t][m]
    BY <1>1, <1>2 DEF Grown
  <1>3. ASSUME m \in 1 .. Len(v[t]), m \notin 1 .. Len(w[t]), v[t][m].kind # "wait"
        PROVE  t = s0 /\ m = k0
    <2>1. m \in Len(w[t]) + 1 .. Len(v[t])
      BY <1>1, <1>3
    <2> QED BY <1>3, <2>1 DEF Grown, GoodWait
  <1> QED BY <1>2, <1>3 DEF Writes, Reads, Readers

(* Queueing something leaves the devices where they are *)
LEMMA GrowKeeps ==
  ASSUME SyncInv, done' = done, content' = content, NEW s0, NEW k0, Grown(work, work', s0, k0)
  PROVE  /\ Cut(work', done')
         /\ \A r \in Streams, j \in Nat, s \in Streams, k \in Nat :
               k <= Len(work[s]) /\ HB(work, r, j, s, k) => HB(work', r, j, s, k)
         /\ \A x \in Tensors, r \in Streams, j \in Nat :
               /\ \A v : Made(x, r, j, v) => Made(x, r, j, v)'
               /\ j <= Len(work[r]) /\ Last(x, r, j) /\ ~Writes(work', s0, k0, x) => Last(x, r, j)'
  <1>1. done \in [Streams -> Nat] /\ work \in Queues /\ Cut(work, done) /\ Well(work) /\ work' \in Queues
    BY WellOps DEF SyncInv, IInv, TypeOK, NothingWrong, Grown
  <1>2. \A s \in Streams : Len(work[s]) \in Nat /\ Len(work'[s]) \in Nat /\ Len(work[s]) <= Len(work'[s])
    BY <1>1, OpAt DEF Grown
  <1>3. Cut(work', done)
    <2>1. ASSUME NEW s \in Streams PROVE done[s] <= Len(work[s]) /\ done[s] <= Len(work'[s])
      BY <1>1, <1>2 DEF Cut
    <2>2. ASSUME NEW s \in Streams, NEW i \in 1 .. Len(work'[s]), i <= done[s], work'[s][i].kind = "wait"
          PROVE  work'[s][i].event.count <= done[work'[s][i].event.stream]
      <3>1. i \in 1 .. Len(work[s])
        BY <1>1, <1>2, <2>1, <2>2
      <3>2. work'[s][i] = work[s][i]
        BY <3>1 DEF Grown
      <3> QED BY <1>1, <2>2, <3>1, <3>2 DEF Cut
    <2> QED BY <2>1, <2>2 DEF Cut
  <1>4. \A r \in Streams, j \in Nat, s \in Streams, k \in Nat :
               k <= Len(work[s]) /\ HB(work, r, j, s, k) => HB(work', r, j, s, k)
    BY <1>1, HBGrows
  <1>5. ASSUME NEW x \in Tensors, NEW r \in Streams, NEW j \in Nat, NEW v, Made(x, r, j, v) PROVE Made(x, r, j, v)'
    <2>1. Writes(work', r, j, x) /\ work'[r][j] = work[r][j]
      BY <1>1, <1>5, NewOnly DEF Made
    <2> QED BY <1>5, <2>1 DEF Made
  <1>6. ASSUME NEW x \in Tensors, NEW r \in Streams, NEW j \in Nat, j <= Len(work[r]), Last(x, r, j),
               ~Writes(work', s0, k0, x)
        PROVE  Last(x, r, j)'
    <2> SUFFICES ASSUME NEW t \in Streams, NEW m \in 1 .. Len(work'[t]), Writes(work', t, m, x)
                 PROVE  HB(work', t, m, r, j)
      BY DEF Last
    <2>1. Writes(work, t, m, x)
      BY <1>1, <1>6, NewOnly
    <2>2. HB(work, t, m, r, j) /\ m \in Nat
      BY <1>6, <2>1 DEF Last, Writes
    <2> QED BY <1>4, <1>6, <2>2
  <1> QED BY <1>3, <1>4, <1>5, <1>6

(* A kernel that waits to run still finds what it was meant to find, if what *)
(* is written now is written after it                                       *)
LEMMA FindsKept ==
  ASSUME SyncInv, done' = done, content' = content, NEW s0 \in Streams, NEW k0 \in Nat, Grown(work, work', s0, k0),
         NEW s \in Streams, NEW k \in 1 .. Len(work[s]), NEW x \in Tensors, NEW v, Finds(s, k, x, v),
         Writes(work', s0, k0, x) => HB(work', s, k, s0, k0)
  PROVE  Finds(s, k, x, v)'
  <1>1. work \in Queues /\ work' \in Queues
    BY DEF SyncInv, IInv, TypeOK, Grown
  <1>2. \A t \in Streams : Len(work[t]) \in Nat /\ Len(work'[t]) \in Nat /\ Len(work[t]) <= Len(work'[t])
    BY <1>1, OpAt DEF Grown
  <1>3. PICK r \in Streams, j \in Nat : j \in 1 .. Len(work[r]) /\ Supplied(s, k, x, r, j, v)
    BY <1>2 DEF Finds
  <1>4. k - 1 \in Nat /\ k - 1 <= Len(work[s]) /\ k \in Nat /\ k <= Len(work[s]) /\ j <= Len(work[r])
    BY <1>2, <1>3
  <1>5. Made(x, r, j, v)' /\ HB(work', r, j, s, k - 1)
    BY <1>3, <1>4, GrowKeeps DEF Supplied
  <1>6. ASSUME NEW t \in Streams, NEW m \in 1 .. Len(work'[t]), Writes(work', t, m, x)
        PROVE  HB(work', t, m, r, j) \/ HB(work', s, k, t, m)
    <2>1. CASE t = s0 /\ m = k0
      BY <1>6, <2>1
    <2>2. CASE Writes(work, t, m, x)
      <3>1. m \in 1 .. Len(work[t]) /\ m \in Nat /\ m <= Len(work[t])
        BY <1>2, <2>2 DEF Writes
      <3>2. HB(work, t, m, r, j) \/ HB(work, s, k, t, m)
        BY <1>3, <2>2, <3>1 DEF Supplied
      <3> QED BY <1>4, <3>1, <3>2, GrowKeeps
    <2> QED BY <1>1, <1>6, <2>1, <2>2, NewOnly
  <1>7. Supplied(s, k, x, r, j, v)'
    BY <1>5, <1>6 DEF Supplied
  <1>8. j \in 1 .. Len(work'[r])
    BY <1>2, <1>3
  <1> QED BY <1>7, <1>8 DEF Finds

LEMMA ReadersKept ==
  ASSUME SyncInv, done' = done, content' = content, NEW s0 \in Streams, NEW k0 \in Nat, Grown(work, work', s0, k0),
         \A x \in Tensors, s \in Streams : \A k \in 1 .. Len(work[s]) :
             done[s] < k /\ Reads(work, s, k, x) /\ Writes(work', s0, k0, x) => HB(work', s, k, s0, k0),
         work'[s0][k0].kind \in Readers /\ k0 \in 1 .. Len(work'[s0]) => KernelSupplied(s0, k0)'
  PROVE  ReadersSupplied'
  <1>1. work \in Queues /\ work' \in Queues
    BY DEF SyncInv, IInv, TypeOK, Grown
  <1>2. \A t \in Streams : Len(work[t]) \in Nat /\ Len(work'[t]) \in Nat /\ Len(work[t]) <= Len(work'[t])
    BY <1>1, OpAt DEF Grown
  <1> SUFFICES ASSUME NEW s \in Streams, NEW k \in 1 .. Len(work'[s]), done[s] < k, work'[s][k].kind \in Readers
               PROVE  KernelSupplied(s, k)'
    BY DEF ReadersSupplied
  <1>3. CASE s = s0 /\ k = k0
    BY <1>3
  <1>4. CASE ~(s = s0 /\ k = k0)
    <2>1. k \in 1 .. Len(work[s])
      <3>1. k \notin Len(work[s]) + 1 .. Len(work'[s])
        BY <1>4 DEF Grown, GoodWait, Readers
      <3> QED BY <1>2, <3>1
    <2>2. work'[s][k] = work[s][k]
      BY <2>1 DEF Grown
    <2>3. KernelSupplied(s, k)
      BY <2>1, <2>2 DEF SyncInv, ReadersSupplied
    <2>4. work[s][k].reads \subseteq Tensors
      BY <1>1, <2>1, <2>2, OpAt, OpKinds
    <2>5. ASSUME NEW x \in work[s][k].reads, NEW v, Finds(s, k, x, v) PROVE Finds(s, k, x, v)'
      <3>1. x \in Tensors /\ Reads(work, s, k, x)
        BY <2>1, <2>2, <2>4 DEF Reads
      <3> QED BY <2>1, <2>5, <3>1, FindsKept
    <2>6. \A x \in work[s][k].reads : \E v \in SUBSET work[s][k].want : Finds(s, k, x, v)'
      BY <2>3, <2>5 DEF KernelSupplied
    <2>7. \A q \in work[s][k].want : \E x \in work[s][k].reads :
             \E v \in SUBSET work[s][k].want : q \in v /\ Finds(s, k, x, v)'
      BY <2>3, <2>5 DEF KernelSupplied
    <2> QED BY <2>2, <2>6, <2>7 DEF KernelSupplied
  <1> QED BY <1>3, <1>4

LEMMA OpsKept ==
  ASSUME SyncInv, NEW s0 \in Streams, NEW k0 \in Nat, Grown(work, work', s0, k0),
         opt_accum_stream' = opt_accum_stream,
         k0 \in 1 .. Len(work'[s0]) =>
            OpRight(work', work'[s0][k0]) /\ (work'[s0][k0].kind = "sum" => s0 = opt_accum_stream)
  PROVE  OpsRight'
  <1>1. work \in Queues /\ work' \in Queues
    BY DEF SyncInv, IInv, TypeOK, Grown
  <1>2. \A t \in Streams : Len(work[t]) \in Nat /\ Len(work'[t]) \in Nat /\ Len(work[t]) <= Len(work'[t])
    BY <1>1, OpAt DEF Grown
  <1> SUFFICES ASSUME NEW s \in Streams, NEW k \in 1 .. Len(work'[s])
               PROVE  OpRight(work', work'[s][k]) /\ (work'[s][k].kind = "sum" => s = opt_accum_stream)
    BY DEF OpsRight
  <1>3. CASE s = s0 /\ k = k0
    BY <1>3
  <1>4. CASE ~(s = s0 /\ k = k0) /\ k \in 1 .. Len(work[s])
    <2>1. work'[s][k] = work[s][k] /\ work[s][k] \in Ops
      BY <1>1, <1>4, OpAt DEF Grown
    <2>2. OpRight(work, work[s][k]) /\ (work[s][k].kind = "sum" => s = opt_accum_stream)
      BY <1>4 DEF SyncInv, OpsRight
    <2>3. work[s][k].kind = "wait" => work[s][k].event.stream \in Streams /\ work[s][k].event.count \in Nat
      BY <2>1, OpKinds
    <2>4. work[s][k].kind = "wait" =>
             work[s][k].event.count <= Len(work'[work[s][k].event.stream])
      <3> SUFFICES ASSUME work[s][k].kind = "wait"
                   PROVE  work[s][k].event.count <= Len(work'[work[s][k].event.stream])
        OBVIOUS
      <3>1. PICK t \in Streams, n \in Nat : t = work[s][k].event.stream /\ n = work[s][k].event.count
        BY <2>3
      <3>2. n <= Len(work[t])
        BY <2>2, <3>1 DEF OpRight
      <3>3. n <= Len(work'[t])
        BY <1>2, <3>2
      <3> QED BY <3>1, <3>3
    <2>5. OpRight(work', work[s][k])
      BY <2>2, <2>4 DEF OpRight
    <2> QED BY <2>1, <2>2, <2>5
  <1>5. CASE ~(s = s0 /\ k = k0) /\ k \notin 1 .. Len(work[s])
    <2>1. k \in Len(work[s]) + 1 .. Len(work'[s])
      BY <1>2, <1>5
    <2>2. GoodWait(work', work'[s][k])
      BY <1>5, <2>1 DEF Grown
    <2> QED BY <2>2 DEF GoodWait, OpRight, Readers
  <1> QED BY <1>3, <1>4, <1>5

LEMMA TouchedKept ==
  ASSUME SyncInv, NEW s0 \in Streams, NEW k0 \in Nat, Grown(work, work', s0, k0),
         \A x \in Tensors : /\ Untouched(x)' => Untouched(x) /\ ~Writes(work', s0, k0, x)
                            /\ Unread(x)' => /\ Unread(x) /\ ~Reads(work', s0, k0, x)
                                             /\ free_events'[x] = free_events[x]
  PROVE  TouchedOnly'
  <1>1. work \in Queues
    BY DEF SyncInv, IInv, TypeOK
  <1> SUFFICES ASSUME NEW x \in Tensors
               PROVE  /\ Untouched(x)' => \A s \in Streams : \A k \in 1 .. Len(work'[s]) : ~Writes(work', s, k, x)
                      /\ Unread(x)' => /\ \A s \in Streams : \A k \in 1 .. Len(work'[s]) : ~Reads(work', s, k, x)
                                       /\ free_events'[x] = None
    BY DEF TouchedOnly
  <1>2. ASSUME Untouched(x)', NEW s \in Streams, NEW k \in 1 .. Len(work'[s]), Writes(work', s, k, x) PROVE FALSE
    <2>1. Writes(work, s, k, x)
      BY <1>1, <1>2, NewOnly
    <2> QED BY <1>2, <2>1 DEF SyncInv, TouchedOnly, Writes
  <1>3. ASSUME Unread(x)', NEW s \in Streams, NEW k \in 1 .. Len(work'[s]), Reads(work', s, k, x) PROVE FALSE
    <2>1. Reads(work, s, k, x)
      BY <1>1, <1>3, NewOnly
    <2> QED BY <1>3, <2>1 DEF SyncInv, TouchedOnly, Reads
  <1>4. Unread(x)' => free_events'[x] = None
    BY DEF SyncInv, TouchedOnly
  <1> QED BY <1>2, <1>3, <1>4

LEMMA CoveredKept ==
  ASSUME SyncInv, NEW s0 \in Streams, NEW k0 \in Nat, Grown(work, work', s0, k0), Blocks',
         \A x \in Tensors \ {Leaf} :
            /\ \/ block_stream'[x] = block_stream[x] /\ stream_uses[x] \subseteq stream_uses'[x]
               \/ Unread(x) /\ ~Reads(work', s0, k0, x)
            /\ Reads(work', s0, k0, x) => s0 = block_stream'[x] \/ s0 \in stream_uses'[x]
            /\ \/ /\ free_events'[x] = free_events[x]
                  /\ Reads(work', s0, k0, x) => free_events[x] = None
               \/ free_events'[x] = {EventOn(work', t) : t \in stream_uses'[x]}
  PROVE  Covered'
  <1>1. work \in Queues /\ work' \in Queues
    BY DEF SyncInv, IInv, TypeOK, Grown
  <1>2. \A t \in Streams : Len(work[t]) \in Nat /\ Len(work'[t]) \in Nat /\ Len(work[t]) <= Len(work'[t])
    BY <1>1, OpAt DEF Grown
  <1> SUFFICES ASSUME NEW x \in Tensors \ {Leaf}, NEW s \in Streams, NEW k \in 1 .. Len(work'[s]),
                      Reads(work', s, k, x)
               PROVE  /\ s = block_stream'[x] \/ s \in stream_uses'[x]
                      /\ free_events'[x] # None =>
                           s = block_stream'[x] \/ \E e \in free_events'[x] : e.stream = s /\ k <= e.count
    BY DEF Covered
  <1>3. ASSUME s = block_stream'[x] \/ s \in stream_uses'[x],
               free_events'[x] = {EventOn(work', t) : t \in stream_uses'[x]}
        PROVE  s = block_stream'[x] \/ \E e \in free_events'[x] : e.stream = s /\ k <= e.count
    <2>1. EventOn(work', s).stream = s /\ k <= EventOn(work', s).count
      BY <1>2 DEF EventOn
    <2> QED BY <1>3, <2>1
  <1>4. CASE s = s0 /\ k = k0
    BY <1>3, <1>4
  <1>5. CASE ~(s = s0 /\ k = k0)
    <2>1. Reads(work, s, k, x)
      BY <1>1, <1>5, NewOnly
    <2>2. k \in 1 .. Len(work[s])
      BY <2>1 DEF Reads
    <2>3. ~Unread(x)
      BY <2>1, <2>2 DEF SyncInv, TouchedOnly
    <2>4. block_stream'[x] = block_stream[x] /\ stream_uses[x] \subseteq stream_uses'[x]
      BY <2>3
    <2>5. /\ s = block_stream[x] \/ s \in stream_uses[x]
          /\ free_events[x] # None =>
                 s = block_stream[x] \/ \E e \in free_events[x] : e.stream = s /\ k <= e.count
      BY <2>1, <2>2 DEF SyncInv, Covered
    <2> QED BY <1>3, <2>4, <2>5
  <1> QED BY <1>4, <1>5

LEMMA GradKept ==
  ASSUME SyncInv, done' = done, content' = content, config' = config, NEW s0 \in Streams, NEW k0 \in Nat,
         Grown(work, work', s0, k0), NEW p \in Producers, stage[p] = "called",
         block_stream'[Grad(p)] = block_stream[Grad(p)], ~Writes(work', s0, k0, Grad(p))
  PROVE  /\ block_stream'[Grad(p)] = CurrentStream(p, device)'
         /\ \E r \in Streams : \E j \in 1 .. Len(work'[r]) : GradMade(p, r, j)'
  <1>1. work \in Queues /\ work' \in Queues
    BY DEF SyncInv, IInv, TypeOK, Grown
  <1>2. \A t \in Streams : Len(work[t]) \in Nat /\ Len(work'[t]) \in Nat /\ Len(work[t]) <= Len(work'[t])
    BY <1>1, OpAt DEF Grown
  <1>3. PICK r \in Streams, j \in Nat : j \in 1 .. Len(work[r]) /\ GradMade(p, r, j)
    BY DEF SyncInv, GradReady
  <1>4. PICK ps \in Streams : ps = ProducerStream(p)
    BY StreamTypes DEF SyncInv, IInv
  <1>5. ProducerStream(p)' = ps /\ CurrentStream(p, device)' = CurrentStream(p, device)
    BY <1>4 DEF ProducerStream, CurrentStream, config
  <1>6. Made(Grad(p), r, j, {p})' /\ Last(Grad(p), r, j)'
    BY <1>3, GrowKeeps, TensorTypes DEF GradMade
  <1>7. HB(work', r, j, ps, Len(work[ps]))
    BY <1>2, <1>3, <1>4, GrowKeeps DEF GradMade
  <1>8. HB(work', r, j, ps, Len(work'[ps]))
    BY <1>2, <1>7, HBLater
  <1>9. GradMade(p, r, j)'
    BY <1>5, <1>6, <1>8 DEF GradMade
  <1>10. j \in 1 .. Len(work'[r])
    BY <1>2, <1>3
  <1> QED BY <1>5, <1>9, <1>10 DEF SyncInv, GradReady

LEMMA BufferKept ==
  ASSUME SyncInv, done' = done, content' = content, config' = config, slot' = slot, arrived' = arrived,
         NEW s0 \in Streams, NEW k0 \in Nat, Grown(work, work', s0, k0),
         consumer \in {"idle", "ready"}, arrived # {}, ~Writes(work', s0, k0, buffer)
  PROVE  \E r \in Streams : \E j \in 1 .. Len(work'[r]) : BufferMade(r, j)'
  <1>1. work \in Queues /\ work' \in Queues
    BY DEF SyncInv, IInv, TypeOK, Grown
  <1>2. \A t \in Streams : Len(work[t]) \in Nat /\ Len(work'[t]) \in Nat /\ Len(work[t]) <= Len(work'[t])
    BY <1>1, OpAt DEF Grown
  <1>3. PICK r \in Streams, j \in Nat : j \in 1 .. Len(work[r]) /\ BufferMade(r, j)
    BY DEF SyncInv, BufferReady
  <1>4. /\ opt_accum_stream' = opt_accum_stream /\ ready_stream' = ready_stream /\ ready_event' = ready_event
        /\ buffer' = buffer /\ consumer_stream' = consumer_stream
    BY DEF slot, config
  <1>5. buffer \in Tensors /\ ready_stream \in Streams /\ (Awaited => ready_event \in Events)
    BY DEF SyncInv, BufferReady, IInv, Filled, Recorded, TypeOK, Awaited
  <1>6. Made(buffer, r, j, arrived)' /\ Last(buffer, r, j)'
    <2>1. PICK b \in Tensors : b = buffer
      BY <1>5
    <2>2. Made(b, r, j, arrived)' /\ Last(b, r, j)'
      <3>1. PICK a : a = arrived
        OBVIOUS
      <3>2. Made(b, r, j, a)' /\ Last(b, r, j)'
        BY <1>3, <2>1, <3>1, GrowKeeps DEF BufferMade
      <3> QED BY <3>1, <3>2
    <2> QED BY <1>4, <2>1, <2>2
  <1>7. HB(work', r, j, ready_stream, Len(work[ready_stream]))
    BY <1>2, <1>3, <1>5, GrowKeeps DEF BufferMade
  <1>8. HB(work', r, j, ready_stream, Len(work'[ready_stream]))
    BY <1>2, <1>5, <1>7, HBLater
  <1>9. ASSUME Awaited
        PROVE  /\ HB(work', r, j, ready_event.stream, ready_event.count)
               /\ ready_event.count <= Len(work'[ready_event.stream])
    <2>1. ready_event.stream \in Streams /\ ready_event.count \in Nat
      BY <1>5, <1>9 DEF Events
    <2>2. ready_event.count <= Len(work[ready_event.stream]) /\ HB(work, r, j, ready_event.stream, ready_event.count)
      BY <1>3, <1>9 DEF BufferMade
    <2> QED BY <1>2, <1>3, <2>1, <2>2, GrowKeeps
  <1>10. BufferMade(r, j)'
    BY <1>4, <1>6, <1>8, <1>9 DEF BufferMade, Awaited
  <1>11. j \in 1 .. Len(work'[r])
    BY <1>2, <1>3
  <1> QED BY <1>10, <1>11

LEMMA LeafKept ==
  ASSUME SyncInv, done' = done, content' = content, config' = config, arrived' = arrived,
         NEW s0 \in Streams, NEW k0 \in Nat, Grown(work, work', s0, k0),
         consumer' = "posted" => consumer = "posted", consumer \in {"called", "posted", "used"},
         ~Writes(work', s0, k0, Leaf)
  PROVE  LeafReady'
  <1>1. work \in Queues /\ work' \in Queues
    BY DEF SyncInv, IInv, TypeOK, Grown
  <1>2. \A t \in Streams : Len(work[t]) \in Nat /\ Len(work'[t]) \in Nat /\ Len(work[t]) <= Len(work'[t])
    BY <1>1, OpAt DEF Grown
  <1>3. PICK j \in Nat : j \in 1 .. Len(work[consumer_stream]) /\ LeafMade(j)
    BY DEF SyncInv, LeafReady
  <1>4. PICK cs \in Streams, ds \in Streams : cs = consumer_stream /\ ds = CallerStream(LeafDevice)
    BY StreamTypes DEF SyncInv, IInv, TypeOK
  <1>5. consumer_stream' = cs /\ CallerStream(LeafDevice)' = ds
    BY <1>4 DEF config, CallerStream, LeafDevice, Current
  <1>6. Made(Leaf, cs, j, arrived)' /\ Last(Leaf, cs, j)'
    <2>1. PICK a : a = arrived
      OBVIOUS
    <2>2. Made(Leaf, cs, j, a)' /\ Last(Leaf, cs, j)'
      BY <1>3, <1>4, <2>1, TensorTypes, GrowKeeps DEF LeafMade
    <2> QED BY <2>1, <2>2
  <1>7. ASSUME consumer = "posted" PROVE HB(work', cs, j, ds, Len(work'[ds]))
    <2>1. HB(work', cs, j, ds, Len(work[ds]))
      BY <1>2, <1>3, <1>4, <1>7, GrowKeeps DEF LeafMade
    <2> QED BY <1>2, <2>1, HBLater
  <1>8. LeafMade(j)'
    BY <1>4, <1>5, <1>6, <1>7 DEF LeafMade
  <1>9. j \in 1 .. Len(work'[cs])
    BY <1>2, <1>3, <1>4
  <1> QED BY <1>5, <1>8, <1>9 DEF LeafReady

-----------------------------------------------------------------------------
(* One lemma for each action *)
LEMMA CallProducerSync ==
  ASSUME SyncInv, NEW p \in Producers, CallProducer(p)
  PROVE  SyncInv'
  <1>1. /\ done \in [Streams -> Nat] /\ work \in Queues /\ Cut(work, done) /\ stage[p] = "idle"
        /\ stage \in [Producers -> {"idle", "called", "added"}]
    BY DEF SyncInv, IInv, TypeOK, NothingWrong, CallProducer
  <1>2. /\ done' = done /\ content' = content /\ config' = config /\ slot' = slot /\ arrived' = arrived
        /\ consumer' = consumer /\ wrong' = wrong /\ stream_uses' = stream_uses /\ free_events' = free_events
        /\ stage' = [stage EXCEPT ![p] = "called"]
        /\ block_stream' = [block_stream EXCEPT ![Grad(p)] = CurrentStream(p, device)]
    BY DEF CallProducer
  <1>3. PICK s0 \in Streams, ps \in Streams : s0 = CurrentStream(p, device) /\ ps = ProducerStream(p)
    BY StreamTypes DEF SyncInv, IInv
  <1>4. PICK op \in Ops : op = Kernel("grad", {}, Grad(p), {p}, {p})
    BY KernelType, TensorTypes
  <1>5. op.kind = "grad" /\ op.reads = {} /\ op.writes = Grad(p) /\ op.gives = {p} /\ op.want = {p}
    BY <1>4 DEF Kernel
  <1>6. Len(work[s0]) \in Nat /\ done[s0] <= Len(work[s0])
    BY <1>1, OpAt DEF Cut
  <1>7. PICK k0 \in Nat : k0 = Len(work[s0]) + 1
    BY <1>6
  <1>8. PICK w : w = Queue(work, s0, op)
    OBVIOUS
  <1>9. Grown(work, w, s0, k0) /\ w[s0][k0] = op /\ Len(w[s0]) = k0
    BY <1>1, <1>7, <1>8, GrownNot, GrownKernel
  <1>10. /\ Grown(work, work', s0, k0) /\ work'[s0][k0] = op /\ k0 \in 1 .. Len(work'[s0])
         /\ HB(work', s0, k0, ps, Len(work'[ps])) /\ Len(work'[ps]) \in Nat
    <2>1. CASE ps = s0
      <3>1. work' = w
        BY <1>3, <1>4, <1>8, <2>1 DEF CallProducer
      <3>2. k0 \in 1 .. Len(w[s0])
        BY <1>6, <1>7, <1>9
      <3>3. HB(w, s0, k0, ps, Len(w[ps]))
        BY <1>9, <2>1, HBOrder
      <3> QED BY <1>9, <2>1, <3>1, <3>2, <3>3
    <2>2. CASE ps # s0
      <3>1. w \in Queues
        BY <1>9 DEF Grown
      <3>2. PICK e \in Events : e = EventOn(w, s0) /\ e # None
        BY <3>1, EventOnType
      <3>3. e.stream = s0 /\ e.count = k0
        BY <1>9, <3>2 DEF EventOn
      <3>4. work' = Queue(w, ps, Wait(e))
        BY <1>3, <1>4, <1>8, <2>2, <3>2 DEF CallProducer, Follow, WaitFor
      <3>5. /\ Grown(work, work', s0, k0) /\ Grown(w, work', s0, 0)
            /\ work'[ps][Len(work'[ps])] = Wait(e) /\ Len(work'[ps]) = Len(w[ps]) + 1
        BY <1>1, <1>9, <3>3, <3>4, GrownWait
      <3>6. work' \in Queues
        BY <3>5 DEF Grown
      <3>7. Len(work'[ps]) \in Nat /\ Len(work'[ps]) \in 1 .. Len(work'[ps]) /\ k0 \in 1 .. Len(w[s0])
        BY <1>6, <1>7, <1>9, <3>1, <3>5, <3>6, OpAt
      <3>8. work'[s0][k0] = op
        BY <1>9, <3>5, <3>7 DEF Grown
      <3>9. HB(work', s0, k0, ps, Len(work'[ps]))
        BY <3>3, <3>5, <3>7, HBWait
      <3>10. k0 \in 1 .. Len(work'[s0])
        <4>1. Len(w[s0]) <= Len(work'[s0]) /\ Len(work'[s0]) \in Nat
          BY <3>5, <3>6, OpAt DEF Grown
        <4> QED BY <1>9, <3>7, <4>1
      <3> QED BY <3>5, <3>7, <3>8, <3>9, <3>10
    <2> QED BY <2>1, <2>2
  <1>11. \A x : /\ Writes(work', s0, k0, x) <=> x = Grad(p)
                /\ ~Reads(work', s0, k0, x)
    BY <1>5, <1>10 DEF Writes, Reads, Readers
  <1>12. Untouched(Grad(p)) /\ Grad(p) \in Tensors
    BY <1>1, TensorTypes DEF Untouched
  <1>13. \A x \in Tensors : /\ Untouched(x)' => Untouched(x) /\ x # Grad(p)
                            /\ Unread(x)' => Unread(x)
    BY <1>1, <1>2, TensorsDiffer DEF Untouched, Unread
  <1>14. IInv'
    BY CallProducerIInv DEF SyncInv
  <1>15. Blocks' /\ NothingWrong'
    BY <1>2, <1>3, <1>10, GrowKeeps DEF SyncInv, Blocks, NothingWrong
  <1>16. OpsRight'
    <2>1. OpRight(work', op) /\ op.kind # "sum"
      BY <1>5 DEF OpRight, Readers
    <2> QED BY <1>2, <1>10, <2>1, OpsKept DEF slot
  <1>17. \A s \in Streams : \A k \in 1 .. Len(work[s]) : ~Reads(work, s, k, Grad(p)) /\ ~Writes(work, s, k, Grad(p))
    BY <1>12 DEF SyncInv, TouchedOnly, Unread
  <1>18. ReadersSupplied'
    <2>1. work'[s0][k0].kind \notin Readers
      BY <1>5, <1>10 DEF Readers
    <2> QED BY <1>2, <1>10, <1>11, <1>17, <2>1, ReadersKept
  <1>19. TouchedOnly'
    BY <1>2, <1>10, <1>11, <1>13, TouchedKept
  <1>20. Covered'
    <2>1. ASSUME NEW x \in Tensors \ {Leaf}
          PROVE  \/ block_stream'[x] = block_stream[x] /\ stream_uses[x] \subseteq stream_uses'[x]
                 \/ Unread(x) /\ ~Reads(work', s0, k0, x)
      BY <1>2, <1>11, <1>12 DEF SyncInv, Blocks, Unread
    <2> QED BY <1>2, <1>10, <1>11, <1>15, <2>1, CoveredKept
  <1>21. FreeIsDone'
    BY <1>2 DEF SyncInv, FreeIsDone, slot
  <1>22. GradMade(p, s0, k0)'
    <2>1. done[s0] < k0
      BY <1>1, <1>6, <1>7
    <2>2. Made(Grad(p), s0, k0, {p})'
      BY <1>1, <1>2, <1>5, <1>10, <1>11, <2>1 DEF Made
    <2>3. ASSUME NEW t \in Streams, NEW m \in 1 .. Len(work'[t]), Writes(work', t, m, Grad(p))
          PROVE  t = s0 /\ m = k0
      <3>1. ~Writes(work, t, m, Grad(p))
        BY <1>17 DEF Writes
      <3> QED BY <1>1, <1>10, <2>3, <3>1, NewOnly
    <2>4. Last(Grad(p), s0, k0)'
      BY <2>3, HBOrder DEF Last
    <2>5. ProducerStream(p)' = ps
      BY <1>2, <1>3 DEF ProducerStream, CurrentStream, config
    <2> QED BY <1>10, <2>2, <2>4, <2>5 DEF GradMade
  <1>23. GradReady'
    <2> SUFFICES ASSUME NEW q \in Producers, stage'[q] = "called"
                 PROVE  /\ block_stream'[Grad(q)] = CurrentStream(q, device)'
                        /\ \E r \in Streams : \E j \in 1 .. Len(work'[r]) : GradMade(q, r, j)'
      BY DEF GradReady
    <2>1. CASE q = p
      <3>1. block_stream'[Grad(p)] = CurrentStream(p, device)'
        BY <1>2, <1>12 DEF SyncInv, Blocks, CurrentStream, config
      <3> QED BY <1>10, <1>22, <2>1, <3>1
    <2>2. CASE q # p
      <3>1. stage[q] = "called" /\ Grad(q) # Grad(p)
        BY <1>1, <1>2, <2>2, TensorsDiffer
      <3>2. block_stream'[Grad(q)] = block_stream[Grad(q)] /\ ~Writes(work', s0, k0, Grad(q))
        BY <1>2, <1>11, <3>1 DEF SyncInv, Blocks
      <3> QED BY <1>2, <1>10, <3>1, <3>2, GradKept
    <2> QED BY <2>1, <2>2
  <1>24. BufferReady'
    <2> SUFFICES ASSUME consumer \in {"idle", "ready"}, arrived # {} PROVE BufferReady'
      BY <1>2 DEF BufferReady
    <2>1. /\ buffer \in Tensors \ {Leaf} /\ ~Unread(buffer)
          /\ DeviceOf[opt_accum_stream] = device
          /\ DeviceOf[consumer_stream] = device => opt_accum_stream = consumer_stream
          /\ opt_accum_stream \in {ready_stream, consumer_stream} =>
                opt_accum_stream = block_stream[buffer] \/ opt_accum_stream \in stream_uses[buffer]
      BY DEF SyncInv, BufferReady
    <2>2. buffer # Grad(p)
      BY <1>12, <2>1 DEF Unread
    <2>3. \E r \in Streams : \E j \in 1 .. Len(work'[r]) : BufferMade(r, j)'
      BY <1>2, <1>10, <1>11, <2>2, BufferKept
    <2>4. block_stream'[buffer] = block_stream[buffer]
      BY <1>2, <2>1, <2>2 DEF SyncInv, Blocks
    <2>5. ~Unread(buffer)'
      <3>1. PICK b \in Tensors : b = buffer
        BY <2>1
      <3>2. ~Unread(b)'
        BY <1>13, <2>1, <3>1
      <3>3. buffer' = buffer
        BY <1>2 DEF slot
      <3> QED BY <3>1, <3>2, <3>3
    <2> QED BY <1>2, <2>1, <2>3, <2>4, <2>5 DEF BufferReady, slot, config
  <1>25. LeafReady'
    <2>1. CASE consumer \in {"called", "posted", "used"}
      BY <1>2, <1>10, <1>11, <2>1, TensorsDiffer, LeafKept
    <2>2. CASE consumer \notin {"called", "posted", "used"}
      BY <1>2, <2>2 DEF LeafReady
    <2> QED BY <2>1, <2>2
  <1> QED BY <1>14, <1>15, <1>16, <1>18, <1>19, <1>20, <1>21, <1>23, <1>24, <1>25 DEF SyncInv

(* An add() gives p's tensors away and touches no others *)
LEMMA AddedTouches ==
  ASSUME SyncInv, NEW p \in Producers, Added(p)
  PROVE  /\ stage[p] = "called" /\ consumer = "idle" /\ consumer' \in {"idle", "ready"}
         /\ done' = done /\ content' = content /\ config' = config
         /\ \A q \in Producers : stage'[q] = "called" => q # p /\ stage[q] = "called"
         /\ \A x \in Tensors : /\ Untouched(x)' => Untouched(x)
                               /\ Unread(x)' => Unread(x) /\ x # Grad(p) /\ x # Sum(p)
         /\ Unread(Grad(p)) /\ Untouched(Sum(p)) /\ Untouched(Leaf)
  <1>1. /\ stage \in [Producers -> {"idle", "called", "added"}] /\ stage[p] = "called"
        /\ stage' = [stage EXCEPT ![p] = "added"] /\ consumer = "idle" /\ consumer' \in {"idle", "ready"}
    BY AddedStep DEF SyncInv, IInv, TypeOK, Added
  <1>2. done' = done /\ content' = content /\ config' = config
    BY DEF Added
  <1>3. \A x \in Tensors : /\ Untouched(x)' => Untouched(x)
                           /\ Unread(x)' => Unread(x) /\ x # Grad(p) /\ x # Sum(p)
    BY <1>1, TensorsDiffer DEF Untouched, Unread
  <1>4. Unread(Grad(p)) /\ Untouched(Sum(p)) /\ Untouched(Leaf)
    BY <1>1 DEF Untouched, Unread
  <1> QED BY <1>1, <1>2, <1>3, <1>4

LEMMA AddUndefinedSync ==
  ASSUME SyncInv, NEW p \in Producers, AddUndefined(p)
  PROVE  SyncInv'
  <1>1. /\ Added(p) /\ arrived' = arrived /\ slot' = slot /\ work' = work /\ wrong' = wrong
        /\ block_stream' = block_stream /\ stream_uses' = stream_uses /\ free_events' = free_events
    BY DEF AddUndefined
  <1>2. /\ stage[p] = "called" /\ consumer = "idle" /\ consumer' \in {"idle", "ready"}
        /\ done' = done /\ content' = content /\ config' = config
    BY <1>1, AddedTouches
  <1>3. PICK s0 \in Streams : s0 = consumer_stream
    BY DEF SyncInv, IInv, TypeOK
  <1>4. Grown(work, work', s0, 0)
    BY <1>1, GrownNot DEF SyncInv, IInv, TypeOK
  <1>5. \A x : ~Writes(work', s0, 0, x) /\ ~Reads(work', s0, 0, x)
    BY DEF Writes, Reads
  <1>6. IInv'
    BY AddUndefinedIInv DEF SyncInv
  <1>7. Blocks' /\ NothingWrong' /\ ReadersSupplied' /\ OpsRight'
    <2>1. Blocks' /\ NothingWrong'
      BY <1>1, <1>2 DEF SyncInv, Blocks, NothingWrong
    <2>2. ReadersSupplied'
      BY <1>2, <1>4, <1>5, ReadersKept
    <2>3. OpsRight'
      BY <1>1, <1>4, OpsKept DEF slot
    <2> QED BY <2>1, <2>2, <2>3
  <1>8. TouchedOnly'
    BY <1>1, <1>4, <1>5, AddedTouches, TouchedKept
  <1>9. Covered' /\ FreeIsDone'
    BY <1>1, <1>2 DEF SyncInv, Covered, FreeIsDone, Reads, slot
  <1>10. GradReady'
    BY <1>1, <1>2, <1>4, <1>5, AddedTouches, GradKept DEF GradReady
  <1>11. BufferReady'
    <2> SUFFICES ASSUME arrived # {} PROVE BufferReady'
      BY <1>1 DEF BufferReady
    <2>1. /\ buffer \in Tensors \ {Leaf} /\ ~Unread(buffer)
          /\ DeviceOf[opt_accum_stream] = device
          /\ DeviceOf[consumer_stream] = device => opt_accum_stream = consumer_stream
          /\ opt_accum_stream \in {ready_stream, consumer_stream} =>
                opt_accum_stream = block_stream[buffer] \/ opt_accum_stream \in stream_uses[buffer]
      BY <1>2 DEF SyncInv, BufferReady
    <2>2. \E r \in Streams : \E j \in 1 .. Len(work'[r]) : BufferMade(r, j)'
      BY <1>1, <1>2, <1>4, <1>5, BufferKept
    <2>3. ~Unread(buffer)'
      <3>1. PICK b \in Tensors : b = buffer
        BY <2>1
      <3>2. ~Unread(b)'
        BY <1>1, <2>1, <3>1, AddedTouches
      <3>3. buffer' = buffer
        BY <1>1 DEF slot
      <3> QED BY <3>1, <3>2, <3>3
    <2> QED BY <1>1, <1>2, <2>1, <2>2, <2>3 DEF BufferReady, slot, config
  <1>12. LeafReady'
    BY <1>2 DEF LeafReady
  <1> QED BY <1>6, <1>7, <1>8, <1>9, <1>10, <1>11, <1>12 DEF SyncInv

(* A stream of the gradient's device is where the gradient was made *)
LEMMA MadeOnDevice ==
  ASSUME SyncInv, NEW p \in Producers
  PROVE  /\ DeviceOf[ProducerStream(p)] = device => CurrentStream(p, device) = ProducerStream(p)
         /\ DeviceOf[AccumStream(p)] = device
         /\ DeviceOf[consumer_stream] = device => AccumStream(p) = consumer_stream
  <1>1. /\ node_stream \in [Producers -> Streams \cup {None}] /\ device \in Devices
        /\ consumer_stream \in Streams /\ caller_stream \in Streams
    BY DEF SyncInv, IInv, TypeOK
  <1>2. \A s \in Streams : DeviceOf[Current(s, device)] = device
    BY <1>1, InputBufferAssumption DEF Current
  <1>3. DeviceOf[CurrentStream(p, device)] = device
    BY <1>1, <1>2 DEF CurrentStream
  <1>4. DeviceOf[ProducerStream(p)] = device => CurrentStream(p, device) = ProducerStream(p)
    BY <1>1 DEF ProducerStream, CurrentStream, Current
  <1>5. DeviceOf[AccumStream(p)] = device
    BY <1>3 DEF AccumStream
  <1> QED BY <1>4, <1>5 DEF AccumStream

LEMMA AddFirstSync ==
  ASSUME SyncInv, NEW p \in Producers, AddFirst(p)
  PROVE  SyncInv'
  <1>1. /\ Added(p) /\ opt_accum_stream = None /\ arrived' = {p} /\ buffer' = Grad(p)
        /\ opt_accum_stream' = AccumStream(p) /\ ready_stream' = ProducerStream(p)
        /\ ready_event' = IF NeedsEvent(p) THEN EventOn(work, ProducerStream(p)) ELSE ready_event
        /\ stream_uses' = IF AccumStream(p) = consumer_stream /\ consumer_stream # ProducerStream(p)
                            THEN RecordStream(stream_uses, Grad(p), consumer_stream)
                            ELSE stream_uses
        /\ work' = work /\ wrong' = wrong /\ block_stream' = block_stream /\ free_events' = free_events
    BY DEF AddFirst
  <1>2. /\ stage[p] = "called" /\ consumer = "idle" /\ consumer' \in {"idle", "ready"}
        /\ done' = done /\ content' = content /\ config' = config
    BY <1>1, AddedTouches
  <1>3. PICK ps \in Streams, as \in Streams, s0 \in Streams :
           ps = ProducerStream(p) /\ as = AccumStream(p) /\ s0 = consumer_stream
    BY StreamTypes DEF SyncInv, IInv, TypeOK
  <1>4. Grown(work, work', s0, 0)
    BY <1>1, GrownNot DEF SyncInv, IInv, TypeOK
  <1>5. \A x : ~Writes(work', s0, 0, x) /\ ~Reads(work', s0, 0, x)
    BY DEF Writes, Reads
  <1>6. IInv'
    BY AddFirstIInv DEF SyncInv
  <1>7. Grad(p) \in Tensors /\ Grad(p) # Leaf /\ stream_uses \in [Tensors -> SUBSET Streams]
    BY TensorTypes, TensorsDiffer DEF SyncInv, Blocks
  <1>8. /\ stream_uses' \in [Tensors -> SUBSET Streams]
        /\ \A x \in Tensors : stream_uses[x] \subseteq stream_uses'[x]
    BY <1>1, <1>3, <1>7 DEF RecordStream
  <1>9. Blocks' /\ NothingWrong'
    BY <1>1, <1>2, <1>8 DEF SyncInv, Blocks, NothingWrong
  <1>10. ReadersSupplied'
    BY <1>2, <1>4, <1>5, ReadersKept
  <1>11. OpsRight'
    <2>1. None \notin Streams
      BY InputBufferAssumption
    <2>2. \A s \in Streams : \A k \in 1 .. Len(work[s]) :
             OpRight(work, work[s][k]) /\ work[s][k].kind # "sum"
      BY <1>1, <2>1 DEF SyncInv, OpsRight
    <2> QED BY <1>1, <2>2 DEF OpsRight
  <1>12. TouchedOnly'
    BY <1>1, <1>4, <1>5, AddedTouches, TouchedKept
  <1>13. Covered'
    BY <1>1, <1>4, <1>5, <1>8, <1>9, CoveredKept
  <1>14. free_events[Grad(p)] = None
    BY <1>1, <1>7, AddedTouches DEF SyncInv, TouchedOnly
  <1>15. FreeIsDone'
    BY <1>1, <1>7, <1>14 DEF SyncInv, FreeIsDone
  <1>16. GradReady'
    BY <1>1, <1>2, <1>4, <1>5, AddedTouches, GradKept DEF GradReady
  <1>17. BufferReady'
    <2>1. PICK r \in Streams, j \in Nat : j \in 1 .. Len(work[r]) /\ GradMade(p, r, j)
      BY <1>2 DEF SyncInv, GradReady
    <2>2. block_stream[Grad(p)] = CurrentStream(p, device)
      BY <1>2 DEF SyncInv, GradReady
    <2>3. BufferMade(r, j)'
      <3>1. Made(Grad(p), r, j, {p}) /\ Last(Grad(p), r, j) /\ HB(work, r, j, ps, Len(work[ps]))
        BY <1>3, <2>1 DEF GradMade
      <3>2. Made(buffer, r, j, arrived)' /\ Last(buffer, r, j)'
        BY <1>1, <1>2, <3>1 DEF Made, Last, Writes
      <3>3. ASSUME Awaited' PROVE ready_event' = EventOn(work, ps)
        BY <1>1, <1>2, <1>3, <3>3 DEF Awaited, NeedsEvent, config
      <3>4. EventOn(work, ps).stream = ps /\ EventOn(work, ps).count = Len(work[ps]) /\ Len(work[ps]) \in Nat
        BY OpAt DEF EventOn, SyncInv, IInv, TypeOK
      <3> QED BY <1>1, <1>3, <3>1, <3>2, <3>3, <3>4 DEF BufferMade
    <2>4. ~Unread(Grad(p))'
      BY <1>1, <1>7, AddedTouches
    <2>5. ASSUME as \in {ps, s0} PROVE as = block_stream[Grad(p)] \/ as \in stream_uses'[Grad(p)]
      <3>1. CASE as = ps
        BY <1>3, <2>2, <3>1, MadeOnDevice
      <3>2. CASE as # ps
        <4>1. as = s0 /\ DeviceOf[as] = device
          BY <1>3, <2>5, <3>2, MadeOnDevice
        <4>2. stream_uses' = RecordStream(stream_uses, Grad(p), as)
          BY <1>1, <1>3, <3>2, <4>1
        <4> QED BY <1>7, <4>1, <4>2 DEF RecordStream
      <3> QED BY <3>1, <3>2
    <2>6. /\ DeviceOf[as] = device
          /\ DeviceOf[s0] = device => as = s0
      BY <1>3, MadeOnDevice
    <2>7. device' = device /\ consumer_stream' = s0
      BY <1>2, <1>3 DEF config
    <2>8. buffer' \in Tensors \ {Leaf} /\ ~Unread(buffer)'
      BY <1>1, <1>7, <2>4 DEF Unread, Untouched
    <2> QED BY <1>1, <1>3, <2>1, <2>3, <2>5, <2>6, <2>7, <2>8 DEF BufferReady
  <1>18. LeafReady'
    BY <1>2 DEF LeafReady
  <1> QED BY <1>6, <1>9, <1>10, <1>11, <1>12, <1>13, <1>15, <1>16, <1>17, <1>18 DEF SyncInv

-----------------------------------------------------------------------------
LEMMA DropBufferSync ==
  ASSUME SyncInv, DropBuffer
  PROVE  SyncInv'
  <1>1. /\ consumer = "called" /\ buffer # None /\ buffer' = None /\ free_events' = Freed(work, stream_uses, {buffer})
        /\ config' = config /\ stage' = stage /\ consumer' = consumer /\ arrived' = arrived
        /\ opt_accum_stream' = opt_accum_stream /\ work' = work /\ done' = done /\ content' = content
        /\ wrong' = wrong /\ block_stream' = block_stream /\ stream_uses' = stream_uses
    BY DEF DropBuffer
  <1>2. PICK s0 \in Streams : s0 = consumer_stream
    BY DEF SyncInv, IInv, TypeOK
  <1>3. Grown(work, work', s0, 0) /\ work \in Queues
    BY <1>1, GrownNot DEF SyncInv, IInv, TypeOK
  <1>4. \A x : ~Writes(work', s0, 0, x) /\ ~Reads(work', s0, 0, x)
    BY DEF Writes, Reads
  <1>5. IInv'
    BY DropBufferIInv DEF SyncInv
  <1>6. \A x \in Tensors : free_events'[x] = IF x = buffer THEN {EventOn(work, s) : s \in stream_uses[x]}
                                                        ELSE free_events[x]
    BY <1>1 DEF Freed
  <1>7. Blocks'
    <2>1. \A x \in Tensors : stream_uses[x] \subseteq Streams
      BY DEF SyncInv, Blocks
    <2>2. ASSUME NEW x \in Tensors PROVE {EventOn(work, s) : s \in stream_uses[x]} \in SUBSET Events
      BY <1>3, <2>1, EventOnType
    <2>3. free_events' \in [Tensors -> (SUBSET Events) \cup {None}]
      BY <1>1, <2>2 DEF Freed, SyncInv, Blocks
    <2> QED BY <1>1, <2>3 DEF SyncInv, Blocks
  <1>8. NothingWrong' /\ OpsRight'
    BY <1>1 DEF SyncInv, NothingWrong, OpsRight, OpRight
  <1>9. ReadersSupplied'
    BY <1>1, <1>3, <1>4, ReadersKept
  <1>10. Covered'
    <2>1. ASSUME NEW x \in Tensors \ {Leaf}
          PROVE  \/ free_events'[x] = free_events[x]
                 \/ free_events'[x] = {EventOn(work', t) : t \in stream_uses'[x]}
      BY <1>1, <1>6
    <2> QED BY <1>1, <1>3, <1>4, <1>7, <2>1, CoveredKept
  <1>11. FreeIsDone'
    <2>1. Leaf \in Tensors /\ buffer # Leaf /\ None # Leaf
      BY TensorTypes, NoneIsNoTensor DEF SyncInv, FreeIsDone
    <2> QED BY <1>1, <1>6, <2>1 DEF SyncInv, FreeIsDone
  <1>12. \A q \in Producers : stage[q] = "added"
    BY <1>1 DEF SyncInv, IInv, Filled
  <1>13. TouchedOnly'
    <2>1. \A x \in Tensors : ~(Unread(x)') /\ ~(Untouched(x)')
      BY <1>1, <1>12 DEF Unread, Untouched
    <2> QED BY <1>3, <2>1, TouchedKept
  <1>14. GradReady' /\ BufferReady'
    BY <1>1, <1>12 DEF GradReady, BufferReady
  <1>15. LeafReady'
    BY <1>1, <1>3, <1>4, LeafKept
  <1> QED BY <1>5, <1>7, <1>8, <1>9, <1>10, <1>11, <1>13, <1>14, <1>15 DEF SyncInv

(* The consumer's kernel is queued behind the sum *)
LEMMA CallConsumerSync ==
  ASSUME SyncInv, CallConsumer
  PROVE  SyncInv'
  <1>1. /\ consumer = "ready" /\ arrived # {} /\ consumer' = "called"
        /\ config' = config /\ stage' = stage /\ arrived' = arrived /\ slot' = slot /\ done' = done
        /\ content' = content /\ block_stream' = block_stream /\ free_events' = free_events
        /\ stream_uses' = IF DeviceOf[consumer_stream] = device THEN stream_uses
                          ELSE [stream_uses EXCEPT ![buffer] = @ \cup {consumer_stream}]
        /\ wrong' = IF ConsumerWaits /\ ready_event = None THEN wrong \cup {"event"} ELSE wrong
    BY DEF CallConsumer
  <1>2. PICK s0 \in Streams : s0 = consumer_stream
    BY DEF SyncInv, IInv, TypeOK
  <1>3. /\ done \in [Streams -> Nat] /\ work \in Queues /\ Cut(work, done)
        /\ Len(work[s0]) \in Nat /\ done[s0] <= Len(work[s0])
    BY OpAt DEF SyncInv, IInv, TypeOK, NothingWrong, Cut
  <1>4. /\ buffer \in Tensors \ {Leaf} /\ ~Unread(buffer) /\ ready_stream \in Streams
        /\ DeviceOf[consumer_stream] = device => opt_accum_stream = consumer_stream
        /\ opt_accum_stream \in {ready_stream, consumer_stream} =>
              opt_accum_stream = block_stream[buffer] \/ opt_accum_stream \in stream_uses[buffer]
        /\ ConsumerWaits => ready_event \in Events /\ ready_event # None
    BY <1>1 DEF SyncInv, BufferReady, IInv, Filled, Recorded, TypeOK, ConsumerWaits
  <1>5. PICK r \in Streams, j \in Nat : j \in 1 .. Len(work[r]) /\ BufferMade(r, j)
    BY <1>1 DEF SyncInv, BufferReady
  <1>6. PICK op \in Ops : op = Kernel("leaf", {buffer}, Leaf, {}, arrived)
    BY <1>4, KernelType, TensorTypes DEF SyncInv, IInv, TypeOK
  <1>7. op.kind = "leaf" /\ op.reads = {buffer} /\ op.writes = Leaf /\ op.gives = {} /\ op.want = arrived
    BY <1>6 DEF Kernel
  <1>8. PICK w : w = IF ConsumerWaits THEN WaitFor(work, s0, ready_event) ELSE work
    OBVIOUS
  <1>9. work' = Queue(w, s0, op)
    BY <1>2, <1>6, <1>8 DEF CallConsumer
  <1>10. /\ Grown(work, w, s0, 0)
         /\ ConsumerWaits => w[s0][Len(w[s0])] = Wait(ready_event) /\ Len(w[s0]) = Len(work[s0]) + 1
    <2>1. CASE ConsumerWaits
      <3>1. w = Queue(work, s0, Wait(ready_event)) /\ ready_event \in Events
        BY <1>4, <1>8, <2>1 DEF WaitFor
      <3>2. ready_event.count <= Len(work[ready_event.stream])
        BY <1>2, <1>5, <2>1 DEF BufferMade, Awaited, ConsumerWaits
      <3> QED BY <1>3, <3>1, <3>2, GrownNot, GrownWait
    <2>2. CASE ~ConsumerWaits
      BY <1>3, <1>8, <2>2, GrownNot
    <2> QED BY <2>1, <2>2
  <1>11. w \in Queues /\ Len(w[s0]) \in Nat /\ Len(work[s0]) <= Len(w[s0])
    BY <1>10, OpAt DEF Grown
  <1>12. PICK k0 \in Nat : k0 = Len(w[s0]) + 1
    BY <1>11
  <1>13. /\ Grown(work, work', s0, k0) /\ Len(work'[s0]) = k0 /\ work'[s0][k0] = op
         /\ \A i \in 1 .. Len(w[s0]) : work'[s0][i] = w[s0][i]
    BY <1>3, <1>9, <1>10, <1>12, GrownKernel
  <1>14. k0 \in 1 .. Len(work'[s0]) /\ k0 - 1 \in Nat /\ k0 - 1 = Len(w[s0]) /\ done[s0] < k0 /\ ~(k0 <= done[s0])
    BY <1>3, <1>11, <1>12, <1>13
  <1>15. \A x : /\ Writes(work', s0, k0, x) <=> x = Leaf
                /\ Reads(work', s0, k0, x) <=> x = buffer
    BY <1>7, <1>13, <1>14 DEF Writes, Reads, Readers
  <1>16. Untouched(Leaf) /\ Leaf \in Tensors
    BY <1>1, TensorTypes DEF Untouched
  <1>17. \A s \in Streams : \A k \in 1 .. Len(work[s]) : ~Reads(work, s, k, Leaf) /\ ~Writes(work, s, k, Leaf)
    BY <1>16 DEF SyncInv, TouchedOnly, Unread
  <1>18. HB(work', r, j, s0, k0 - 1)
    <2>1. CASE ConsumerWaits
      <3>1. /\ ready_event \in Events /\ ready_event.stream \in Streams /\ ready_event.count \in Nat
            /\ HB(work, r, j, ready_event.stream, ready_event.count)
            /\ ready_event.count <= Len(work[ready_event.stream])
        BY <1>2, <1>4, <1>5, <2>1 DEF BufferMade, Awaited, ConsumerWaits, Events
      <3>2. HB(work', r, j, ready_event.stream, ready_event.count)
        BY <1>1, <1>5, <1>13, <3>1, GrowKeeps
      <3>3. k0 - 1 \in 1 .. Len(w[s0]) /\ k0 - 1 \in 1 .. Len(work'[s0]) /\ w[s0][k0 - 1] = Wait(ready_event)
        BY <1>3, <1>10, <1>13, <1>14, <2>1
      <3>4. work'[s0][k0 - 1] = Wait(ready_event)
        BY <1>13, <3>3
      <3>5. HB(work', ready_event.stream, ready_event.count, s0, k0 - 1)
        BY <1>14, <3>1, <3>3, <3>4, HBWait
      <3> QED BY <1>14, <3>1, <3>2, <3>5, HBTrans
    <2>2. CASE ~ConsumerWaits
      <3>1. HB(work, r, j, s0, Len(work[s0]))
        BY <1>2, <1>5, <2>2 DEF BufferMade, ConsumerWaits
      <3>2. HB(work', r, j, s0, Len(work[s0]))
        BY <1>1, <1>3, <1>5, <1>13, <3>1, GrowKeeps
      <3> QED BY <1>3, <1>11, <1>14, <3>2, HBLater
    <2> QED BY <2>1, <2>2
  <1>19. KernelSupplied(s0, k0)'
    <2>1. PICK b \in Tensors, a \in SUBSET Producers : b = buffer /\ a = arrived
      BY <1>4 DEF SyncInv, IInv, TypeOK
    <2>2. Made(b, r, j, a)' /\ Last(b, r, j)'
      <3>1. ~Writes(work', s0, k0, b)
        BY <1>4, <1>15, <2>1
      <3>2. j <= Len(work[r]) /\ Made(b, r, j, a) /\ Last(b, r, j)
        BY <1>5, <2>1 DEF BufferMade
      <3> QED BY <1>1, <1>13, <3>1, <3>2, GrowKeeps
    <2>3. Supplied(s0, k0, b, r, j, a)'
      BY <1>18, <2>2 DEF Supplied, Last
    <2>4. j \in 1 .. Len(work'[r])
      <3>1. Len(work[r]) \in Nat /\ Len(work'[r]) \in Nat /\ Len(work[r]) <= Len(work'[r])
        BY <1>3, <1>13, OpAt DEF Grown
      <3> QED BY <1>5, <3>1
    <2>5. Finds(s0, k0, b, a)'
      BY <2>3, <2>4 DEF Finds
    <2>6. work'[s0][k0].reads = {b} /\ work'[s0][k0].want = a
      BY <1>7, <1>13, <2>1
    <2> QED BY <2>5, <2>6 DEF KernelSupplied
  <1>20. IInv'
    BY CallConsumerIInv DEF SyncInv
  <1>21. /\ stream_uses' \in [Tensors -> SUBSET Streams]
         /\ \A x \in Tensors : stream_uses[x] \subseteq stream_uses'[x]
         /\ s0 = block_stream[buffer] \/ s0 \in stream_uses'[buffer]
    <2>1. stream_uses \in [Tensors -> SUBSET Streams]
      BY DEF SyncInv, Blocks
    <2> QED BY <1>1, <1>2, <1>4, <2>1
  <1>22. Blocks' /\ NothingWrong'
    <2>1. wrong' = wrong
      BY <1>1, <1>4
    <2> QED BY <1>1, <1>13, <1>21, <2>1, GrowKeeps DEF SyncInv, Blocks, NothingWrong
  <1>23. OpsRight'
    <2>1. OpRight(work', op) /\ op.kind # "sum"
      BY <1>7 DEF OpRight, Readers
    <2> QED BY <1>1, <1>13, <2>1, OpsKept DEF slot
  <1>24. ReadersSupplied'
    BY <1>1, <1>13, <1>15, <1>17, <1>19, ReadersKept
  <1>25. \A q \in Producers : stage[q] = "added"
    BY <1>1 DEF SyncInv, IInv, Filled
  <1>26. TouchedOnly'
    <2>1. \A x \in Tensors : ~(Unread(x)') /\ ~(Untouched(x)')
      BY <1>1, <1>25 DEF Unread, Untouched
    <2> QED BY <1>13, <2>1, TouchedKept
  <1>27. Covered'
    <2>1. free_events[buffer] = None
      BY <1>1 DEF SyncInv, FreeIsDone
    <2> QED BY <1>1, <1>13, <1>15, <1>21, <1>22, <2>1, CoveredKept
  <1>28. FreeIsDone'
    BY <1>1 DEF SyncInv, FreeIsDone, slot
  <1>29. GradReady' /\ BufferReady'
    BY <1>1, <1>25 DEF GradReady, BufferReady
  <1>30. LeafReady'
    <2>1. consumer_stream' = s0
      BY <1>1, <1>2 DEF config
    <2>2. Made(Leaf, s0, k0, arrived)'
      BY <1>1, <1>7, <1>13, <1>14, <1>15 DEF Made
    <2>3. ASSUME NEW t \in Streams, NEW m \in 1 .. Len(work'[t]), Writes(work', t, m, Leaf)
          PROVE  t = s0 /\ m = k0
      <3>1. ~Writes(work, t, m, Leaf)
        BY <1>17 DEF Writes
      <3> QED BY <1>3, <1>13, <2>3, <3>1, NewOnly
    <2>4. Last(Leaf, s0, k0)'
      BY <2>3, HBOrder DEF Last
    <2>5. LeafMade(k0)'
      BY <1>1, <2>1, <2>2, <2>4 DEF LeafMade
    <2> QED BY <1>14, <2>1, <2>5 DEF LeafReady
  <1> QED BY <1>20, <1>22, <1>23, <1>24, <1>26, <1>27, <1>28, <1>29, <1>30 DEF SyncInv

(* The caller's stream waits for the consumer's *)
LEMMA ExecPostProcessingSync ==
  ASSUME SyncInv, ExecPostProcessing
  PROVE  SyncInv'
  <1>1. /\ consumer = "called" /\ consumer' = "posted" /\ work' = SyncCaller(work)
        /\ config' = config /\ stage' = stage /\ arrived' = arrived /\ slot' = slot /\ done' = done
        /\ content' = content /\ wrong' = wrong /\ blocks' = blocks
    BY DEF ExecPostProcessing
  <1>2. PICK cs \in Streams, ds \in Streams : cs = consumer_stream /\ ds = CallerStream(LeafDevice)
    BY StreamTypes DEF SyncInv, IInv, TypeOK
  <1>3. work \in Queues
    BY DEF SyncInv, IInv, TypeOK
  <1>4. PICK k \in Nat : k \in 1 .. Len(work[cs]) /\ LeafMade(k)
    BY <1>1, <1>2 DEF SyncInv, LeafReady
  <1>5. Grown(work, work', ds, 0) /\ HB(work', cs, k, ds, Len(work'[ds]))
    <2>1. CASE cs = ds
      <3>1. work' = work
        BY <1>1, <1>2, <2>1 DEF SyncCaller
      <3>2. Len(work[ds]) \in Nat /\ k <= Len(work[ds])
        BY <1>3, <1>4, <2>1, OpAt
      <3> QED BY <1>3, <2>1, <3>1, <3>2, GrownNot, HBOrder
    <2>2. CASE cs # ds
      <3>1. PICK e \in Events : e = EventOn(work, cs) /\ e # None
        BY <1>3, EventOnType
      <3>2. e.stream = cs /\ e.count = Len(work[cs]) /\ Len(work[cs]) \in Nat
        BY <1>3, <3>1, OpAt DEF EventOn
      <3>3. work' = Queue(work, ds, Wait(e))
        BY <1>1, <1>2, <2>2, <3>1 DEF SyncCaller, Follow, WaitFor
      <3>4. Grown(work, work', ds, 0) /\ work'[ds][Len(work'[ds])] = Wait(e) /\ Len(work'[ds]) = Len(work[ds]) + 1
        BY <1>3, <3>2, <3>3, GrownNot, GrownWait
      <3>5. Len(work[ds]) \in Nat /\ Len(work'[ds]) \in Nat /\ Len(work'[ds]) \in 1 .. Len(work'[ds])
        BY <1>3, <3>4, OpAt
      <3>6. HB(work', cs, Len(work[cs]), ds, Len(work'[ds]))
        BY <3>2, <3>4, <3>5, HBWait
      <3>7. HB(work', cs, k, cs, Len(work[cs]))
        BY <1>4, <3>2, HBOrder
      <3> QED BY <3>2, <3>4, <3>5, <3>6, <3>7, HBTrans
    <2> QED BY <2>1, <2>2
  <1>6. \A x : ~Writes(work', ds, 0, x) /\ ~Reads(work', ds, 0, x)
    BY DEF Writes, Reads
  <1>7. IInv'
    BY ExecPostProcessingIInv DEF SyncInv
  <1>8. Blocks' /\ NothingWrong'
    BY <1>1, <1>5, GrowKeeps DEF SyncInv, Blocks, NothingWrong, blocks
  <1>9. OpsRight' /\ ReadersSupplied'
    BY <1>1, <1>5, <1>6, OpsKept, ReadersKept DEF slot
  <1>10. \A q \in Producers : stage[q] = "added"
    BY <1>1 DEF SyncInv, IInv, Filled
  <1>11. TouchedOnly'
    <2>1. \A x \in Tensors : ~(Unread(x)') /\ ~(Untouched(x)')
      BY <1>1, <1>10 DEF Unread, Untouched
    <2> QED BY <1>5, <2>1, TouchedKept
  <1>12. Covered'
    BY <1>1, <1>5, <1>6, <1>8, CoveredKept DEF blocks
  <1>13. FreeIsDone'
    BY <1>1 DEF SyncInv, FreeIsDone, slot, blocks
  <1>14. GradReady' /\ BufferReady'
    BY <1>1, <1>10 DEF GradReady, BufferReady
  <1>15. LeafReady'
    <2>1. consumer_stream' = cs /\ CallerStream(LeafDevice)' = ds
      BY <1>1, <1>2 DEF config, CallerStream, LeafDevice, Current
    <2>2. PICK a \in SUBSET Producers : a = arrived
      BY DEF SyncInv, IInv, TypeOK
    <2>3. Made(Leaf, cs, k, a)' /\ Last(Leaf, cs, k)'
      <3>1. k <= Len(work[cs]) /\ Made(Leaf, cs, k, a) /\ Last(Leaf, cs, k)
        BY <1>2, <1>4, <2>2 DEF LeafMade
      <3> QED BY <1>1, <1>5, <1>6, <3>1, TensorTypes, GrowKeeps
    <2>4. LeafMade(k)'
      BY <1>1, <1>5, <2>1, <2>2, <2>3 DEF LeafMade
    <2>5. k \in 1 .. Len(work'[cs])
      <3>1. Len(work[cs]) \in Nat /\ Len(work'[cs]) \in Nat /\ Len(work[cs]) <= Len(work'[cs])
        BY <1>3, <1>5, OpAt DEF Grown
      <3> QED BY <1>4, <3>1
    <2> QED BY <2>1, <2>4, <2>5 DEF LeafReady
  <1> QED BY <1>7, <1>8, <1>9, <1>11, <1>12, <1>13, <1>14, <1>15 DEF SyncInv

(* The user's kernel is queued behind that *)
LEMMA UseGradientSync ==
  ASSUME SyncInv, UseGradient
  PROVE  SyncInv'
  <1>1. /\ consumer = "posted" /\ consumer' = "used"
        /\ work' = Queue(work, CallerStream(LeafDevice), Kernel("use", {Leaf}, None, {}, arrived))
        /\ config' = config /\ stage' = stage /\ arrived' = arrived /\ slot' = slot /\ done' = done
        /\ content' = content /\ wrong' = wrong /\ blocks' = blocks
    BY DEF UseGradient
  <1>2. PICK cs \in Streams, s0 \in Streams : cs = consumer_stream /\ s0 = CallerStream(LeafDevice)
    BY StreamTypes DEF SyncInv, IInv, TypeOK
  <1>3. work \in Queues /\ Len(work[s0]) \in Nat
    BY OpAt DEF SyncInv, IInv, TypeOK
  <1>4. PICK j \in Nat : j \in 1 .. Len(work[cs]) /\ LeafMade(j)
    BY <1>1, <1>2 DEF SyncInv, LeafReady
  <1>5. PICK op \in Ops : op = Kernel("use", {Leaf}, None, {}, arrived)
    BY KernelType, TensorTypes DEF SyncInv, IInv, TypeOK
  <1>6. op.kind = "use" /\ op.reads = {Leaf} /\ op.writes = None /\ op.gives = {} /\ op.want = arrived
    BY <1>5 DEF Kernel
  <1>7. PICK k0 \in Nat : k0 = Len(work[s0]) + 1
    BY <1>3
  <1>8. Grown(work, work', s0, k0) /\ Len(work'[s0]) = k0 /\ work'[s0][k0] = op
    BY <1>1, <1>2, <1>3, <1>5, <1>7, GrownNot, GrownKernel
  <1>9. k0 \in 1 .. Len(work'[s0]) /\ k0 - 1 \in Nat /\ k0 - 1 = Len(work[s0])
    BY <1>3, <1>7, <1>8
  <1>10. \A x \in Tensors : ~Writes(work', s0, k0, x) /\ (Reads(work', s0, k0, x) => x = Leaf)
    BY <1>6, <1>8, <1>9, NoneIsNoTensor DEF Writes, Reads, Readers
  <1>11. IInv'
    BY UseGradientIInv DEF SyncInv
  <1>12. Blocks' /\ NothingWrong'
    BY <1>1, <1>8, GrowKeeps DEF SyncInv, Blocks, NothingWrong, blocks
  <1>13. OpsRight'
    <2>1. OpRight(work', op) /\ op.kind # "sum"
      BY <1>6 DEF OpRight, Readers
    <2> QED BY <1>1, <1>8, <2>1, OpsKept DEF slot
  <1>14. KernelSupplied(s0, k0)'
    <2>1. PICK a \in SUBSET Producers : a = arrived
      BY DEF SyncInv, IInv, TypeOK
    <2>2. j <= Len(work[cs]) /\ Made(Leaf, cs, j, a) /\ Last(Leaf, cs, j) /\ HB(work, cs, j, s0, Len(work[s0]))
      BY <1>1, <1>2, <1>4, <2>1 DEF LeafMade
    <2>3. Made(Leaf, cs, j, a)' /\ Last(Leaf, cs, j)' /\ HB(work', cs, j, s0, k0 - 1)
      <3>1. Leaf \in Tensors /\ ~Writes(work', s0, k0, Leaf)
        BY <1>10, TensorTypes
      <3>2. Made(Leaf, cs, j, a)' /\ Last(Leaf, cs, j)'
        BY <1>1, <1>8, <2>2, <3>1, GrowKeeps
      <3>3. \A r \in Streams, i \in Nat, s \in Streams, k \in Nat :
               k <= Len(work[s]) /\ HB(work, r, i, s, k) => HB(work', r, i, s, k)
        BY <1>1, <1>8, GrowKeeps
      <3>4. HB(work', cs, j, s0, Len(work[s0]))
        BY <1>3, <2>2, <3>3
      <3> QED BY <1>9, <3>2, <3>4
    <2>4. Supplied(s0, k0, Leaf, cs, j, a)'
      BY <2>3 DEF Supplied, Last
    <2>5. j \in 1 .. Len(work'[cs])
      <3>1. Len(work[cs]) \in Nat /\ Len(work'[cs]) \in Nat /\ Len(work[cs]) <= Len(work'[cs])
        BY <1>3, <1>8, OpAt DEF Grown
      <3> QED BY <1>4, <3>1
    <2>6. Finds(s0, k0, Leaf, a)'
      BY <2>4, <2>5 DEF Finds
    <2>7. work'[s0][k0].reads = {Leaf} /\ work'[s0][k0].want = a
      BY <1>6, <1>8, <2>1
    <2> QED BY <2>6, <2>7 DEF KernelSupplied
  <1>15. ReadersSupplied'
    BY <1>1, <1>8, <1>10, <1>14, ReadersKept
  <1>16. \A q \in Producers : stage[q] = "added"
    BY <1>1 DEF SyncInv, IInv, Filled
  <1>17. TouchedOnly'
    <2>1. \A x \in Tensors : ~(Unread(x)') /\ ~(Untouched(x)')
      BY <1>1, <1>16 DEF Unread, Untouched
    <2> QED BY <1>8, <2>1, TouchedKept
  <1>18. Covered'
    BY <1>1, <1>8, <1>10, <1>12, CoveredKept DEF blocks
  <1>19. FreeIsDone'
    BY <1>1 DEF SyncInv, FreeIsDone, slot, blocks
  <1>20. GradReady' /\ BufferReady'
    BY <1>1, <1>16 DEF GradReady, BufferReady
  <1>21. LeafReady'
    BY <1>1, <1>8, <1>10, TensorTypes, LeafKept
  <1> QED BY <1>11, <1>12, <1>13, <1>15, <1>17, <1>18, <1>19, <1>20, <1>21 DEF SyncInv

-----------------------------------------------------------------------------
(* Whoever reads a block that is given away has read it, or is ahead of the *)
(* new owner on the same stream                                             *)
LEMMA ReuseBlockSync ==
  ASSUME SyncInv, NEW x \in Tensors, ReuseBlock(x)
  PROVE  SyncInv'
  <1>1. /\ free_events[x] # None /\ \A e \in free_events[x] : Complete(e)
        /\ work' = Queue(work, block_stream[x], Reuse(x))
        /\ config' = config /\ stage' = stage /\ consumer' = consumer /\ arrived' = arrived /\ slot' = slot
        /\ done' = done /\ content' = content /\ wrong' = wrong /\ block_stream' = block_stream
        /\ stream_uses' = stream_uses /\ free_events' = free_events
    BY DEF ReuseBlock
  <1>2. work \in Queues /\ done \in [Streams -> Nat]
    BY DEF SyncInv, IInv, TypeOK
  <1>3. Reuse(x) \in Ops /\ Reuse(x).kind = "reuse" /\ Reuse(x).writes = x
    BY DEF Reuse, Ops, Reuses
  <1>4. PICK s0 \in Streams, k0 \in Nat :
           /\ Grown(work, work', s0, k0)
           /\ \A y : ~Reads(work', s0, k0, y)
           /\ k0 \in 1 .. Len(work'[s0]) => work'[s0][k0] = Reuse(x)
           /\ k0 # 0 => s0 = block_stream[x] /\ k0 = Len(work[s0]) + 1
    <2>1. CASE block_stream[x] \in Streams
      <3>1. PICK s \in Streams : s = block_stream[x]
        BY <2>1
      <3>2. Len(work[s]) + 1 \in Nat
        BY <1>2, OpAt
      <3>3. Grown(work, work', s, Len(work[s]) + 1) /\ work'[s][Len(work[s]) + 1] = Reuse(x)
        BY <1>1, <1>2, <1>3, <3>1, GrownNot, GrownKernel
      <3>4. \A y : ~Reads(work', s, Len(work[s]) + 1, y)
        BY <1>3, <3>3 DEF Reads, Readers
      <3> QED BY <3>1, <3>2, <3>3, <3>4
    <2>2. CASE block_stream[x] \notin Streams
      <3>1. work' = work
        BY <1>1, <1>2, <2>2 DEF Queue, Queues
      <3>2. PICK s \in Streams : s = consumer_stream
        BY DEF SyncInv, IInv, TypeOK
      <3>3. Grown(work, work', s, 0) /\ \A y : ~Reads(work', s, 0, y)
        BY <1>2, <3>1, GrownNot DEF Reads
      <3>4. 0 \notin 1 .. Len(work'[s])
        OBVIOUS
      <3> QED BY <3>2, <3>3, <3>4
    <2> QED BY <2>1, <2>2
  <1>5. ASSUME NEW y, Writes(work', s0, k0, y)
        PROVE  y = x /\ k0 # 0
    BY <1>3, <1>4, <1>5 DEF Writes
  <1>6. x # Leaf /\ ~Unread(x) /\ ~Untouched(x)
    BY <1>1 DEF SyncInv, FreeIsDone, TouchedOnly, Unread
  <1>7. IInv'
    BY ReuseBlockIInv DEF SyncInv
  <1>8. Blocks' /\ NothingWrong'
    BY <1>1, <1>4, GrowKeeps DEF SyncInv, Blocks, NothingWrong
  <1>9. OpsRight'
    <2>1. OpRight(work', Reuse(x)) /\ Reuse(x).kind # "sum"
      BY <1>3 DEF OpRight, Readers
    <2> QED BY <1>1, <1>4, <2>1, OpsKept DEF slot
  <1>10. ReadersSupplied'
    <2>1. ASSUME NEW y \in Tensors, NEW s \in Streams, NEW k \in 1 .. Len(work[s]), done[s] < k,
                 Reads(work, s, k, y), Writes(work', s0, k0, y)
          PROVE  HB(work', s, k, s0, k0)
      <3>1. y = x /\ s0 = block_stream[x] /\ k0 = Len(work[s0]) + 1
        BY <1>4, <1>5, <2>1
      <3>2. s = block_stream[x] \/ \E e \in free_events[x] : e.stream = s /\ k <= e.count
        BY <1>1, <1>6, <2>1, <3>1 DEF SyncInv, Covered
      <3>3. ASSUME NEW e \in free_events[x], e.stream = s, k <= e.count PROVE FALSE
        <4>1. e \in Events
          <5>1. free_events[x] \in (SUBSET Events) \cup {None}
            BY DEF SyncInv, Blocks
          <5>2. free_events[x] \in SUBSET Events
            BY <1>1, <5>1
          <5> QED BY <3>3, <5>2
        <4>2. done[s] >= e.count /\ e.count \in Nat
          BY <1>1, <3>3, <4>1 DEF Complete, Events
        <4> QED BY <1>2, <2>1, <3>3, <4>2
      <3>4. s = s0
        BY <3>1, <3>2, <3>3
      <3>5. k <= k0
        BY <1>2, <3>1, <3>4, OpAt
      <3> QED BY <3>4, <3>5, HBOrder
    <2>2. ~(work'[s0][k0].kind \in Readers /\ k0 \in 1 .. Len(work'[s0]))
      BY <1>3, <1>4 DEF Readers
    <2> QED BY <1>1, <1>4, <2>1, <2>2, ReadersKept
  <1>11. TouchedOnly'
    <2>1. \A y \in Tensors : (Untouched(y)' => Untouched(y)) /\ (Unread(y)' => Unread(y))
      BY <1>1 DEF Untouched, Unread
    <2> QED BY <1>1, <1>4, <1>5, <1>6, <2>1, TouchedKept
  <1>12. Covered'
    BY <1>1, <1>4, <1>8, CoveredKept
  <1>13. FreeIsDone'
    BY <1>1 DEF SyncInv, FreeIsDone, slot
  <1>14. GradReady'
    <2> SUFFICES ASSUME NEW q \in Producers, stage[q] = "called"
                 PROVE  /\ block_stream'[Grad(q)] = CurrentStream(q, device)'
                        /\ \E r \in Streams : \E j \in 1 .. Len(work'[r]) : GradMade(q, r, j)'
      BY <1>1 DEF GradReady
    <2>1. Unread(Grad(q))
      BY DEF Unread
    <2>2. ~Writes(work', s0, k0, Grad(q))
      BY <1>5, <1>6, <2>1
    <2> QED BY <1>1, <1>4, <2>2, GradKept
  <1>15. BufferReady'
    <2> SUFFICES ASSUME consumer \in {"idle", "ready"}, arrived # {} PROVE BufferReady'
      BY <1>1 DEF BufferReady
    <2>1. buffer # x
      BY <1>1 DEF SyncInv, FreeIsDone
    <2>2. ~Writes(work', s0, k0, buffer)
      BY <1>5, <2>1
    <2>3. \E r \in Streams : \E j \in 1 .. Len(work'[r]) : BufferMade(r, j)'
      BY <1>1, <1>4, <2>2, BufferKept
    <2> QED BY <1>1, <2>3 DEF SyncInv, BufferReady, slot, config, Unread, Untouched
  <1>16. LeafReady'
    <2>1. CASE consumer \in {"called", "posted", "used"}
      BY <1>1, <1>4, <1>5, <1>6, <2>1, LeafKept
    <2>2. CASE consumer \notin {"called", "posted", "used"}
      BY <1>1, <2>2 DEF LeafReady
    <2> QED BY <2>1, <2>2
  <1> QED BY <1>7, <1>8, <1>9, <1>10, <1>11, <1>12, <1>13, <1>14, <1>15, <1>16 DEF SyncInv

LEMMA InitSync == Init => SyncInv
  <1> SUFFICES ASSUME Init PROVE SyncInv
    OBVIOUS
  <1>1. IInv
    BY InitIInv
  <1>2. \A s \in Streams : work[s] = <<>> /\ Len(work[s]) = 0 /\ done[s] = 0
    BY DEF Init
  <1>3. Leaf \in Tensors /\ Leaf # None
    BY TensorTypes, NoneIsNoTensor
  <1>4. Blocks
    BY DEF Init, Blocks
  <1>5. NothingWrong
    BY <1>2 DEF Init, NothingWrong, Cut
  <1>6. OpsRight /\ ReadersSupplied /\ TouchedOnly /\ Covered
    BY <1>2 DEF Init, OpsRight, ReadersSupplied, TouchedOnly, Covered
  <1>7. FreeIsDone
    BY <1>3 DEF Init, FreeIsDone
  <1>8. GradReady /\ BufferReady /\ LeafReady
    BY DEF Init, GradReady, BufferReady, LeafReady
  <1> QED BY <1>1, <1>4, <1>5, <1>6, <1>7, <1>8 DEF SyncInv

-----------------------------------------------------------------------------
(* What happened before an event happens before what waits for it *)
LEMMA HBAwaited ==
  ASSUME SyncInv, done' = done, content' = content, NEW s0 \in Streams, NEW k0 \in Nat, Grown(work, work', s0, k0),
         NEW e \in Events, e.count <= Len(work[e.stream]), NEW r \in Streams, NEW j \in Nat,
         HB(work, r, j, e.stream, e.count),
         NEW i \in 1 .. Len(work'[s0]), work'[s0][i] = Wait(e), NEW k \in Nat, i <= k
  PROVE  HB(work', r, j, s0, k)
  <1>1. e.stream \in Streams /\ e.count \in Nat
    BY DEF Events
  <1>2. HB(work', r, j, e.stream, e.count)
    BY <1>1, GrowKeeps
  <1>3. HB(work', e.stream, e.count, s0, k)
    BY HBWait
  <1> QED BY <1>1, <1>2, <1>3, HBTrans

(* The kernel queued now finds a tensor that was made before *)
LEMMA FindsNow ==
  ASSUME SyncInv, done' = done, content' = content, NEW s0 \in Streams, NEW k0 \in Nat, Grown(work, work', s0, k0),
         NEW x \in Tensors, NEW r \in Streams, NEW j \in Nat, j \in 1 .. Len(work[r]), NEW v,
         Made(x, r, j, v), Last(x, r, j), HB(work', r, j, s0, k0 - 1)
  PROVE  /\ Finds(s0, k0, x, v)'
         /\ \A t \in Streams : \A m \in 1 .. Len(work[t]) : Writes(work, t, m, x) => HB(work', t, m, r, j)
  <1>1. work \in Queues /\ work' \in Queues
    BY DEF SyncInv, IInv, TypeOK, Grown
  <1>2. \A t \in Streams : Len(work[t]) \in Nat /\ Len(work'[t]) \in Nat /\ Len(work[t]) <= Len(work'[t])
    BY <1>1, OpAt DEF Grown
  <1>3. Made(x, r, j, v)' /\ j \in 1 .. Len(work'[r]) /\ j <= Len(work[r])
    BY <1>2, GrowKeeps
  <1>4. ASSUME NEW t \in Streams, NEW m \in 1 .. Len(work[t]), Writes(work, t, m, x)
        PROVE  HB(work', t, m, r, j)
    <2>1. HB(work, t, m, r, j)
      BY <1>4 DEF Last
    <2> QED BY <1>3, <2>1, GrowKeeps
  <1>5. ASSUME NEW t \in Streams, NEW m \in 1 .. Len(work'[t]), Writes(work', t, m, x)
        PROVE  HB(work', t, m, r, j) \/ HB(work', s0, k0, t, m)
    <2>1. CASE t = s0 /\ m = k0
      BY <2>1, HBOrder
    <2>2. CASE Writes(work, t, m, x)
      BY <1>4, <2>2 DEF Writes
    <2> QED BY <1>1, <1>5, <2>1, <2>2, NewOnly
  <1>6. Supplied(s0, k0, x, r, j, v)'
    BY <1>3, <1>5 DEF Supplied
  <1> QED BY <1>3, <1>4, <1>6 DEF Finds

(* The queues of a further add(): the accumulation stream waits for what is *)
(* not ready on it, and the sum is queued behind that                       *)
SumQueued(p, sum, s0, ps, k0, op) ==
    /\ op = Kernel("sum", {buffer, Grad(p)}, sum, {}, arrived \cup {p})
    /\ Grown(work, work', s0, k0) /\ work'[s0][k0] = op /\ k0 = Len(work'[s0])
    /\ Len(work[s0]) < k0
    /\ s0 # ps => \E i \in 1 .. k0 - 1 : work'[s0][i] = Wait(EventOn(work, ps))
    /\ s0 # ready_stream => \E i \in 1 .. k0 - 1 : work'[s0][i] = Wait(ready_event)

LEMMA AddNextQueues ==
  ASSUME SyncInv, NEW p \in Producers, NEW sum \in {buffer, Grad(p), Sum(p)}, AddNext(p, sum),
         NEW s0 \in Streams, s0 = opt_accum_stream, NEW ps \in Streams, ps = ProducerStream(p)
  PROVE  \E k0 \in Nat, op \in Ops : SumQueued(p, sum, s0, ps, k0, op)
  <1>1. /\ Added(p) /\ work \in Queues /\ opt_accum_stream # None /\ arrived # {} /\ consumer = "idle"
        /\ ready_stream \in Streams /\ (s0 # ready_stream => ready_event \in Events /\ ready_event # None)
    BY AddedStep DEF AddNext, SyncInv, IInv, TypeOK, Filled, Recorded
  <1>2. PICK w1 : w1 = IF s0 = ps THEN work ELSE Follow(work, s0, ps)
    OBVIOUS
  <1>3. PICK w2 : w2 = IF s0 = ready_stream THEN w1 ELSE WaitFor(w1, s0, ready_event)
    OBVIOUS
  <1>4. buffer \in Tensors /\ sum \in Tensors /\ Grad(p) \in Tensors
    BY <1>1, TensorTypes DEF SyncInv, BufferReady
  <1>5. PICK op \in Ops : op = Kernel("sum", {buffer, Grad(p)}, sum, {}, arrived \cup {p})
    BY <1>4, KernelType DEF SyncInv, IInv, TypeOK
  <1>6. work' = Queue(w2, s0, op)
    BY <1>2, <1>3, <1>5 DEF AddNext
  <1>7. /\ Grown(work, w1, s0, 0)
        /\ s0 # ps => w1[s0][Len(w1[s0])] = Wait(EventOn(work, ps)) /\ Len(w1[s0]) = Len(work[s0]) + 1
    <2>1. CASE s0 = ps
      BY <1>1, <1>2, <2>1, GrownNot
    <2>2. CASE s0 # ps
      <3>1. PICK e \in Events : e = EventOn(work, ps) /\ e # None
        BY <1>1, EventOnType
      <3>2. e.stream = ps /\ e.count = Len(work[ps]) /\ Len(work[ps]) \in Nat
        BY <1>1, <3>1, OpAt DEF EventOn
      <3>3. w1 = Queue(work, s0, Wait(e))
        BY <1>2, <2>2, <3>1 DEF Follow, WaitFor
      <3> QED BY <1>1, <3>1, <3>2, <3>3, GrownNot, GrownWait
    <2> QED BY <2>1, <2>2
  <1>8. w1 \in Queues /\ \A t \in Streams : Len(w1[t]) \in Nat /\ Len(work[t]) \in Nat /\ Len(work[t]) <= Len(w1[t])
    BY <1>1, <1>7, OpAt DEF Grown
  <1>9. /\ Grown(work, w2, s0, 0) /\ Grown(w1, w2, s0, 0)
        /\ s0 # ready_stream => w2[s0][Len(w2[s0])] = Wait(ready_event) /\ Len(w2[s0]) = Len(w1[s0]) + 1
    <2>1. CASE s0 = ready_stream
      BY <1>3, <1>7, <1>8, <2>1, GrownNot
    <2>2. CASE s0 # ready_stream
      <3>1. w2 = Queue(w1, s0, Wait(ready_event)) /\ ready_event \in Events
        BY <1>1, <1>3, <2>2 DEF WaitFor
      <3>2. ready_event.count <= Len(work[ready_event.stream])
        BY <1>1, <2>2 DEF SyncInv, BufferReady, BufferMade, Awaited
      <3>3. ready_event.stream \in Streams /\ ready_event.count \in Nat
        BY <3>1 DEF Events
      <3>4. ready_event.count <= Len(w1[ready_event.stream])
        BY <1>8, <3>2, <3>3
      <3> QED BY <1>1, <1>7, <3>1, <3>4, GrownWait
    <2> QED BY <2>1, <2>2
  <1>10. w2 \in Queues /\ Len(w2[s0]) \in Nat /\ Len(w1[s0]) <= Len(w2[s0]) /\ Len(work[s0]) <= Len(w2[s0])
    BY <1>9, OpAt DEF Grown
  <1>11. PICK k0 \in Nat : k0 = Len(w2[s0]) + 1
    BY <1>10
  <1>12. /\ Grown(work, work', s0, k0) /\ Len(work'[s0]) = k0 /\ work'[s0][k0] = op
         /\ \A i \in 1 .. Len(w2[s0]) : work'[s0][i] = w2[s0][i]
    BY <1>1, <1>6, <1>9, <1>11, GrownKernel
  <1>13. 1 .. k0 - 1 = 1 .. Len(w2[s0]) /\ Len(work[s0]) < k0
    BY <1>8, <1>10, <1>11
  <1>14. ASSUME s0 # ps PROVE \E i \in 1 .. k0 - 1 : work'[s0][i] = Wait(EventOn(work, ps))
    <2>1. Len(w1[s0]) \in 1 .. Len(w1[s0]) /\ Len(w1[s0]) \in 1 .. Len(w2[s0])
      BY <1>7, <1>8, <1>10, <1>14
    <2>2. w2[s0][Len(w1[s0])] = w1[s0][Len(w1[s0])]
      BY <1>9, <2>1 DEF Grown
    <2>3. work'[s0][Len(w1[s0])] = Wait(EventOn(work, ps))
      BY <1>7, <1>12, <1>14, <2>1, <2>2
    <2> QED BY <1>13, <2>1, <2>3
  <1>15. ASSUME s0 # ready_stream PROVE \E i \in 1 .. k0 - 1 : work'[s0][i] = Wait(ready_event)
    <2>1. Len(w2[s0]) \in 1 .. Len(w2[s0])
      BY <1>8, <1>9, <1>10, <1>15
    <2>2. work'[s0][Len(w2[s0])] = Wait(ready_event)
      BY <1>9, <1>12, <1>15, <2>1
    <2> QED BY <1>13, <2>1, <2>2
  <1>16. SumQueued(p, sum, s0, ps, k0, op)
    BY <1>5, <1>12, <1>13, <1>14, <1>15 DEF SumQueued
  <1> QED BY <1>16

(* A gradient is added to what is there *)
LEMMA AddNextSync ==
  ASSUME SyncInv, NEW p \in Producers, NEW sum \in {buffer, Grad(p), Sum(p)}, AddNext(p, sum)
  PROVE  SyncInv'
  <1>1. /\ Added(p) /\ opt_accum_stream # None /\ arrived' = arrived \cup {p} /\ buffer' = sum
        /\ wrong' = IF opt_accum_stream # ready_stream /\ ready_event = None
                      THEN wrong \cup {"event"} ELSE wrong
        /\ stream_uses' = IF opt_accum_stream = ready_stream THEN UsesOfNew(p, opt_accum_stream)
                          ELSE RecordStream(UsesOfNew(p, opt_accum_stream), buffer, opt_accum_stream)
        /\ free_events' = Freed(work', stream_uses', {buffer, Grad(p)} \ {sum})
        /\ block_stream' = IF sum = Sum(p) THEN [block_stream EXCEPT ![sum] = opt_accum_stream] ELSE block_stream
        /\ ready_event' = IF consumer_stream = opt_accum_stream THEN ready_event
                          ELSE EventOn(work', opt_accum_stream)
        /\ ready_stream' = opt_accum_stream /\ opt_accum_stream' = opt_accum_stream
    BY DEF AddNext
  <1>2. /\ stage[p] = "called" /\ consumer = "idle" /\ consumer' \in {"idle", "ready"}
        /\ done' = done /\ content' = content /\ config' = config
        /\ Unread(Grad(p)) /\ Untouched(Sum(p)) /\ Untouched(Leaf)
    BY <1>1, AddedTouches
  <1>3. /\ arrived # {} /\ opt_accum_stream \in Streams /\ ready_stream \in Streams
        /\ opt_accum_stream # ready_stream => ready_event \in Events /\ ready_event # None
    BY <1>1 DEF SyncInv, IInv, TypeOK, Filled, Recorded
  <1>4. PICK s0 \in Streams, ps \in Streams, rs \in Streams :
           s0 = opt_accum_stream /\ ps = ProducerStream(p) /\ rs = ready_stream
    BY <1>3, StreamTypes DEF SyncInv, IInv
  <1>5. PICK b \in Tensors \ {Leaf}, a \in SUBSET Producers : b = buffer /\ a = arrived
    BY <1>2, <1>3 DEF SyncInv, IInv, TypeOK, BufferReady
  <1>6. /\ ~Unread(b) /\ DeviceOf[s0] = device
        /\ DeviceOf[consumer_stream] = device => s0 = consumer_stream
        /\ s0 = rs => s0 = block_stream[b] \/ s0 \in stream_uses[b]
    BY <1>2, <1>3, <1>4, <1>5 DEF SyncInv, BufferReady
  <1>7. PICK g \in Tensors \ {Leaf} : g = Grad(p)
    BY TensorTypes, TensorsDiffer
  <1>8. PICK z \in Tensors \ {Leaf} : z = Sum(p)
    BY TensorTypes, TensorsDiffer
  <1>9. b # g /\ b # z /\ g # z /\ sum \in {b, g, z} /\ sum \in Tensors \ {Leaf}
    BY <1>2, <1>5, <1>6, <1>7, <1>8, TensorsDiffer DEF Unread
  <1>10. PICK k0 \in Nat, op \in Ops :
            /\ op = Kernel("sum", {b, g}, sum, {}, a \cup {p})
            /\ Grown(work, work', s0, k0) /\ work'[s0][k0] = op /\ k0 = Len(work'[s0])
            /\ Len(work[s0]) < k0
            /\ s0 # ps => \E i \in 1 .. k0 - 1 : work'[s0][i] = Wait(EventOn(work, ps))
            /\ s0 # rs => \E i \in 1 .. k0 - 1 : work'[s0][i] = Wait(ready_event)
    <2>1. PICK k0 \in Nat, op \in Ops : SumQueued(p, sum, s0, ps, k0, op)
      BY <1>4, AddNextQueues
    <2> QED BY <1>4, <1>5, <1>7, <2>1 DEF SumQueued
  <1>11. op.kind = "sum" /\ op.reads = {b, g} /\ op.writes = sum /\ op.gives = {} /\ op.want = a \cup {p}
    BY <1>10 DEF Kernel
  <1>12. /\ done \in [Streams -> Nat] /\ work \in Queues /\ work' \in Queues /\ Cut(work, done)
    BY <1>10 DEF SyncInv, IInv, TypeOK, NothingWrong, Grown
  <1>13. \A t \in Streams : Len(work[t]) \in Nat /\ Len(work'[t]) \in Nat /\ Len(work[t]) <= Len(work'[t])
    BY <1>10, <1>12, OpAt DEF Grown
  <1>14. done[s0] <= Len(work[s0])
    BY <1>12 DEF Cut
  <1>15. /\ k0 \in 1 .. Len(work'[s0]) /\ k0 - 1 \in Nat /\ k0 - 1 <= k0 /\ Len(work[s0]) <= k0 - 1
         /\ done[s0] < k0 /\ ~(k0 <= done[s0]) /\ \A i \in 1 .. k0 - 1 : i \in 1 .. Len(work'[s0]) /\ i <= k0 - 1
    BY <1>10, <1>12, <1>13, <1>14
  <1>16. \A x : /\ Writes(work', s0, k0, x) <=> x = sum
                /\ Reads(work', s0, k0, x) <=> x \in {b, g}
    BY <1>10, <1>11, <1>15 DEF Writes, Reads, Readers
  <1>17. PICK rb \in Streams, jb \in Nat : jb \in 1 .. Len(work[rb]) /\ BufferMade(rb, jb)
    BY <1>2, <1>3 DEF SyncInv, BufferReady
  <1>18. PICK rg \in Streams, jg \in Nat : jg \in 1 .. Len(work[rg]) /\ GradMade(p, rg, jg)
    BY <1>2 DEF SyncInv, GradReady
  <1>19. HB(work', rb, jb, s0, k0 - 1)
    <2>1. CASE s0 = rs
      <3>1. HB(work, rb, jb, s0, Len(work[s0]))
        BY <1>4, <1>17, <2>1 DEF BufferMade
      <3>2. HB(work', rb, jb, s0, Len(work[s0]))
        BY <1>2, <1>10, <1>13, <3>1, GrowKeeps
      <3> QED BY <1>13, <1>15, <3>2, HBLater
    <2>2. CASE s0 # rs
      <3>1. PICK e \in Events : e = ready_event
        BY <1>3, <1>4, <2>2
      <3>2. HB(work, rb, jb, e.stream, e.count) /\ e.count <= Len(work[e.stream])
        BY <1>4, <1>17, <2>2, <3>1 DEF BufferMade, Awaited
      <3>3. PICK i \in 1 .. k0 - 1 : work'[s0][i] = Wait(e)
        BY <1>10, <2>2, <3>1
      <3>4. i \in 1 .. Len(work'[s0]) /\ i <= k0 - 1
        BY <1>15
      <3> QED BY <1>2, <1>10, <1>15, <3>2, <3>3, <3>4, HBAwaited
    <2> QED BY <2>1, <2>2
  <1>20. HB(work', rg, jg, s0, k0 - 1)
    <2>1. HB(work, rg, jg, ps, Len(work[ps]))
      BY <1>4, <1>18 DEF GradMade
    <2>2. CASE s0 = ps
      <3>1. HB(work', rg, jg, s0, Len(work[s0]))
        BY <1>2, <1>10, <1>13, <2>1, <2>2, GrowKeeps
      <3> QED BY <1>13, <1>15, <3>1, HBLater
    <2>3. CASE s0 # ps
      <3>1. PICK e \in Events : e = EventOn(work, ps)
        BY <1>12, EventOnType
      <3>2. e.stream = ps /\ e.count = Len(work[ps]) /\ e.count <= Len(work[ps])
        BY <1>13, <3>1 DEF EventOn
      <3>3. PICK i \in 1 .. k0 - 1 : work'[s0][i] = Wait(e)
        BY <1>10, <2>3, <3>1
      <3>4. i \in 1 .. Len(work'[s0]) /\ i <= k0 - 1
        BY <1>15
      <3> QED BY <1>2, <1>10, <1>15, <2>1, <3>2, <3>3, <3>4, HBAwaited
    <2> QED BY <2>2, <2>3
  <1>21. /\ Finds(s0, k0, b, a)'
         /\ \A t \in Streams : \A m \in 1 .. Len(work[t]) : Writes(work, t, m, b) => HB(work', t, m, rb, jb)
    <2>1. Made(b, rb, jb, a) /\ Last(b, rb, jb)
      BY <1>5, <1>17 DEF BufferMade
    <2> QED BY <1>2, <1>10, <1>17, <1>19, <2>1, FindsNow
  <1>22. /\ Finds(s0, k0, g, {p})'
         /\ \A t \in Streams : \A m \in 1 .. Len(work[t]) : Writes(work, t, m, g) => HB(work', t, m, rg, jg)
    <2>1. Made(g, rg, jg, {p}) /\ Last(g, rg, jg)
      BY <1>7, <1>18 DEF GradMade
    <2> QED BY <1>2, <1>10, <1>18, <1>20, <2>1, FindsNow
  <1>23. KernelSupplied(s0, k0)'
    <2>1. work'[s0][k0].reads = {b, g} /\ work'[s0][k0].want = a \cup {p}
      BY <1>10, <1>11
    <2>2. \A x \in {b, g} : \E v \in SUBSET (a \cup {p}) : Finds(s0, k0, x, v)'
      BY <1>21, <1>22
    <2>3. \A q \in a \cup {p} : \E x \in {b, g} : \E v \in SUBSET (a \cup {p}) : q \in v /\ Finds(s0, k0, x, v)'
      BY <1>21, <1>22
    <2> QED BY <2>1, <2>2, <2>3 DEF KernelSupplied
  <1>24. IInv'
    BY AddNextIInv DEF SyncInv
  <1>25. /\ stream_uses' \in [Tensors -> SUBSET Streams]
         /\ \A x \in Tensors : stream_uses[x] \subseteq stream_uses'[x]
         /\ s0 = block_stream[b] \/ s0 \in stream_uses'[b]
         /\ s0 = block_stream[g] \/ s0 \in stream_uses'[g]
    <2>1. stream_uses \in [Tensors -> SUBSET Streams]
      BY DEF SyncInv, Blocks
    <2>2. PICK u : u = UsesOfNew(p, s0)
      OBVIOUS
    <2>3. u = IF s0 = ps THEN stream_uses ELSE RecordStream(stream_uses, g, s0)
      BY <1>4, <1>7, <2>2 DEF UsesOfNew
    <2>4. stream_uses' = IF s0 = rs THEN u ELSE RecordStream(u, b, s0)
      BY <1>1, <1>4, <1>5, <2>2
    <2>5. /\ u \in [Tensors -> SUBSET Streams]
          /\ \A x \in Tensors : stream_uses[x] \subseteq u[x]
      BY <2>1, <2>3 DEF RecordStream
    <2>6. s0 = block_stream[g] \/ s0 \in u[g]
      <3>1. block_stream[g] = CurrentStream(p, device)
        BY <1>2, <1>7 DEF SyncInv, GradReady
      <3>2. CASE s0 = ps
        BY <1>4, <1>6, <3>1, <3>2, MadeOnDevice
      <3>3. CASE s0 # ps
        BY <1>6, <2>1, <2>3, <3>3 DEF RecordStream
      <3> QED BY <3>2, <3>3
    <2>7. /\ stream_uses' \in [Tensors -> SUBSET Streams]
          /\ \A x \in Tensors : u[x] \subseteq stream_uses'[x]
      BY <2>4, <2>5 DEF RecordStream
    <2>8. s0 = block_stream[b] \/ s0 \in stream_uses'[b]
      <3>1. CASE s0 = rs
        BY <1>6, <2>5, <2>7, <3>1
      <3>2. CASE s0 # rs
        BY <1>6, <2>4, <2>5, <3>2 DEF RecordStream
      <3> QED BY <3>1, <3>2
    <2> QED BY <2>5, <2>6, <2>7, <2>8
  <1>26. /\ block_stream' \in [Tensors -> Streams \cup {None}]
         /\ \A x \in Tensors : x # z => block_stream'[x] = block_stream[x]
         /\ sum = z => block_stream'[z] = s0
    BY <1>1, <1>4, <1>8, <1>9 DEF SyncInv, Blocks
  <1>27. \A x \in Tensors : free_events'[x] = IF x \in {b, g} \ {sum} THEN {EventOn(work', t) : t \in stream_uses'[x]}
                                                                  ELSE free_events[x]
    BY <1>1, <1>5, <1>7 DEF Freed
  <1>28. Blocks' /\ NothingWrong'
    <2>1. \A x \in Tensors : {EventOn(work', t) : t \in stream_uses'[x]} \in SUBSET Events
      BY <1>12, <1>25, EventOnType
    <2>2. free_events' \in [Tensors -> (SUBSET Events) \cup {None}]
      BY <1>1, <2>1 DEF Freed, SyncInv, Blocks
    <2>3. wrong' = wrong
      BY <1>1, <1>3
    <2>4. NothingWrong'
      BY <1>2, <1>10, <2>3, GrowKeeps DEF SyncInv, NothingWrong
    <2> QED BY <1>2, <1>25, <1>26, <2>2, <2>4 DEF SyncInv, Blocks
  <1>29. OpsRight'
    <2>1. OpRight(work', op)
      BY <1>11 DEF OpRight, Readers
    <2> QED BY <1>1, <1>4, <1>10, <2>1, OpsKept
  <1>30. ReadersSupplied'
    <2>1. ASSUME NEW x \in Tensors, NEW s \in Streams, NEW k \in 1 .. Len(work[s]),
                 Reads(work, s, k, x), Writes(work', s0, k0, x)
          PROVE  HB(work', s, k, s0, k0)
      <3>1. x = sum /\ x # Leaf
        BY <1>9, <1>16, <2>1
      <3>2. OpRight(work, work[s][k]) /\ (work[s][k].kind = "sum" => s = s0)
        BY <1>4 DEF SyncInv, OpsRight
      <3>3. work[s][k].kind # "leaf"
        <4>1. ~Writes(work, s, k, Leaf)
          BY <1>2, TensorTypes DEF SyncInv, TouchedOnly
        <4> QED BY <3>2, <4>1 DEF OpRight, Writes
      <3>4. work[s][k].kind # "use"
        BY <2>1, <3>1, <3>2 DEF OpRight, Reads
      <3>5. s = s0
        BY <2>1, <3>2, <3>3, <3>4 DEF Reads, Readers
      <3>6. k <= k0 /\ k \in Nat
        BY <1>10, <1>13, <3>5
      <3> QED BY <3>5, <3>6, HBOrder
    <2> QED BY <1>2, <1>10, <1>23, <2>1, ReadersKept
  <1>31. \A x \in Tensors : /\ Untouched(x)' => Untouched(x) /\ x # sum
                            /\ Unread(x)' => Unread(x) /\ x # b /\ x # g /\ x # z
    <2>1. \A x \in Tensors : /\ Untouched(x)' => Untouched(x)
                             /\ Unread(x)' => Unread(x) /\ x # g /\ x # z
      BY <1>1, <1>7, <1>8, AddedTouches
    <2>2. \A x \in Tensors : Untouched(x)' => Unread(x)'
      BY DEF Unread
    <2> QED BY <1>6, <1>9, <2>1, <2>2
  <1>32. TouchedOnly'
    BY <1>10, <1>16, <1>27, <1>31, TouchedKept
  <1>33. free_events[sum] = None
    <2>1. free_events[b] = None
      BY <1>2, <1>3, <1>5 DEF SyncInv, FreeIsDone
    <2>2. free_events[g] = None /\ free_events[z] = None
      BY <1>2, <1>7, <1>8 DEF SyncInv, TouchedOnly, Unread
    <2> QED BY <1>9, <2>1, <2>2
  <1>34. Covered'
    <2> SUFFICES ASSUME NEW x \in Tensors \ {Leaf}
                 PROVE  /\ \/ block_stream'[x] = block_stream[x] /\ stream_uses[x] \subseteq stream_uses'[x]
                           \/ Unread(x) /\ ~Reads(work', s0, k0, x)
                        /\ Reads(work', s0, k0, x) => s0 = block_stream'[x] \/ s0 \in stream_uses'[x]
                        /\ \/ /\ free_events'[x] = free_events[x]
                              /\ Reads(work', s0, k0, x) => free_events[x] = None
                           \/ free_events'[x] = {EventOn(work', t) : t \in stream_uses'[x]}
      BY <1>10, <1>28, CoveredKept
    <2>1. \/ block_stream'[x] = block_stream[x] /\ stream_uses[x] \subseteq stream_uses'[x]
          \/ Unread(x) /\ ~Reads(work', s0, k0, x)
      BY <1>2, <1>8, <1>9, <1>16, <1>25, <1>26 DEF Unread
    <2>2. Reads(work', s0, k0, x) => s0 = block_stream'[x] \/ s0 \in stream_uses'[x]
      BY <1>9, <1>16, <1>25, <1>26
    <2>3. \/ /\ free_events'[x] = free_events[x]
             /\ Reads(work', s0, k0, x) => free_events[x] = None
          \/ free_events'[x] = {EventOn(work', t) : t \in stream_uses'[x]}
      BY <1>16, <1>27, <1>33
    <2> QED BY <2>1, <2>2, <2>3
  <1>35. FreeIsDone'
    <2>1. free_events'[Leaf] = None
      BY <1>27, TensorTypes DEF SyncInv, FreeIsDone
    <2>2. free_events'[sum] = None
      BY <1>9, <1>27, <1>33
    <2> QED BY <1>1, <1>9, <2>1, <2>2 DEF FreeIsDone
  <1>36. GradReady'
    <2> SUFFICES ASSUME NEW q \in Producers, stage'[q] = "called"
                 PROVE  /\ block_stream'[Grad(q)] = CurrentStream(q, device)'
                        /\ \E r \in Streams : \E j \in 1 .. Len(work'[r]) : GradMade(q, r, j)'
      BY DEF GradReady
    <2>1. stage[q] = "called" /\ q # p
      BY <1>1, AddedTouches
    <2>2. Grad(q) \in Tensors /\ Grad(q) # g /\ Grad(q) # z /\ Grad(q) # b
      <3>1. Unread(Grad(q))
        BY <2>1 DEF Unread
      <3> QED BY <1>6, <1>7, <1>8, <2>1, <3>1, TensorTypes, TensorsDiffer
    <2>3. block_stream'[Grad(q)] = block_stream[Grad(q)] /\ ~Writes(work', s0, k0, Grad(q))
      BY <1>9, <1>16, <1>26, <2>2
    <2> QED BY <1>2, <1>10, <2>1, <2>3, GradKept
  <1>37. BufferMade(s0, k0)'
    <2>1. Made(sum, s0, k0, a \cup {p})'
      BY <1>2, <1>10, <1>11, <1>15, <1>16 DEF Made
    <2>2. ASSUME NEW t \in Streams, NEW m \in 1 .. Len(work'[t]), Writes(work', t, m, sum)
          PROVE  HB(work', t, m, s0, k0)
      <3>1. CASE t = s0 /\ m = k0
        BY <3>1, HBOrder
      <3>2. CASE Writes(work, t, m, sum)
        <4>1. m \in 1 .. Len(work[t])
          BY <3>2 DEF Writes
        <4>2. sum # z
          BY <1>2, <1>8, <3>2, <4>1 DEF SyncInv, TouchedOnly
        <4>3. CASE sum = b
          <5>1. HB(work', t, m, rb, jb)
            BY <1>21, <3>2, <4>1, <4>3
          <5>2. HB(work', t, m, s0, k0 - 1)
            BY <1>15, <1>19, <5>1, HBTrans
          <5> QED BY <1>15, <5>2, HBLater
        <4>4. CASE sum = g
          <5>1. HB(work', t, m, rg, jg)
            BY <1>22, <3>2, <4>1, <4>4
          <5>2. HB(work', t, m, s0, k0 - 1)
            BY <1>15, <1>20, <5>1, HBTrans
          <5> QED BY <1>15, <5>2, HBLater
        <4> QED BY <1>9, <4>2, <4>3, <4>4
      <3> QED BY <1>10, <1>12, <2>2, <3>1, <3>2, NewOnly
    <2>3. Last(sum, s0, k0)'
      BY <2>2 DEF Last
    <2>4. buffer' = sum /\ arrived' = a \cup {p} /\ ready_stream' = s0 /\ opt_accum_stream' = s0
      BY <1>1, <1>4, <1>5
    <2>5. HB(work', s0, k0, s0, k0)
      BY HBOrder
    <2>6. ASSUME Awaited' PROVE ready_event' = EventOn(work', s0)
      BY <1>1, <1>2, <1>4, <2>4, <2>6 DEF Awaited, config
    <2>7. EventOn(work', s0).stream = s0 /\ EventOn(work', s0).count = k0 /\ k0 <= Len(work'[s0])
      BY <1>10, <1>15 DEF EventOn
    <2>8. Made(buffer, s0, k0, arrived)' /\ Last(buffer, s0, k0)'
      BY <2>1, <2>3, <2>4 DEF Made, Last
    <2>9. HB(work', s0, k0, ready_stream', Len(work'[ready_stream']))
      BY <1>10, <2>4, <2>5
    <2>10. ASSUME Awaited'
           PROVE  /\ HB(work', s0, k0, ready_event'.stream, ready_event'.count)
                  /\ ready_event'.count <= Len(work'[ready_event'.stream])
      BY <2>5, <2>6, <2>7, <2>10
    <2> QED BY <2>8, <2>9, <2>10 DEF BufferMade
  <1>38. BufferReady'
    <2>1. buffer' = sum /\ opt_accum_stream' = s0 /\ device' = device /\ consumer_stream' = consumer_stream
      BY <1>1, <1>2, <1>4 DEF config
    <2>2. ~(Unread(sum)')
      BY <1>9, <1>31
    <2>3. ~Unread(buffer)'
      BY <2>1, <2>2 DEF Unread, Untouched
    <2>4. s0 = block_stream'[sum] \/ s0 \in stream_uses'[sum]
      BY <1>9, <1>25, <1>26
    <2> QED BY <1>6, <1>9, <1>15, <1>37, <2>1, <2>3, <2>4 DEF BufferReady
  <1>39. LeafReady'
    BY <1>2 DEF LeafReady
  <1> QED BY <1>24, <1>28, <1>29, <1>30, <1>32, <1>34, <1>35, <1>36, <1>38, <1>39 DEF SyncInv

-----------------------------------------------------------------------------
LEMMA NextSync == SyncInv /\ [Next]_vars => SyncInv'
  <1> SUFFICES ASSUME SyncInv, [Next]_vars PROVE SyncInv'
    OBVIOUS
  <1>1. CASE UNCHANGED vars
    <2>1. /\ config' = config /\ stage' = stage /\ consumer' = consumer /\ arrived' = arrived /\ slot' = slot
          /\ work' = work /\ done' = done /\ content' = content /\ wrong' = wrong /\ blocks' = blocks
      BY <1>1 DEF vars
    <2>2. IInv'
      BY NextIInv DEF SyncInv
    <2>3. PICK s0 \in Streams : Grown(work, work', s0, 0)
      BY <2>1, GrownNot DEF SyncInv, IInv, TypeOK
    <2>4. \A x : ~Writes(work', s0, 0, x) /\ ~Reads(work', s0, 0, x)
      BY DEF Writes, Reads
    <2>5. Blocks' /\ NothingWrong' /\ OpsRight'
      BY <2>1 DEF SyncInv, Blocks, NothingWrong, OpsRight, blocks, slot
    <2>6. ReadersSupplied'
      BY <2>1, <2>3, <2>4, ReadersKept
    <2>7. TouchedOnly' /\ Covered' /\ FreeIsDone'
      BY <2>1 DEF SyncInv, TouchedOnly, Unread, Untouched, Covered, FreeIsDone, blocks, slot
    <2>8. GradReady'
      BY <2>1, <2>3, <2>4, GradKept DEF GradReady, blocks
    <2>9. BufferReady'
      BY <2>1 DEF SyncInv, BufferReady, BufferMade, Made, Last, Awaited, Unread, Untouched, blocks, config, slot
    <2>10. LeafReady'
      BY <2>1 DEF SyncInv, LeafReady, LeafMade, Made, Last, CallerStream, LeafDevice, Current, config
    <2> QED BY <2>2, <2>8, <2>9, <2>10, <2>5, <2>6, <2>7 DEF SyncInv
  <1>2. CASE HostStep
    BY <1>2, CallProducerSync, AddUndefinedSync, AddFirstSync, AddNextSync, CallConsumerSync,
       DropBufferSync, ExecPostProcessingSync, UseGradientSync DEF HostStep
  <1> QED BY <1>1, <1>2, ExecuteSync, ReuseBlockSync DEF Next

(* Whatever the order in which the devices run what the host queued: the    *)
(* kernel of accumulate() adds up two gradients that were both produced,    *)
(* the consumer's kernel sees the sum of all producers' gradients, and      *)
(* neither reads memory the caching allocator gave to somebody else.  The   *)
(* waits and the record_stream calls of InputBuffer::add and                *)
(* evaluate_function are enough for that, whichever streams the nodes have. *)
THEOREM OperandsAreAlwaysReady == Spec => []OperandsAreReady
  <1>1. SyncInv => OperandsAreReady
    BY DEF SyncInv, NothingWrong, OperandsAreReady
  <1> QED BY <1>1, InitSync, NextSync, PTL DEF Spec

(* After backward() the caller may use the gradients on the stream that was *)
(* current when it called: exec_post_processing made that stream wait for   *)
(* the stream of the leaf.                                                  *)
THEOREM CallerAlwaysSeesGradients == Spec => []CallerSeesGradients
  <1>1. SyncInv => CallerSeesGradients
    BY DEF SyncInv, NothingWrong, CallerSeesGradients
  <1> QED BY <1>1, InitSync, NextSync, PTL DEF Spec
=============================================================================
