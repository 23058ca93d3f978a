----------------------------- MODULE InputBuffer -----------------------------
(***************************************************************************)
(* torch::autograd::InputBuffer and the streams of an accelerator.          *)
(*                                                                          *)
(* A node's gradient kernels run asynchronously on its stream.  Several     *)
(* producers add gradients at one position of the buffer of a consumer;     *)
(* add() sums them on an accumulation stream, evaluate_function makes the   *)
(* consumer's stream wait for the sum, and exec_post_processing makes the   *)
(* stream of the caller of backward() wait for the consumer (a leaf here).  *)
(* The host only queues work: it never waits for a device, and the memory   *)
(* of a tensor it dropped is reused when the caching allocator thinks that  *)
(* nobody uses it.                                                          *)
(*                                                                          *)
(* An event is a stream and the number of operations queued on it when the  *)
(* event was recorded.  The gradients are on accelerators; streams that     *)
(* capture a graph are left out.                                            *)
(***************************************************************************)
EXTENDS Integers, Sequences, FiniteSets

CONSTANTS
    Producers,      \* the nodes that add a gradient
    Devices, Streams,
    DeviceOf,       \* DeviceOf[s]: the device of stream s
    Default,        \* Default[d]: the default stream of device d
    None,
    MaxReuse        \* bound on the blocks of memory that are reused

ASSUME InputBufferAssumption ==
    /\ IsFiniteSet(Producers) /\ None \notin Streams \cup Producers
    /\ None \notin [stream : Streams, count : Nat]
    /\ None \notin (Producers \cup {None}) \X {"grad", "sum", "leaf"}
    /\ DeviceOf \in [Streams -> Devices] /\ Default \in [Devices -> Streams]
    /\ \A d \in Devices : DeviceOf[Default[d]] = d
    /\ MaxReuse \in Nat

(* Tensors: the producers' gradients, the sums accumulate() allocates, and  *)
(* the gradient of the leaf                                                 *)
Grad(p) == <<p, "grad">>
Sum(p)  == <<p, "sum">>
Leaf    == <<None, "leaf">>
Tensors == {Grad(p) : p \in Producers} \cup {Sum(p) : p \in Producers} \cup {Leaf}

VARIABLES
    \* which streams the nodes recorded in the forward pass, and the caller's
    node_stream,        \* node_stream[p]: producer p's canonical stream, or None
    consumer_stream, caller_stream,
    device,             \* the device of the gradients at this position
    \* the host
    stage,              \* stage[p]: "idle", "called", "added"
    consumer,           \* "idle", "ready", "called", "posted" or "used"
    arrived,            \* producers whose defined gradient was added
    \* InputBuffer, at one position
    buffer, opt_accum_stream, ready_event, ready_stream,
    \* the devices
    work, done,         \* work[s]: operations queued on s; done[s] of them ran
    content,            \* content[x]: the gradients summed up in tensor x
    wrong,              \* kinds of operations that read or waited for the wrong thing
    \* the caching allocator
    block_stream,       \* block_stream[x]: the stream tensor x was allocated on
    stream_uses,        \* stream_uses[x]: the streams recorded on it
    free_events,        \* free_events[x]: None, or the events its reuse waits for
    reused              \* the tensors whose memory was given away

config  == <<node_stream, consumer_stream, caller_stream, device>>
slot    == <<buffer, opt_accum_stream, ready_event, ready_stream>>
blocks  == <<block_stream, stream_uses, free_events, reused>>
vars    == <<config, stage, consumer, arrived, slot, work, done, content, wrong, blocks>>

-----------------------------------------------------------------------------
(* Operations on a stream, and the queues w after the host queued one *)
Kernel(kind, reads, writes, gives, want) ==
    [kind |-> kind, reads |-> reads, writes |-> writes, gives |-> gives, want |-> want]
Wait(e)  == [kind |-> "wait", event |-> e]
Reuse(x) == [kind |-> "reuse", writes |-> x]

Queue(w, s, op) == [w EXCEPT ![s] = Append(@, op)]

EventOn(w, s) == [stream |-> s, count |-> Len(w[s])]
Complete(e)   == done[e.stream] >= e.count

(* s.wait(e), where e may be missing: the assertion in front of it fails *)
WaitFor(w, s, e) == IF e = None THEN w ELSE Queue(w, s, Wait(e))

(* s waits for everything queued on r so far *)
Follow(w, s, r) == WaitFor(w, s, EventOn(w, r))

(* record_stream_any_impl and the allocator's recordStream, which ignores   *)
(* the stream the block was allocated on                                    *)
RecordStream(uses, x, s) ==
    IF DeviceOf[s] = device /\ s # block_stream[x]
      THEN [uses EXCEPT ![x] = @ \cup {s}] ELSE uses

(* The allocator's free of the tensors xs: an event on every stream used *)
Freed(w, uses, xs) ==
    [x \in Tensors |-> IF x \in xs THEN {EventOn(w, s) : s \in uses[x]} ELSE free_events[x]]

-----------------------------------------------------------------------------
(* The current stream of device d on a thread that switched to stream s *)
Current(s, d) == IF DeviceOf[s] = d THEN s ELSE Default[d]

(* ... and on the thread that runs producer p: the stream guard switched to *)
(* the node's stream, and nodes without one run on the caller's thread.     *)
CurrentStream(p, d) ==
    Current(IF node_stream[p] = None THEN caller_stream ELSE node_stream[p], d)

(* caller_current_streams_, stashed when backward() was called *)
CallerStream(d) == Current(caller_stream, d)

(* add(): a producer without a stream gets the current one *)
ProducerStream(p) == IF node_stream[p] = None THEN CurrentStream(p, device) ELSE node_stream[p]

(* call_function: the kernel runs on the current stream of the gradient's   *)
(* device; Note [Stream sync contract ...]: a node with another canonical   *)
(* stream has the gradient ready on that one.                               *)
CallProducer(p) ==
    LET s == CurrentStream(p, device)
        w == Queue(work, s, Kernel("grad", {}, Grad(p), {p}, {p}))
    IN  /\ stage[p] = "idle"
        /\ work' = IF ProducerStream(p) = s THEN w ELSE Follow(w, ProducerStream(p), s)
        /\ block_stream' = [block_stream EXCEPT ![Grad(p)] = s]
        /\ stage' = [stage EXCEPT ![p] = "called"]
        /\ UNCHANGED <<config, consumer, arrived, slot, done, content, wrong, stream_uses,
                       free_events, reused>>

(* The consumer is queued when the last dependency was added *)
ConsumerAfter(p) ==
    IF \A q \in Producers \ {p} : stage[q] = "added" THEN "ready" ELSE "idle"

Added(p) ==
    /\ stage[p] = "called"
    /\ stage' = [stage EXCEPT ![p] = "added"]
    /\ consumer' = ConsumerAfter(p)
    /\ UNCHANGED <<config, done, content, reused>>

(* The function returned an undefined gradient: add() returns at once *)
AddUndefined(p) ==
    /\ Added(p)
    /\ UNCHANGED <<arrived, slot, work, wrong, block_stream, stream_uses, free_events>>

(* Cases A, B and C of add() *)
AccumStream(p) ==
    IF DeviceOf[consumer_stream] = device THEN consumer_stream
    ELSE IF DeviceOf[ProducerStream(p)] = device THEN ProducerStream(p)
    ELSE CurrentStream(p, device)

(* Mutant: only the accumulation is thought of *)
AccumWaits(p) == AccumStream(p) # ProducerStream(p)

(* An event is recorded only if somebody may have to wait for it *)
NeedsEvent(p) ==
    consumer_stream # ProducerStream(p) \/ AccumStream(p) # ProducerStream(p)

AddFirst(p) ==
    /\ opt_accum_stream = None
    /\ Added(p)
    /\ arrived' = {p}
    /\ buffer' = Grad(p)
    /\ opt_accum_stream' = AccumStream(p)
    /\ ready_stream' = ProducerStream(p)
    /\ ready_event' = IF NeedsEvent(p) THEN EventOn(work, ProducerStream(p)) ELSE ready_event
    /\ stream_uses' = IF AccumStream(p) = consumer_stream /\ consumer_stream # ProducerStream(p)
                        THEN RecordStream(stream_uses, Grad(p), consumer_stream)
                        ELSE stream_uses
    /\ UNCHANGED <<work, wrong, block_stream, free_events>>

(* Mutant: the new gradient is only waited for *)
UsesOfNewUnrecorded(p, s) == stream_uses

(* The stream uses after var was recorded on the accumulation stream s *)
UsesOfNew(p, s) ==
    IF s = ProducerStream(p) THEN stream_uses ELSE RecordStream(stream_uses, Grad(p), s)

(* accumulate(): the sum is stored in the old tensor or (sparse) in the new *)
(* one if nobody else has it, or in a tensor of its own; what is not kept   *)
(* is dropped.                                                              *)
AddNext(p, sum) ==
    LET s  == opt_accum_stream
        w1 == IF s = ProducerStream(p) THEN work ELSE Follow(work, s, ProducerStream(p))
        w2 == IF s = ready_stream THEN w1 ELSE WaitFor(w1, s, ready_event)
        w3 == Queue(w2, s, Kernel("sum", {buffer, Grad(p)}, sum, {}, arrived \cup {p}))
        u1 == UsesOfNew(p, s)
        u2 == IF s = ready_stream THEN u1 ELSE RecordStream(u1, buffer, s)
    IN  /\ opt_accum_stream # None
        /\ Added(p)
        /\ arrived' = arrived \cup {p}
        /\ buffer' = sum
        /\ work' = w3
        /\ wrong' = IF s # ready_stream /\ ready_event = None
                      THEN wrong \cup {"event"} ELSE wrong
        /\ stream_uses' = u2
        /\ free_events' = Freed(w3, u2, {buffer, Grad(p)} \ {sum})
        /\ block_stream' = IF sum = Sum(p) THEN [block_stream EXCEPT ![sum] = s] ELSE block_stream
        /\ ready_event' = IF consumer_stream = s THEN ready_event ELSE EventOn(w3, s)
        /\ ready_stream' = s
        /\ UNCHANGED opt_accum_stream

-----------------------------------------------------------------------------
ConsumerWaits == consumer_stream # ready_stream

(* evaluate_function of the consumer: its stream waits for the sum and its  *)
(* kernel is queued.  A function that reads a tensor of another device is   *)
(* to keep it alive on its own streams.                                     *)
CallConsumer ==
    LET w == IF ConsumerWaits THEN WaitFor(work, consumer_stream, ready_event) ELSE work
    IN  /\ consumer = "ready" /\ arrived # {}
        /\ work' = Queue(w, consumer_stream, Kernel("leaf", {buffer}, Leaf, {}, arrived))
        /\ wrong' = IF ConsumerWaits /\ ready_event = None THEN wrong \cup {"event"} ELSE wrong
        /\ stream_uses' = IF DeviceOf[consumer_stream] = device THEN stream_uses
                          ELSE [stream_uses EXCEPT ![buffer] = @ \cup {consumer_stream}]
        /\ consumer' = "called"
        /\ UNCHANGED <<config, stage, arrived, slot, done, content, block_stream, free_events,
                       reused>>

(* The function returned, and its input buffer is destroyed *)
DropBuffer ==
    /\ consumer = "called" /\ buffer # None
    /\ buffer' = None
    /\ free_events' = Freed(work, stream_uses, {buffer})
    /\ UNCHANGED <<config, stage, consumer, arrived, opt_accum_stream, ready_event, ready_stream,
                   work, done, content, wrong, block_stream, stream_uses, reused>>

(* Mutant: the caller's stream is not synchronised *)
CallerIgnoresLeaf(w) == w

LeafDevice == DeviceOf[consumer_stream]

(* exec_post_processing: the caller's stream on the device of a leaf stream *)
(* waits for it.  The test that this stream was stashed is left out: a      *)
(* device on which a leaf ran had a context before the pass, which is what  *)
(* the comment in the code says it expects.                                 *)
SyncCaller(w) ==
    IF consumer_stream = CallerStream(LeafDevice) THEN w
    ELSE Follow(w, CallerStream(LeafDevice), consumer_stream)

ExecPostProcessing ==
    /\ consumer = "called" /\ buffer = None
    /\ work' = SyncCaller(work)
    /\ consumer' = "posted"
    /\ UNCHANGED <<config, stage, arrived, slot, done, content, wrong, blocks>>

(* backward() returned, and the user reads the gradient on the stream that  *)
(* was current when it was called                                           *)
UseGradient ==
    /\ consumer = "posted"
    /\ work' = Queue(work, CallerStream(LeafDevice), Kernel("use", {Leaf}, None, {}, arrived))
    /\ consumer' = "used"
    /\ UNCHANGED <<config, stage, arrived, slot, done, content, wrong, blocks>>

-----------------------------------------------------------------------------
(* A stream runs its operations in order.  A kernel adds up what its        *)
(* operands hold at that moment, which is to be what the host meant.        *)
Sees(op) == op.gives \cup UNION {content[x] : x \in op.reads}

RunKernel(op) ==
    /\ content' = [x \in Tensors |-> IF x = op.writes THEN Sees(op) ELSE content[x]]
    /\ wrong' = IF Sees(op) = op.want THEN wrong ELSE wrong \cup {op.kind}

Execute(s) ==
    /\ done[s] < Len(work[s])
    /\ LET op == work[s][done[s] + 1]
       IN  CASE op.kind = "wait"  -> Complete(op.event) /\ UNCHANGED <<content, wrong>>
             [] op.kind = "reuse" -> content' = [content EXCEPT ![op.writes] = {}] /\ UNCHANGED wrong
             [] OTHER             -> RunKernel(op)
    /\ done' = [done EXCEPT ![s] = @ + 1]
    /\ UNCHANGED <<config, stage, consumer, arrived, slot, work, blocks>>

(* process_events found the events of a freed block complete, and the next  *)
(* allocation on its stream gets the memory: what is queued there next      *)
(* overwrites it.                                                           *)
ReuseBlock(x) ==
    /\ free_events[x] # None /\ x \notin reused /\ Cardinality(reused) < MaxReuse
    /\ \A e \in free_events[x] : Complete(e)
    /\ reused' = reused \cup {x}
    /\ work' = Queue(work, block_stream[x], Reuse(x))
    /\ UNCHANGED <<config, stage, consumer, arrived, slot, done, content, wrong, block_stream,
                   stream_uses, free_events>>

-----------------------------------------------------------------------------
Init ==
    /\ node_stream \in [Producers -> Streams \cup {None}]
    /\ consumer_stream \in Streams /\ caller_stream \in Streams /\ device \in Devices
    /\ stage = [p \in Producers |-> "idle"] /\ consumer = "idle" /\ arrived = {}
    /\ buffer = None /\ opt_accum_stream = None /\ ready_event = None /\ ready_stream = None
    /\ work = [s \in Streams |-> <<>>] /\ done = [s \in Streams |-> 0]
    /\ content = [x \in Tensors |-> {}] /\ wrong = {}
    /\ block_stream = [x \in Tensors |-> None]
    /\ stream_uses = [x \in Tensors |-> {}]
    /\ free_events = [x \in Tensors |-> None]
    /\ reused = {}

HostStep ==
    \/ \E p \in Producers :
          \/ CallProducer(p) \/ AddUndefined(p) \/ AddFirst(p)
          \/ \E sum \in {buffer, Grad(p), Sum(p)} : AddNext(p, sum)
    \/ CallConsumer \/ DropBuffer \/ ExecPostProcessing \/ UseGradient

Next ==
    \/ HostStep
    \/ \E s \in Streams : Execute(s)
    \/ \E x \in Tensors : ReuseBlock(x)

Spec == Init /\ [][Next]_vars

-----------------------------------------------------------------------------
(* add() does not record an event "if we know that we won't need to wait on *)
(* it": whenever add() or evaluate_function waits, the event is there (the  *)
(* assertions on ready_event hold).                                         *)
EventsAreThere == "event" \notin wrong

(* Whatever the order in which the devices work, a kernel that sums two     *)
(* gradients runs after both were produced, the consumer's kernel after the *)
(* sum of all producers, and neither reads memory that was given away.      *)
OperandsAreReady == wrong \cap {"sum", "leaf"} = {}

(* After backward() the gradients may be used on the stream that was        *)
(* current when it was called, without further synchronisation.             *)
CallerSeesGradients == "use" \notin wrong
=============================================================================
