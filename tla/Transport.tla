------------------------------ MODULE Transport ------------------------------
(***************************************************************************)
(* The path of an event from the probe to the reassembler: emit() of        *)
(* usbscope-ebpf cuts metadata, frame descriptors and payload into records, *)
(* several CPUs reserve them in one BPF ring buffer, and the collector      *)
(* consumes the ring in reservation order and pushes every record.          *)
(*                                                                         *)
(* One action is one callback iteration of bpf_loop, or one reservation and *)
(* its write.  The byte at position p of an URB's buffer is the number p,   *)
(* so that a byte delivered at a wrong place shows.                         *)
(***************************************************************************)
EXTENDS Reassembler

CONSTANTS
    Cpus,
    Shapes,         \* the URBs events are emitted for (see ShapeFields)
    CHUNK_SIZE,     \* payload bytes of one record
    RingSize,       \* capacity of the ring, in units of a small record
    ChunkWeight,    \* units that a payload chunk takes
    MaxLoops,       \* bpf_loop refuses more iterations
    Faults,         \* which kernel reads may fail
    MaxFaults,      \* bound: how many of them do
    MaxEvents       \* bound: how many events are emitted

ShapeFields == {"event_type", "in", "iso", "requested", "actual", "buffer",
                "num_sgs", "sg", "frames"}

\* struct scatterlist: where the segment's memory begins in the URB's buffer, and
\* what the low bits of page_link say: the last segment; or no segment, but
\* the address of the array that goes on (0 if it is a segment).
SlotFields == {"start", "length", "last", "chain"}

ASSUME TransportAssumption ==
    /\ CHUNK_SIZE \in Nat \ {0} /\ ChunkWeight \in Nat \ {0}
    /\ RingSize \in Nat /\ MaxLoops \in Nat
    /\ MaxFaults \in Nat /\ MaxEvents \in Nat
    /\ Ids = 1 .. MaxEvents
    /\ Faults \subseteq {"urb_read", "iso_read", "payload_read", "sg_read"}
    /\ \A s \in Shapes : /\ DOMAIN s = ShapeFields
                         /\ \A k \in DOMAIN s.sg : DOMAIN s.sg[k] = SlotFields

VARIABLES
    sg_supported,   \* config.memory.page_shift # 0
    cpu,            \* [Cpus -> the emit() that runs there, or Idle]
    ring,           \* EVENTS: the reserved records, oldest first
    stats,          \* the loss counters of STATS, summed over the CPUs
    shape,          \* ghost: [1 .. ids drawn -> the shape of that event]
    attempts,       \* ghost: how often emit() was entered
    errors          \* ghost: how many faults have happened

emission == <<sg_supported, cpu, shape, attempts>>
vars == <<sg_supported, cpu, ring, stats, shape, attempts, errors,
          pending, reassembly, delivered, failed, begun>>

Idle == [pc |-> "idle"]

LOSS_RING == 1
LOSS_READ == 2
LOSS_UNSUPPORTED_BUFFER == 3

-----------------------------------------------------------------------------
(* The BPF ring buffer (external) *)

Weight(rec) == IF rec.kind = "data" THEN ChunkWeight ELSE 1

Used == Total([i \in DOMAIN ring |-> Weight(ring[i].record)])

Fits(rec) == Used + Weight(rec) <= RingSize

Slot(state, c, rec) == [state |-> state, cpu |-> c, record |-> rec]

\* reserve() then submit(), with nothing in between that can fail.
Publish(c, rec) == ring' = Append(ring, Slot("ready", c, rec))

\* submit() or discard() of the reservation this CPU holds.
Settle(c, state) ==
    ring' = [i \in DOMAIN ring |->
                IF ring[i].cpu = c /\ ring[i].state = "busy"
                THEN [ring[i] EXCEPT !.state = state] ELSE ring[i]]

-----------------------------------------------------------------------------
(* The URB as emit() reads it *)

\* core_read_iso(): the length asked for at submission, the actual one later.
Descriptor(s, i) ==
    [offset |-> s.frames[i].offset,
     length |-> IF s.event_type = "S" THEN s.frames[i].length
                ELSE s.frames[i].actual]

Descriptors(s) == [i \in DOMAIN s.frames |-> Descriptor(s, i)]

\* meta.payload_len: the ISO span, or the length of the data phase.
PayloadLen(s) ==
    CASE ~DataPhase(s) -> 0
      [] DataPhase(s) /\ s.iso -> Span(Descriptors(s))
      [] DataPhase(s) /\ ~s.iso ->
            IF s.event_type = "S" THEN s.requested ELSE s.actual

MetaOf(s) ==
    [event_type |-> s.event_type, in |-> s.in, iso |-> s.iso,
     has_data |-> PayloadLen(s) # 0, requested_len |-> s.requested,
     actual_len |-> s.actual, payload_len |-> PayloadLen(s),
     iso_count |-> IF s.iso THEN Len(s.frames) ELSE 0]

\* iso_measure over all frames, and the bounds check behind it.
Measurable(s) ==
    /\ s.iso => /\ Len(s.frames) <= MaxLoops
                /\ \A d \in Range(Descriptors(s)) : d.offset + d.length <= s.requested
    /\ PayloadLen(s) <= s.requested

Chunks(len) == (len + CHUNK_SIZE - 1) \div CHUNK_SIZE

\* Mutant of SgIterations: as if segments were whole chunks.
MutantSgIterations(s) == Chunks(PayloadLen(s))

\* The iterations copy_sg grants: one short chunk more per segment.
SgIterations(s) == s.num_sgs + Chunks(PayloadLen(s))

\* core_sg_segment() looks at the entry behind a segment that is not the last: it is
\* the next segment, or leads to it.
SgSuccessor(s, k) ==
    IF s.sg[k].last THEN 0
    ELSE IF s.sg[k + 1].chain # 0 THEN s.sg[k + 1].chain ELSE k + 1

\* core_sg_start(): the first entry, or urb->sg is null.
SgFirst(s) == IF s.sg = <<>> THEN 0 ELSE 1

\* The segments of a list lie one behind the other in the URB's buffer.
Consecutive(s) ==
    /\ s.sg # <<>> => s.sg[1].start = 0
    /\ \A k \in DOMAIN s.sg :
          s.sg[k].chain = 0 /\ ~s.sg[k].last =>
             /\ k + 1 \in DOMAIN s.sg /\ SgSuccessor(s, k) \in DOMAIN s.sg
             /\ LET next == s.sg[SgSuccessor(s, k)]
                IN  next.chain = 0 => next.start = s.sg[k].start + s.sg[k].length

ASSUME ShapesAssumption ==
    \A s \in Shapes :
       /\ s.event_type \in {"S", "C", "E"}
       /\ s.in \in BOOLEAN /\ s.iso \in BOOLEAN /\ s.buffer \in BOOLEAN
       /\ s.requested \in Nat /\ s.actual \in Nat /\ s.num_sgs \in Nat
       /\ s.frames \in Seq([offset : Nat, length : Nat, actual : Nat])
       /\ s.sg \in Seq([start : Nat, length : Nat, last : BOOLEAN, chain : Nat])
       /\ Consecutive(s)
       /\ Measurable(s) => PayloadLen(s) <= MaxLength

-----------------------------------------------------------------------------
(* emit() *)

Count(field) == [stats EXCEPT ![field] = @ + 1]

\* A kernel read of this kind fails now.
Faulty(kind) == kind \in Faults /\ errors < MaxFaults /\ errors' = errors + 1

\* CopyContext (source, destination, total, index, done), SgContext (next,
\* segment_left, segments_left, remaining, iteration), and the End record.
Context(s, id) ==
    [pc |-> "begin", id |-> id, copied |-> 0, descriptors |-> 0,
     reason |-> COMPLETE, source |-> 0, destination |-> 0,
     total |-> PayloadLen(s), index |-> 0, done |-> 0, length |-> 0,
     next |-> SgFirst(s), segment_left |-> 0, segments_left |-> s.num_sgs,
     remaining |-> PayloadLen(s), iteration |-> 0]

ShapeOn(c) == shape[cpu[c].id]

\* A probe calls emit(): the URB is read, an id drawn, the frames measured.
Start(c) ==
    /\ cpu[c].pc = "idle"
    /\ attempts < MaxEvents
    /\ attempts' = attempts + 1
    /\ \E s \in Shapes :
          \/ /\ Faulty("urb_read")
             /\ stats' = Count("read_errors")
             /\ UNCHANGED <<cpu, shape>>
          \/ /\ shape' = Append(shape, s)
             /\ \/ /\ Measurable(s)
                   /\ cpu' = [cpu EXCEPT ![c] = Context(s, Len(shape) + 1)]
                   /\ UNCHANGED <<stats, errors>>
                \/ /\ \/ ~Measurable(s) /\ UNCHANGED errors
                      \/ s.iso /\ s.frames # <<>> /\ Faulty("iso_read")
                   /\ stats' = Count("read_errors")
                   /\ UNCHANGED cpu
    /\ UNCHANGED <<sg_supported, ring, reassembler>>

\* What emit() does once the Begin record is out.
Route(s) ==
    CASE s.iso /\ PayloadLen(s) # 0 /\ (s.num_sgs # 0 \/ ~s.buffer) -> "unsupported"
      [] s.iso /\ (PayloadLen(s) = 0 \/ (s.num_sgs = 0 /\ s.buffer)) -> "iso"
      [] ~s.iso /\ PayloadLen(s) = 0 -> "end"
      [] ~s.iso /\ PayloadLen(s) # 0 /\ s.num_sgs # 0 -> "sg_start"
      [] ~s.iso /\ PayloadLen(s) # 0 /\ s.num_sgs = 0 ->
            IF ~s.buffer THEN "unsupported"
            ELSE IF Chunks(PayloadLen(s)) > MaxLoops THEN "too_long" ELSE "copy"

\* Mutant of BeginLost: the rest of the event is sent all the same.
MutantBeginLost(c) ==
    /\ stats' = Count("ring_losses")
    /\ cpu' = [cpu EXCEPT ![c].pc = "end"]
    /\ UNCHANGED ring

\* No room for the Begin record: emit() returns.
BeginLost(c) ==
    /\ stats' = Count("ring_losses")
    /\ cpu' = [cpu EXCEPT ![c] = Idle]
    /\ UNCHANGED ring

\* The Begin record, and what it leads to.
Begin(c) ==
    LET s == ShapeOn(c)
        rec == [kind |-> "begin", id |-> cpu[c].id, meta |-> MetaOf(s)]
    IN  /\ cpu[c].pc = "begin"
        /\ IF ~Fits(rec)
           THEN BeginLost(c)
           ELSE /\ Publish(c, rec)
                /\ CASE Route(s) = "unsupported" ->
                          /\ stats' = Count("unsupported_buffers")
                          /\ cpu' = [cpu EXCEPT ![c].pc = "end",
                                        ![c].reason = LOSS_UNSUPPORTED_BUFFER]
                     [] Route(s) = "too_long" ->
                          /\ stats' = Count("read_errors")
                          /\ cpu' = [cpu EXCEPT ![c].pc = "end", ![c].reason = LOSS_READ]
                     [] Route(s) \in {"iso", "end", "sg_start", "copy"} ->
                          /\ cpu' = [cpu EXCEPT ![c].pc = Route(s)]
                          /\ UNCHANGED stats
        /\ UNCHANGED <<sg_supported, shape, attempts, errors, reassembler>>

\* Mutant of FrameCopy: the copy starts at the URB's buffer, not at the frame.
MutantFrameCopy(ctx, d) ==
    [ctx EXCEPT !.pc = "copy", !.descriptors = @ + 1, !.source = 0,
                !.destination = d.offset, !.total = d.length,
                !.index = 0, !.done = 0]

\* The copy of one frame's data: where it lies in the buffer, and how much.
FrameCopy(ctx, d) ==
    [ctx EXCEPT !.pc = "copy", !.descriptors = @ + 1, !.source = d.offset,
                !.destination = d.offset, !.total = d.length,
                !.index = 0, !.done = 0]

\* iso_emit for the next frame: its descriptor, then its data, unless bpf_loop
\* refuses the rounds that the data needs.
IsoFrame(c) ==
    LET s == ShapeOn(c)
        i == cpu[c].descriptors
        d == Descriptor(s, i + 1)
        rec == [kind |-> "iso", id |-> cpu[c].id, offset |-> i, descriptor |-> d]
    IN  /\ cpu[c].pc = "iso"
        /\ \/ /\ i = Len(s.frames)
              /\ cpu' = [cpu EXCEPT ![c].pc = "end"]
              /\ UNCHANGED <<ring, stats, errors>>
           \/ /\ i < Len(s.frames)
              /\ Faulty("iso_read")
              /\ stats' = Count("read_errors")
              /\ cpu' = [cpu EXCEPT ![c].pc = "end", ![c].reason = LOSS_READ]
              /\ UNCHANGED ring
           \/ /\ i < Len(s.frames) /\ ~Fits(rec)
              /\ stats' = Count("ring_losses")
              /\ cpu' = [cpu EXCEPT ![c].pc = "end", ![c].reason = LOSS_RING]
              /\ UNCHANGED <<ring, errors>>
           \/ /\ i < Len(s.frames) /\ Fits(rec)
              /\ Publish(c, rec)
              /\ IF DataPhase(s) /\ Chunks(d.length) > MaxLoops
                 THEN /\ stats' = Count("read_errors")
                      /\ cpu' = [cpu EXCEPT ![c].descriptors = i + 1,
                                    ![c].pc = "end", ![c].reason = LOSS_READ]
                 ELSE /\ cpu' = IF DataPhase(s) /\ d.length # 0
                                THEN [cpu EXCEPT ![c] = FrameCopy(@, d)]
                                ELSE [cpu EXCEPT ![c].descriptors = i + 1]
                      /\ UNCHANGED stats
              /\ UNCHANGED errors
        /\ UNCHANGED <<sg_supported, shape, attempts, reassembler>>

\* copy_chunk reserves room for a chunk, or gives up on the event.
ReserveChunk(c, offset, length) ==
    LET ctx == cpu[c]
        rec == [kind |-> "data", id |-> ctx.id,
                offset |-> ctx.destination + offset,
                body |-> [j \in 1 .. length |-> ctx.source + offset + j - 1]]
    IN  IF Fits(rec)
        THEN /\ ring' = Append(ring, Slot("busy", c, rec))
             /\ cpu' = [cpu EXCEPT ![c].pc = "read", ![c].length = length]
             /\ UNCHANGED stats
        ELSE /\ stats' = Count("ring_losses")
             /\ cpu' = [cpu EXCEPT ![c].pc = "end", ![c].reason = LOSS_RING,
                           ![c].copied = @ + ctx.done]
             /\ UNCHANGED ring

\* copy_callback: the next chunk of a buffer or frame, or the end of the loop.
CopyCallback(c) ==
    LET ctx == cpu[c]
        offset == ctx.index * CHUNK_SIZE
    IN  /\ ctx.pc = "copy"
        /\ IF offset >= ctx.total
           THEN /\ cpu' = [cpu EXCEPT ![c].copied = @ + ctx.done, ![c].done = 0,
                              ![c].pc = IF ShapeOn(c).iso THEN "iso" ELSE "end"]
                /\ UNCHANGED <<ring, stats>>
           ELSE ReserveChunk(c, offset, Min({ctx.total - offset, CHUNK_SIZE}))
        /\ UNCHANGED <<sg_supported, shape, attempts, errors, reassembler>>

\* copy_sg up to its loop.
SgStart(c) ==
    LET s == ShapeOn(c)
        stop(why, field) ==
            /\ cpu' = [cpu EXCEPT ![c].pc = "end", ![c].reason = why]
            /\ stats' = [stats EXCEPT !["sg_events"] = @ + 1, ![field] = @ + 1]
    IN  /\ cpu[c].pc = "sg_start"
        /\ \/ ~sg_supported /\ stop(LOSS_UNSUPPORTED_BUFFER, "unsupported_buffers")
              /\ UNCHANGED errors
           \/ sg_supported /\ Faulty("sg_read") /\ stop(LOSS_READ, "read_errors")
           \/ sg_supported /\ SgIterations(s) > MaxLoops /\ stop(LOSS_READ, "read_errors")
              /\ UNCHANGED errors
           \/ /\ sg_supported /\ SgIterations(s) <= MaxLoops
              /\ cpu' = [cpu EXCEPT ![c].pc = "sg"]
              /\ stats' = Count("sg_events")
              /\ UNCHANGED errors
        /\ UNCHANGED <<sg_supported, ring, shape, attempts, reassembler>>

\* The loop of copy_sg is over: all bytes are out, or the iterations are.
SgDone(c) ==
    /\ cpu[c].pc = "sg"
    /\ cpu[c].remaining = 0 \/ cpu[c].iteration = SgIterations(ShapeOn(c))
    /\ IF cpu[c].remaining # 0
       THEN /\ cpu' = [cpu EXCEPT ![c].pc = "end", ![c].reason = LOSS_READ]
            /\ stats' = Count("read_errors")
       ELSE /\ cpu' = [cpu EXCEPT ![c].pc = "end"]
            /\ UNCHANGED stats
    /\ UNCHANGED <<sg_supported, ring, shape, attempts, errors, reassembler>>

\* There is an entry to go on with, and it is a segment.
HasSegment(ctx, s) ==
    ctx.next # 0 /\ ctx.segments_left # 0 /\ s.sg[ctx.next].chain = 0

\* sg_copy_segment at a segment boundary: the next entry of the list.  An entry
\* of length zero costs the iteration; another one starts its first chunk.
SgNext(c) ==
    LET ctx == cpu[c]
        s == ShapeOn(c)
    IN  /\ ctx.pc = "sg" /\ ctx.remaining # 0 /\ ctx.segment_left = 0
        /\ ctx.iteration < SgIterations(s)
        /\ \/ /\ \/ ~HasSegment(ctx, s) /\ UNCHANGED errors
                 \/ Faulty("sg_read")
              /\ stats' = Count("read_errors")
              /\ cpu' = [cpu EXCEPT ![c].pc = "end", ![c].reason = LOSS_READ]
           \/ /\ HasSegment(ctx, s)
              /\ LET left == Min({s.sg[ctx.next].length, ctx.remaining})
                 IN  cpu' = [cpu EXCEPT
                        ![c].next = SgSuccessor(s, @),
                        ![c].segments_left = @ - 1,
                        ![c].segment_left = left,
                        ![c].source = s.sg[ctx.next].start,
                        ![c].pc = IF left = 0 THEN "sg" ELSE "sg_chunk",
                        ![c].iteration = IF left = 0 THEN @ + 1 ELSE @]
              /\ UNCHANGED <<stats, errors>>
        /\ UNCHANGED <<sg_supported, ring, shape, attempts, reassembler>>

\* sg_copy_segment: the next chunk of the current segment.
SgChunk(c) ==
    LET ctx == cpu[c]
        length == Min({ctx.segment_left, CHUNK_SIZE})
        rec == [kind |-> "data", id |-> ctx.id, offset |-> ctx.copied,
                body |-> [j \in 1 .. length |-> ctx.source + j - 1]]
    IN  /\ \/ ctx.pc = "sg_chunk"
           \/ /\ ctx.pc = "sg" /\ ctx.remaining # 0 /\ ctx.segment_left # 0
              /\ ctx.iteration < SgIterations(ShapeOn(c))
        /\ IF Fits(rec)
           THEN /\ ring' = Append(ring, Slot("busy", c, rec))
                /\ cpu' = [cpu EXCEPT ![c].pc = "sg_read", ![c].length = length]
                /\ UNCHANGED stats
           ELSE /\ stats' = Count("ring_losses")
                /\ cpu' = [cpu EXCEPT ![c].pc = "end", ![c].reason = LOSS_RING]
                /\ UNCHANGED ring
        /\ UNCHANGED <<sg_supported, shape, attempts, errors, reassembler>>

\* copy_chunk reads the payload into its reservation and submits it; the
\* callback that asked for it goes on.
ReadChunk(c) ==
    LET ctx == cpu[c] IN
    /\ ctx.pc \in {"read", "sg_read"}
    /\ Settle(c, "ready")
    /\ cpu' = IF ctx.pc = "read"
              THEN [cpu EXCEPT ![c].pc = "copy", ![c].done = @ + ctx.length,
                       ![c].index = @ + 1]
              ELSE [cpu EXCEPT ![c].pc = "sg", ![c].copied = @ + ctx.length,
                       ![c].source = @ + ctx.length,
                       ![c].segment_left = @ - ctx.length,
                       ![c].remaining = @ - ctx.length, ![c].iteration = @ + 1]
    /\ UNCHANGED <<sg_supported, stats, shape, attempts, errors, reassembler>>

\* Mutant of DiscardChunk: the error path forgets the reservation.
MutantDiscardChunk(c) == UNCHANGED ring

\* chunk.discard()
DiscardChunk(c) == Settle(c, "discarded")

\* The read fails: copy_chunk discards the reservation.
ReadChunkFails(c) ==
    LET ctx == cpu[c] IN
    /\ ctx.pc \in {"read", "sg_read"}
    /\ Faulty("payload_read")
    /\ DiscardChunk(c)
    /\ stats' = Count("read_errors")
    /\ cpu' = [cpu EXCEPT ![c].pc = "end", ![c].reason = LOSS_READ,
                  ![c].copied = @ + ctx.done]
    /\ UNCHANGED <<sg_supported, shape, attempts, reassembler>>

\* Mutant of EndLost: the loss is left to the record that was not sent.
MutantEndLost == UNCHANGED <<ring, stats>>

\* No room for the End record: the event stays open in the reassembler.
EndLost == stats' = Count("ring_losses") /\ UNCHANGED ring

\* The End record.
End(c) ==
    LET ctx == cpu[c]
        rec == [kind |-> "end", id |-> ctx.id, copied |-> ctx.copied,
                descriptors |-> ctx.descriptors, reason |-> ctx.reason]
    IN  /\ ctx.pc = "end"
        /\ cpu' = [cpu EXCEPT ![c] = Idle]
        /\ IF Fits(rec)
           THEN Publish(c, rec) /\ UNCHANGED stats
           ELSE EndLost
        /\ UNCHANGED <<sg_supported, shape, attempts, errors, reassembler>>

-----------------------------------------------------------------------------
(* The collector *)

\* ring.next(): the oldest reservation once it is settled; a discarded one is
\* skipped, any other goes to Reassembler::push.
Consume ==
    /\ ring # <<>>
    /\ Head(ring).state # "busy"
    /\ ~failed
    /\ ring' = Tail(ring)
    /\ IF Head(ring).state = "ready" THEN Push(Head(ring).record)
       ELSE UNCHANGED reassembler
    /\ UNCHANGED <<emission, stats, errors>>

Init ==
    /\ ReassemblerInit
    /\ sg_supported \in BOOLEAN
    /\ cpu = [c \in Cpus |-> Idle]
    /\ ring = <<>>
    /\ stats = [ring_losses |-> 0, read_errors |-> 0,
                unsupported_buffers |-> 0, sg_events |-> 0]
    /\ shape = <<>>
    /\ attempts = 0 /\ errors = 0

\* One step of the emit() that runs on a CPU.
EmitStep(c) ==
    \/ Begin(c) \/ IsoFrame(c) \/ CopyCallback(c)
    \/ SgStart(c) \/ SgDone(c) \/ SgNext(c) \/ SgChunk(c)
    \/ ReadChunk(c) \/ ReadChunkFails(c) \/ End(c)

Next == Consume \/ \E c \in Cpus : Start(c) \/ EmitStep(c)

Spec == Init /\ [][Next]_vars

\* A BPF program runs to its end; the collector polls the ring every 20 ms.
Fairness == WF_vars(Consume) /\ \A c \in Cpus : WF_vars(EmitStep(c))

FairSpec == Spec /\ Fairness

-----------------------------------------------------------------------------
(* Properties *)

KernelLosses ==
    stats.ring_losses + stats.read_errors + stats.unsupported_buffers

AllSettled == ring = <<>> /\ \A c \in Cpus : cpu[c] = Idle

\* Every variable has its type: a slot is busy only while its CPU reads into it.
TypeOK ==
    /\ \A c \in Cpus :
          cpu[c] # Idle =>
             /\ cpu[c].id \in DOMAIN shape
             /\ cpu[c].copied \in Nat /\ cpu[c].remaining \in Nat
             /\ cpu[c].segment_left \in Nat
             /\ cpu[c].reason \in {COMPLETE, LOSS_RING, LOSS_READ,
                                   LOSS_UNSUPPORTED_BUFFER}
    /\ \A i \in DOMAIN ring :
          /\ ring[i].state \in {"busy", "ready", "discarded"}
          /\ ring[i].state = "busy" => cpu[ring[i].cpu].pc \in {"read", "sg_read"}
    /\ Used <= RingSize
    /\ attempts \in 0 .. MaxEvents /\ errors \in 0 .. MaxFaults

\* The offsets of the data phase: those of each frame, or all.
Needed(s) ==
    IF s.iso /\ DataPhase(s)
    THEN UNION {d.offset .. (d.offset + d.length - 1) : d \in Range(Descriptors(s))}
    ELSE 0 .. (PayloadLen(s) - 1)

\* What an event of this shape says: the bytes of the data phase, each from its own
\* place in the buffer, and the frame descriptors in order.
Image(s) ==
    [meta |-> MetaOf(s),
     iso |-> IF s.iso THEN Descriptors(s) ELSE <<>>,
     payload |-> [o \in Offsets |-> IF o \in Needed(s) THEN o ELSE Hole]]

Said(e) == [meta |-> e.meta, iso |-> e.iso, payload |-> e.payload]

\* An event reaches the user with exactly the bytes of its URB and no byte else,
\* however the records of several CPUs interleave and whatever was lost around it.
DeliveredExact == \A e \in delivered : Said(e) = Image(shape[e.id])

\* Each event that emit() was asked for and that does not come out complete is
\* counted in the kernel's own counters, and each count belongs to such an event:
\* "Ring failures have independent map counters" (docs/implementation.md:40),
\* "never disguised as complete data" (docs/usage.md:75).  A lost event costs at
\* most two counts (its data, then its End record).
LossesAreCounted ==
    AllSettled /\ ~failed =>
       LET lost == attempts - reassembly.complete
       IN  lost <= KernelLosses /\ KernelLosses <= 2 * lost

\* A Begin record with nothing wrong but that it opens one event too many.
OneTooMany(rec) ==
    /\ rec.kind = "begin" /\ rec.id \notin Pending /\ ValidMeta(rec.meta)
    /\ Cardinality(Pending) >= MaxPending

\* The reassembler never rejects the kernel's own stream and never meets a record
\* without its event: push() ends a capture only at a Begin record that finds
\* MAX_PENDING_EVENTS others open; no chunk, descriptor, End record or metadata
\* of emit() is refused, whatever was lost before it.
StreamIsAccepted ==
    [][/\ reassembly'.orphan_records = reassembly.orphan_records
       /\ failed' # failed => OneTooMany(Head(ring).record)]_vars

\* The first entries of a list of segments, in its order.
IsWalk(s, walk, n) ==
    /\ walk[1] = 1
    /\ \A k \in 1 .. n : s.sg[walk[k]].chain = 0
    /\ \A k \in 1 .. (n - 1) : walk[k + 1] = SgSuccessor(s, walk[k])

\* Segments of a walk hold the first bytes of the buffer.
HoldsFirst(s, walk, n, bytes) ==
    \A p \in 0 .. (bytes - 1) : \E k \in 1 .. n :
       LET segment == s.sg[walk[k]]
       IN  p \in segment.start .. (segment.start + segment.length - 1)

\* The whole payload lies in memory that emit() has a route to: a buffer, or the first
\* num_sgs segments of a list; and no copy needs more rounds than bpf_loop runs.
Addressable(s) ==
    /\ Measurable(s)
    /\ PayloadLen(s) # 0 =>
          IF s.num_sgs # 0
          THEN /\ sg_supported /\ ~s.iso /\ SgIterations(s) <= MaxLoops
               /\ \E n \in 1 .. s.num_sgs : \E walk \in [1 .. n -> DOMAIN s.sg] :
                     IsWalk(s, walk, n) /\ HoldsFirst(s, walk, n, PayloadLen(s))
          ELSE /\ s.buffer
               /\ IF s.iso
                  THEN \A d \in Range(Descriptors(s)) : Chunks(d.length) <= MaxLoops
                  ELSE Chunks(PayloadLen(s)) <= MaxLoops

\* With room in the ring and no failing read, every event whose buffer can be
\* addressed is complete: the iterations granted to the copy loops suffice,
\* whatever the sizes of chunks, frames and segments.
LossesHaveCauses ==
    AllSettled /\ ~failed /\ errors = 0 /\ stats.ring_losses = 0 =>
       \A id \in DOMAIN shape :
          Addressable(shape[id]) <=> \E e \in delivered : e.id = id

\* Every emit() that started comes to its end, and the collector gets past every
\* reservation: none stays busy at the head of the ring.
EventuallySettled == []<>(failed \/ AllSettled)

\* The event can still come out complete: its emit() has met no loss, or its End
\* record that says so is in the ring.
Alive(id) ==
    \/ \E c \in Cpus : cpu[c] # Idle /\ cpu[c].id = id /\ cpu[c].reason = COMPLETE
    \/ \E i \in DOMAIN ring :
          LET rec == ring[i].record
          IN  rec.kind = "end" /\ rec.id = id /\ rec.reason = COMPLETE

Channel == INSTANCE EventChannel WITH
    Contents <- {Image(s) : s \in Shapes},
    offered <- [id \in DOMAIN shape |-> Image(shape[id])],
    delivered <- {[id |-> e.id, content |-> Said(e)] : e \in delivered},
    lost <- {id \in DOMAIN shape :
                ~Alive(id) /\ ~\E e \in delivered : e.id = id},
    refused <- attempts - Len(shape),
    losses <- KernelLosses

\* The probes, the ring and the reassembler implement the channel: emit() counts a
\* loss in the step that spoils the event, a lost event never comes back, an
\* event with a complete End record is never dropped, and nothing is counted
\* that is not lost.
ImplementsChannel == Channel!Spec

=============================================================================
