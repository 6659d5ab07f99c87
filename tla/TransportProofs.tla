--------------------------- MODULE TransportProofs ---------------------------
(***************************************************************************)
(* Proofs about the path from emit() to the reassembler, for any number of  *)
(* CPUs, any shapes, ring and chunk sizes.  What one emit() does is stated  *)
(* once, of its own context (ContextOK) and of the records it writes        *)
(* (Honest); that those records reach the reassembler in an order it        *)
(* accepts is a chain of states through the ring (Linked), from what is     *)
(* open in the reassembler to what the CPU does next.                       *)
(***************************************************************************)
EXTENDS Transport, ReassemblerProofs

-----------------------------------------------------------------------------
(* What an event is made of *)

FrameLengths(s) == [i \in DOMAIN s.frames |-> Descriptor(s, i).length]

\* The bytes of the first f frames.
SumTo(s, f) == Total(SubSeq(FrameLengths(s), 1, f))

\* The bytes sent when f frames are done.
Sent(s, f) == IF s.iso /\ DataPhase(s) THEN SumTo(s, f) ELSE PayloadLen(s)

FrameCount(s) == IF s.iso THEN Len(s.frames) ELSE 0

\* f descriptors and n bytes are all there is.
Everything(s, f, n) ==
    /\ f = FrameCount(s) /\ n = Sent(s, f)
    /\ PayloadLen(s) = 0 => n = 0

-----------------------------------------------------------------------------
(* One emit() *)

ContextFields ==
    {"pc", "id", "copied", "descriptors", "reason", "source", "destination",
     "total", "index", "done", "length", "next", "segment_left",
     "segments_left", "remaining", "iteration"}

SgPcs == {"sg_start", "sg", "sg_chunk", "sg_read"}

ContextTypes(x) ==
    /\ DOMAIN x = ContextFields
    /\ x.pc \in {"begin", "iso", "copy", "read", "end"} \cup SgPcs
    /\ x.copied \in Nat /\ x.descriptors \in Nat /\ x.source \in Nat
    /\ x.destination \in Nat /\ x.total \in Nat /\ x.index \in Nat
    /\ x.done \in Nat /\ x.length \in Nat /\ x.next \in Nat
    /\ x.segment_left \in Nat /\ x.segments_left \in Nat
    /\ x.remaining \in Nat /\ x.iteration \in Nat
    /\ x.reason \in {COMPLETE, LOSS_RING, LOSS_READ, LOSS_UNSUPPORTED_BUFFER}

\* The loop over the frames is between two of them.
IsoContext(x, s) ==
    /\ s.iso /\ x.descriptors <= Len(s.frames) /\ x.done = 0
    /\ x.copied = Sent(s, x.descriptors)
    /\ PayloadLen(s) = 0 => x.copied = 0

\* A buffer or a frame is being copied: from its own place, and chunk by chunk.
CopyContext(x, s) ==
    /\ DataPhase(s) /\ PayloadLen(s) # 0 /\ x.source = x.destination
    /\ IF s.iso
       THEN LET d == Descriptor(s, x.descriptors) IN
            /\ x.descriptors \in 1 .. Len(s.frames)
            /\ x.destination = d.offset /\ x.total = d.length
            /\ x.copied = SumTo(s, x.descriptors - 1)
       ELSE /\ x.destination = 0 /\ x.total = PayloadLen(s)
            /\ x.copied = 0 /\ x.descriptors = 0
    /\ IF x.pc = "read"
       THEN /\ x.done = x.index * CHUNK_SIZE /\ x.done < x.total
            /\ x.length = IF x.total - x.done <= CHUNK_SIZE
                          THEN x.total - x.done ELSE CHUNK_SIZE
       ELSE x.done = IF x.index * CHUNK_SIZE < x.total
                     THEN x.index * CHUNK_SIZE ELSE x.total

\* A list of segments is being copied: the current one goes on where the copy
\* stands, and the next one where the current one ends.
SgContext(x, s) ==
    /\ ~s.iso /\ s.num_sgs # 0 /\ PayloadLen(s) # 0
    /\ x.descriptors = 0 /\ x.done = 0
    /\ x.copied + x.remaining = PayloadLen(s)
    /\ x.segment_left <= x.remaining
    /\ x.segment_left # 0 => x.source = x.copied
    /\ x.next # 0 =>
          /\ x.next \in DOMAIN s.sg
          /\ s.sg[x.next].chain = 0 /\ x.segment_left # x.remaining =>
                s.sg[x.next].start = x.copied + x.segment_left
    /\ x.pc = "sg_chunk" => x.segment_left # 0
    /\ x.pc = "sg_read" => x.length # 0 /\ x.length <= x.segment_left

ContextOK(x, s) ==
    /\ ContextTypes(x) /\ Measurable(s)
    /\ x.pc # "end" => x.reason = COMPLETE
    /\ x.pc = "begin" => x = Context(s, x.id)
    /\ x.pc = "iso" => IsoContext(x, s)
    /\ x.pc \in {"copy", "read"} => CopyContext(x, s)
    /\ x.pc \in SgPcs => SgContext(x, s)
    /\ x.pc = "end" /\ x.reason = COMPLETE =>
          x.done = 0 /\ Everything(s, x.descriptors, x.copied)

-----------------------------------------------------------------------------
(* The records *)

\* A record says of its event what is so.
Honest(rec, s) ==
    /\ Measurable(s)
    /\ \/ rec.kind = "begin" /\ rec.meta = MetaOf(s)
       \/ /\ rec.kind = "data" /\ rec.offset \in Nat
          /\ rec.body \in Seq(Nat) /\ rec.body # <<>>
          /\ \A j \in 1 .. Len(rec.body) :
                rec.body[j] = rec.offset + j - 1 /\ rec.body[j] \in Needed(s)
       \/ /\ rec.kind = "iso" /\ s.iso
          /\ rec.offset \in Nat /\ rec.offset < Len(s.frames)
          /\ rec.descriptor = Descriptor(s, rec.offset + 1)
       \/ rec.kind = "end" /\ rec.copied \in Nat /\ rec.descriptors \in Nat

\* What the reassembler has been told of an event.
Stage(stage, f, n) == [stage |-> stage, frames |-> f, bytes |-> n]
New == Stage("new", 0, 0)
Stages == [stage : {"new", "open", "closed"}, frames : Nat, bytes : Nat]

\* Where the byte goes that comes next.
Place(s, a) ==
    IF s.iso THEN Descriptor(s, a.frames).offset + (a.bytes - SumTo(s, a.frames - 1))
    ELSE a.bytes

\* A record takes the event from stage a to stage b.
Told(s, a, rec, b) ==
    \/ rec.kind = "begin" /\ a = New /\ b = Stage("open", 0, 0)
    \/ /\ rec.kind = "iso" /\ a.stage = "open"
       /\ rec.offset = a.frames
       /\ s.iso /\ DataPhase(s) => a.bytes = SumTo(s, a.frames)
       /\ b = Stage("open", a.frames + 1, a.bytes)
    \/ /\ rec.kind = "data" /\ a.stage = "open"
       /\ s.iso => a.frames \in 1 .. Len(s.frames) /\ SumTo(s, a.frames - 1) <= a.bytes
       /\ rec.offset = Place(s, a)
       /\ b = Stage("open", a.frames, a.bytes + Len(rec.body))
    \/ /\ rec.kind = "end" /\ a.stage = "open" /\ b.stage = "closed"
       /\ rec.reason = COMPLETE =>
             /\ rec.descriptors = a.frames /\ rec.copied = a.bytes
             /\ Everything(s, a.frames, a.bytes)

\* The same for a slot of the ring; a discarded one says nothing.
Link(id, s, a, slot, b) ==
    IF slot.record.id = id /\ slot.state # "discarded"
    THEN Told(s, a, slot.record, b) ELSE b = a

\* The bytes that an emit() has put into the ring.
Written(x) ==
    x.copied + x.done + (IF x.pc \in {"read", "sg_read"} THEN x.length ELSE 0)

\* The stage at the end of the ring is where emit() stands.
Agrees(a, x) ==
    /\ x.pc = "begin" => a = New
    /\ x.pc # "begin" => a.stage = "open"
    /\ x.pc # "begin" /\ x.reason = COMPLETE =>
          a.frames = x.descriptors /\ a.bytes = Written(x)

Runs(c, id) == cpu[c] # Idle /\ cpu[c].id = id

Done == {e.id : e \in delivered}

\* P is the chain of stages that the ring takes an event through.
Linked(id, P) ==
    /\ P \in [0 .. Len(ring) -> Stages]
    /\ \A i \in 1 .. Len(ring) : Link(id, shape[id], P[i - 1], ring[i], P[i])
    /\ \A i, j \in 0 .. Len(ring) : i <= j /\ P[i].stage = "closed" => P[j].stage = "closed"
    /\ \A i, j \in 0 .. Len(ring) : i <= j /\ P[i].stage = "open" => P[j].stage # "new"
    /\ id \in Done => P[0].stage = "closed"
    /\ ~failed =>
          IF id \in Pending
          THEN P[0] = Stage("open", Len(pending[id].iso), pending[id].copied)
          ELSE P[0].stage # "open"
    /\ \A c \in Cpus : Runs(c, id) => Agrees(P[Len(ring)], cpu[c])

-----------------------------------------------------------------------------
(* The reassembler's side *)

\* An open event holds what its URB says.
Faithful(p, s) ==
    /\ Good(p) /\ Measurable(s) /\ p.meta = MetaOf(s)
    /\ Len(p.iso) <= FrameCount(s)
    /\ \A i \in DOMAIN p.iso : p.iso[i] = Descriptor(s, i)
    /\ \A o \in Offsets : p.payload[o] # Hole => p.payload[o] = o /\ o \in Needed(s)

\* The bytes received are those of the chunks so far, without a gap.
Received(p, s) ==
    IF ~s.iso
    THEN \A o \in Int : In(p.ranges, o) <=> 0 <= o /\ o < p.copied
    ELSE IF DataPhase(s)
    THEN LET f == Len(p.iso) IN
         /\ \A k \in 1 .. (f - 1) : LET d == Descriptor(s, k) IN
               \A o \in d.offset .. (d.offset + d.length - 1) : In(p.ranges, o)
         /\ f # 0 => LET d == Descriptor(s, f) IN
               \A o \in d.offset .. (d.offset + (p.copied - SumTo(s, f - 1)) - 1) :
                  In(p.ranges, o)
    ELSE p.copied = 0

-----------------------------------------------------------------------------
(* The inductive invariant *)

ShapeInv ==
    /\ shape \in Seq(Shapes)
    /\ attempts \in Nat /\ Len(shape) <= attempts /\ attempts <= MaxEvents
    /\ errors \in Nat /\ errors <= MaxFaults

CpuInv ==
    /\ DOMAIN cpu = Cpus
    /\ \A c \in Cpus :
          cpu[c] = Idle \/ (cpu[c].id \in DOMAIN shape /\ ContextOK(cpu[c], shape[cpu[c].id]))
    /\ \A c, d \in Cpus : c # d /\ cpu[c] # Idle /\ cpu[d] # Idle => cpu[c].id # cpu[d].id

SlotInv(slot) ==
    /\ slot.cpu \in Cpus /\ slot.state \in {"busy", "ready", "discarded"}
    /\ slot.record.id \in DOMAIN shape /\ Honest(slot.record, shape[slot.record.id])
    /\ slot.state # "ready" => slot.record.kind = "data"
    /\ slot.state = "busy" =>
          /\ cpu[slot.cpu] # Idle /\ cpu[slot.cpu].id = slot.record.id
          /\ cpu[slot.cpu].pc \in {"read", "sg_read"}

Records ==
    [kind : {"begin"}, id : Ids, meta : Metas]
    \cup [kind : {"data"}, id : Ids, offset : Nat, body : Seq(Nat)]
    \cup [kind : {"iso"}, id : Ids, offset : Nat, descriptor : FrameTypes]
    \cup [kind : {"end"}, id : Ids, copied : Nat, descriptors : Nat, reason : Nat]

Slots == [state : {"busy", "ready", "discarded"}, cpu : Cpus, record : Records]

RingInv ==
    /\ ring \in Seq(Slots)
    /\ \A i \in DOMAIN ring : SlotInv(ring[i])
    /\ \A i, j \in DOMAIN ring :
          i < j /\ ring[i].state = "busy" => ring[j].record.id # ring[i].record.id

ChainInv == \A id \in DOMAIN shape : \E P : Linked(id, P)

EventInv ==
    /\ OpenInv
    /\ \A id \in Pending : id \in DOMAIN shape /\ Faithful(pending[id], shape[id])
    /\ ~failed => \A id \in Pending : Received(pending[id], shape[id])
    /\ \A e \in delivered : e.id \in DOMAIN shape /\ Said(e) = Image(shape[e.id])

AcceptedInv ==
    /\ reassembly.orphan_records = 0
    /\ failed => Cardinality(Pending) >= MaxPending

StreamInv == CounterTypes /\ AcceptedInv

TransportInv == ShapeInv /\ CpuInv /\ RingInv /\ ChainInv /\ EventInv /\ StreamInv

-----------------------------------------------------------------------------
(* Shapes *)

\* A shape has its types, and so have its descriptors.
LEMMA ShapeTypes ==
    ASSUME NEW s \in Shapes
    PROVE  /\ s.event_type \in {"S", "C", "E"}
           /\ s.in \in BOOLEAN /\ s.iso \in BOOLEAN /\ s.buffer \in BOOLEAN
           /\ s.requested \in Nat /\ s.actual \in Nat /\ s.num_sgs \in Nat
           /\ Len(s.frames) \in Nat /\ DOMAIN s.frames = 1 .. Len(s.frames)
           /\ Descriptors(s) \in Seq(FrameTypes)
           /\ Len(Descriptors(s)) = Len(s.frames)
           /\ \A i \in 1 .. Len(s.frames) :
                 /\ Descriptors(s)[i] = Descriptor(s, i)
                 /\ Descriptor(s, i) \in FrameTypes
                 /\ Descriptor(s, i).offset \in Nat /\ Descriptor(s, i).length \in Nat
           /\ Range(Descriptors(s)) = {Descriptor(s, i) : i \in 1 .. Len(s.frames)}
  <1> DEFINE F == [offset : Nat, length : Nat, actual : Nat]
             ds == Descriptors(s)
  <1>1. s.frames \in Seq(F)
    BY ShapesAssumption
  <1> HIDE DEF F
  <1>2. /\ Len(s.frames) \in Nat /\ DOMAIN s.frames = 1 .. Len(s.frames)
        /\ \A i \in 1 .. Len(s.frames) : s.frames[i] \in F
    BY <1>1
  <1>3. \A i \in 1 .. Len(s.frames) :
           /\ s.frames[i].offset \in Nat /\ s.frames[i].length \in Nat
           /\ s.frames[i].actual \in Nat
    BY <1>2 DEF F
  <1>4. ASSUME NEW i \in 1 .. Len(s.frames)
        PROVE  /\ Descriptor(s, i) \in FrameTypes
               /\ Descriptor(s, i).offset \in Nat /\ Descriptor(s, i).length \in Nat
    BY <1>3 DEF Descriptor, FrameTypes
  <1>5. ds = [i \in 1 .. Len(s.frames) |-> Descriptor(s, i)]
    BY <1>2 DEF Descriptors
  <1>6. ds \in Seq(FrameTypes) /\ Len(ds) = Len(s.frames) /\ DOMAIN ds = 1 .. Len(s.frames)
        /\ \A i \in 1 .. Len(s.frames) : ds[i] = Descriptor(s, i)
    <2>1. ds \in [1 .. Len(s.frames) -> FrameTypes]
      BY <1>4, <1>5
    <2>2. QED
      BY <1>2, <1>5, <2>1
  <1>7. Range(ds) = {Descriptor(s, i) : i \in 1 .. Len(s.frames)}
    BY <1>6 DEF Range
  <1>8. QED
    BY <1>2, <1>4, <1>6, <1>7, ShapesAssumption

\* What emit() measures bounds the bytes it will send.
LEMMA MeasureLemma ==
    ASSUME NEW s \in Shapes, Measurable(s)
    PROVE  /\ PayloadLen(s) \in Nat /\ PayloadLen(s) <= MaxLength
           /\ PayloadLen(s) <= s.requested
           /\ \A o \in Needed(s) : o \in Nat /\ o < PayloadLen(s) /\ o \in Offsets
           /\ ~DataPhase(s) => PayloadLen(s) = 0
           /\ s.iso /\ DataPhase(s) /\ PayloadLen(s) = 0 =>
                 \A i \in 1 .. Len(s.frames) : Descriptor(s, i).length = 0
           /\ s.iso => \A i \in 1 .. Len(s.frames) :
                 Descriptor(s, i).offset + Descriptor(s, i).length <= s.requested
  <1> DEFINE ds == Descriptors(s)
  <1>1. /\ PayloadLen(s) <= s.requested /\ PayloadLen(s) <= MaxLength
        /\ s.iso => \A d \in Range(ds) : d.offset + d.length <= s.requested
    BY ShapesAssumption DEF Measurable
  <1>2. s.iso => \A i \in 1 .. Len(s.frames) :
           Descriptor(s, i).offset + Descriptor(s, i).length <= s.requested
    BY <1>1, ShapeTypes
  <1>3. CASE ~DataPhase(s)
    <2>1. PayloadLen(s) = 0
      BY <1>3 DEF PayloadLen
    <2>2. Needed(s) = {}
      BY <1>3, <2>1 DEF Needed
    <2>3. QED
      BY <1>1, <1>2, <1>3, <2>1, <2>2
  <1>4. CASE DataPhase(s) /\ ~s.iso
    <2>1. PayloadLen(s) \in Nat
      BY <1>4, ShapeTypes DEF PayloadLen
    <2>2. Needed(s) = 0 .. (PayloadLen(s) - 1)
      BY <1>4 DEF Needed
    <2>3. \A o \in Needed(s) : o \in Nat /\ o < PayloadLen(s) /\ o \in Offsets
      BY <1>1, <2>1, <2>2, ReassemblerAssumption DEF Offsets
    <2>4. QED
      BY <1>1, <1>2, <1>4, <2>1, <2>3
  <1>5. CASE DataPhase(s) /\ s.iso
    <2>1. PayloadLen(s) = Span(ds)
      BY <1>5 DEF PayloadLen
    <2>2. /\ Span(ds) \in Nat
          /\ \A d \in Range(ds) : d.offset \in Nat /\ d.length \in Nat
          /\ \A d \in Range(ds) : d.length # 0 => d.offset + d.length <= Span(ds)
      BY <1>1, <1>5, ShapeTypes, SpanLemma
    <2>3. Needed(s) = UNION {d.offset .. (d.offset + d.length - 1) : d \in Range(ds)}
      BY <1>5 DEF Needed
    <2> HIDE DEF ds
    <2>4. ASSUME NEW o \in Needed(s)
          PROVE  o \in Nat /\ o < PayloadLen(s) /\ o \in Offsets
      <3>1. PICK d \in Range(ds) : o \in d.offset .. (d.offset + d.length - 1)
        BY <2>3
      <3>2. o \in Nat /\ d.length # 0 /\ o < d.offset + d.length
        BY <2>2, <3>1
      <3>3. o < PayloadLen(s)
        BY <2>1, <2>2, <3>1, <3>2
      <3>4. QED
        BY <1>1, <2>1, <2>2, <3>2, <3>3, ReassemblerAssumption DEF Offsets
    <2>5. ASSUME PayloadLen(s) = 0, NEW i \in 1 .. Len(s.frames)
          PROVE  Descriptor(s, i).length = 0
      <3>1. Descriptor(s, i) \in Range(ds)
        BY ShapeTypes DEF ds
      <3>2. QED
        BY <2>1, <2>2, <2>5, <3>1
    <2>6. QED
      BY <1>1, <1>2, <1>5, <2>1, <2>2, <2>4, <2>5
  <1>6. QED
    BY <1>3, <1>4, <1>5, ShapeTypes

\* The bytes of a frame are needed.
LEMMA FrameNeeded ==
    ASSUME NEW s \in Shapes, s.iso, DataPhase(s), NEW i \in 1 .. Len(s.frames),
           NEW o \in Descriptor(s, i).offset
                        .. (Descriptor(s, i).offset + Descriptor(s, i).length - 1)
    PROVE  o \in Needed(s)
  <1>1. Descriptor(s, i) \in Range(Descriptors(s))
    BY ShapeTypes
  <1>2. QED
    BY <1>1 DEF Needed

\* The sums over the first frames, one by one.
LEMMA SumToLemma ==
    ASSUME NEW s \in Shapes
    PROVE  /\ SumTo(s, 0) = 0
           /\ \A f \in 0 .. Len(s.frames) : SumTo(s, f) \in Nat
           /\ \A f \in 1 .. Len(s.frames) :
                 SumTo(s, f) = SumTo(s, f - 1) + Descriptor(s, f).length
           /\ SumTo(s, Len(s.frames)) = Total(FrameLengths(s))
  <1> DEFINE n == Len(s.frames)
             w == FrameLengths(s)
  <1>1. n \in Nat /\ DOMAIN s.frames = 1 .. n
        /\ \A i \in 1 .. n : Descriptor(s, i).length \in Nat
    BY ShapeTypes
  <1>2. w = [i \in 1 .. n |-> Descriptor(s, i).length]
    BY <1>1 DEF FrameLengths
  <1>3. w \in Seq(Nat) /\ Len(w) = n /\ \A i \in 1 .. n : w[i] = Descriptor(s, i).length
    BY <1>1, <1>2
  <1> HIDE DEF n, w
  <1>4. SumTo(s, 0) = 0
    <2>1. SubSeq(w, 1, 0) = <<>>
      BY <1>3
    <2>2. QED
      BY <2>1, TotalLemma DEF SumTo, w
  <1>5. \A f \in 0 .. n : SubSeq(w, 1, f) \in Seq(Nat)
    BY <1>1, <1>3
  <1>6. \A f \in 0 .. n : SumTo(s, f) \in Nat
    BY <1>5, TotalLemma DEF SumTo, w
  <1>7. ASSUME NEW f \in 1 .. n
        PROVE  SumTo(s, f) = SumTo(s, f - 1) + Descriptor(s, f).length
    <2>1. SubSeq(w, 1, f) = Append(SubSeq(w, 1, f - 1), w[f])
      BY <1>1, <1>3
    <2>2. f - 1 \in 0 .. n /\ w[f] \in Nat
      BY <1>1, <1>3
    <2>3. Total(SubSeq(w, 1, f)) = Total(SubSeq(w, 1, f - 1)) + w[f]
      <3>1. PICK v \in Seq(Nat) : v = SubSeq(w, 1, f - 1)
        BY <1>5, <2>2
      <3>2. Total(Append(v, w[f])) = Total(v) + w[f]
        BY <2>2, TotalLemma
      <3>3. QED
        BY <2>1, <3>1, <3>2
    <2>4. QED
      BY <1>3, <2>3 DEF SumTo, w
  <1>8. SubSeq(w, 1, n) = w
    BY <1>1, <1>3
  <1>9. QED
    BY <1>4, <1>6, <1>7, <1>8 DEF SumTo, w, n

-----------------------------------------------------------------------------
(* The effect of one step of an emit() *)

\* Two contexts agree in all fields but those of F.
Same(y, x, F) ==
    /\ DOMAIN y = ContextFields
    /\ "pc" \notin F => y.pc = x.pc
    /\ "id" \notin F => y.id = x.id
    /\ "copied" \notin F => y.copied = x.copied
    /\ "descriptors" \notin F => y.descriptors = x.descriptors
    /\ "reason" \notin F => y.reason = x.reason
    /\ "source" \notin F => y.source = x.source
    /\ "destination" \notin F => y.destination = x.destination
    /\ "total" \notin F => y.total = x.total
    /\ "index" \notin F => y.index = x.index
    /\ "done" \notin F => y.done = x.done
    /\ "length" \notin F => y.length = x.length
    /\ "next" \notin F => y.next = x.next
    /\ "segment_left" \notin F => y.segment_left = x.segment_left
    /\ "segments_left" \notin F => y.segments_left = x.segments_left
    /\ "remaining" \notin F => y.remaining = x.remaining
    /\ "iteration" \notin F => y.iteration = x.iteration

\* The emit() goes on as it should, or has returned.
Follows(x, y, s) == y = Idle \/ (y.id = x.id /\ ContextOK(y, s))

\* Nothing new is said.
Keeps(x, y) == \A a \in Stages : Agrees(a, x) => y = Idle \/ Agrees(a, y)

\* A record is said that goes with what was said before.
Sends(x, y, s, rec) ==
    /\ rec \in Records /\ rec.id = x.id /\ Honest(rec, s) /\ Fits(rec)
    /\ \A a \in Stages : Agrees(a, x) =>
          \E b \in Stages : Told(s, a, rec, b) /\ (y = Idle \/ Agrees(b, y))

Reading(x) == x.pc \in {"read", "sg_read"}

Effect(c) ==
    LET x == cpu[c]
        y == cpu'[c]
        s == shape[x.id]
    IN  /\ DOMAIN cpu' = Cpus /\ \A d \in Cpus : d # c => cpu'[d] = cpu[d]
        /\ x # Idle /\ Follows(x, y, s)
        /\ UNCHANGED <<sg_supported, shape, attempts, reassembler>>
        /\ errors' = errors \/ (errors < MaxFaults /\ errors' = errors + 1)
        /\ \/ ring' = ring /\ ~Reading(x) /\ Keeps(x, y)
           \/ \E rec : /\ ring' = Append(ring, Slot("ready", c, rec)) /\ ~Reading(x)
                       /\ Sends(x, y, s, rec)
           \/ \E rec : /\ ring' = Append(ring, Slot("busy", c, rec)) /\ ~Reading(x)
                       /\ Sends(x, y, s, rec) /\ rec.kind = "data"
                       /\ y # Idle /\ Reading(y)
           \/ Settle(c, "ready") /\ Reading(x) /\ Keeps(x, y)
           \/ Settle(c, "discarded") /\ Reading(x)
              /\ y # Idle /\ y.pc = "end" /\ y.reason # COMPLETE

\* What is known of a CPU that runs an emit().
LEMMA Running ==
    ASSUME ShapeInv, CpuInv, NEW c \in Cpus, cpu[c].pc # "idle"
    PROVE  /\ cpu[c] # Idle /\ cpu[c].id \in DOMAIN shape /\ cpu[c].id \in Ids
           /\ shape[cpu[c].id] \in Shapes
           /\ ContextOK(cpu[c], shape[cpu[c].id]) /\ DOMAIN cpu = Cpus
  <1>1. cpu[c] # Idle
    BY DEF Idle
  <1>2. /\ cpu[c].id \in DOMAIN shape /\ ContextOK(cpu[c], shape[cpu[c].id])
        /\ DOMAIN cpu = Cpus
    BY <1>1 DEF CpuInv
  <1>3. shape[cpu[c].id] \in Shapes /\ cpu[c].id \in 1 .. Len(shape)
    BY <1>2 DEF ShapeInv
  <1>4. QED
    BY <1>1, <1>2, <1>3, TransportAssumption DEF ShapeInv

\* A context that has met a loss.
LEMMA LossLemma ==
    ASSUME NEW x, NEW y, NEW s, ContextOK(x, s), ContextTypes(y),
           y.id = x.id, y.pc = "end", y.reason # COMPLETE
    PROVE  /\ Follows(x, y, s) /\ (x.pc # "begin" => Keeps(x, y))
  <1>1. ContextOK(y, s)
    BY DEF ContextOK, SgPcs
  <1>2. ASSUME x.pc # "begin", NEW a \in Stages, Agrees(a, x) PROVE Agrees(a, y)
    BY <1>2 DEF Agrees
  <1>3. QED
    BY <1>1, <1>2 DEF Follows, Keeps

\* The metadata of a shape has its types.
LEMMA MetaLemma ==
    ASSUME NEW s \in Shapes, Measurable(s)
    PROVE  MetaOf(s) \in Metas /\ MetaOf(s).payload_len <= MaxLength
  <1>1. (PayloadLen(s) # 0) \in BOOLEAN /\ (IF s.iso THEN Len(s.frames) ELSE 0) \in Nat
    BY ShapeTypes
  <1>2. QED
    BY <1>1, ShapeTypes, MeasureLemma DEF MetaOf, Metas

LEMMA BeginEffect ==
    ASSUME ShapeInv, CpuInv, NEW c \in Cpus, Begin(c)
    PROVE  Effect(c)
  <1> DEFINE x == cpu[c]
             y == cpu'[c]
             s == shape[x.id]
             rec == [kind |-> "begin", id |-> x.id, meta |-> MetaOf(s)]
  <1>1. /\ x # Idle /\ x.id \in Ids /\ s \in Shapes /\ ContextOK(x, s) /\ DOMAIN cpu = Cpus
        /\ x.pc = "begin"
    BY Running DEF Begin
  <1>2. /\ x = Context(s, x.id) /\ ContextTypes(x) /\ Measurable(s) /\ x.reason = COMPLETE
    BY <1>1 DEF ContextOK
  <1>3. /\ UNCHANGED <<sg_supported, shape, attempts, reassembler>> /\ errors' = errors
        /\ ~Reading(x)
    BY <1>1 DEF Begin, Reading
  <1>4. CASE ~Fits(rec)
    <2>1. ring' = ring /\ cpu' = [cpu EXCEPT ![c] = Idle]
      BY <1>4 DEF Begin, BeginLost, ShapeOn
    <2>2. y = Idle /\ DOMAIN cpu' = Cpus /\ \A d \in Cpus : d # c => cpu'[d] = cpu[d]
      BY <1>1, <2>1
    <2>3. QED
      BY <1>1, <1>3, <2>1, <2>2 DEF Effect, Follows, Keeps
  <1>5. CASE Fits(rec)
    <2>1. ring' = Append(ring, Slot("ready", c, rec))
      BY <1>5 DEF Begin, Publish, ShapeOn
    <2>2. rec \in Records /\ rec.id = x.id /\ Honest(rec, s) /\ rec.kind = "begin"
      <3>1. MetaOf(s) \in Metas
        BY <1>1, <1>2, MetaLemma
      <3>2. QED
        BY <1>1, <1>2, <3>1 DEF Records, Honest
    <2>3. /\ x.copied = 0 /\ x.descriptors = 0 /\ x.source = 0 /\ x.destination = 0
          /\ x.total = PayloadLen(s) /\ x.index = 0 /\ x.done = 0 /\ x.next = SgFirst(s)
          /\ x.segment_left = 0 /\ x.remaining = PayloadLen(s)
      BY <1>2 DEF Context
    <2>4. PayloadLen(s) \in Nat /\ CHUNK_SIZE \in Nat
      BY <1>1, <1>2, MeasureLemma, TransportAssumption
    <2>5. /\ DOMAIN cpu' = Cpus /\ (\A d \in Cpus : d # c => cpu'[d] = cpu[d])
          /\ Same(y, x, {"pc", "reason"})
          /\ \/ y.pc = "end" /\ y.reason \in {LOSS_UNSUPPORTED_BUFFER, LOSS_READ}
             \/ y.pc = Route(s) /\ y.reason = x.reason
                /\ Route(s) \in {"iso", "end", "sg_start", "copy"}
      <3>1. CASE \E R \in {LOSS_UNSUPPORTED_BUFFER, LOSS_READ} :
                    cpu' = [cpu EXCEPT ![c].pc = "end", ![c].reason = R]
        BY <1>1, <1>2, <3>1 DEF Same, ContextTypes, ContextFields
      <3>2. CASE cpu' = [cpu EXCEPT ![c].pc = Route(s)]
                 /\ Route(s) \in {"iso", "end", "sg_start", "copy"}
        BY <1>1, <1>2, <3>2 DEF Same, ContextTypes, ContextFields
      <3>3. \/ Route(s) = "unsupported" \/ Route(s) = "too_long"
            \/ Route(s) \in {"iso", "end", "sg_start", "copy"}
        BY <1>1, ShapeTypes DEF Route
      <3>4. QED
        BY <1>5, <3>1, <3>2, <3>3 DEF Begin, ShapeOn
    <2> HIDE DEF y
    <2>6. ContextTypes(y) /\ y.id = x.id /\ y.pc # "begin"
      BY <1>2, <2>5 DEF ContextTypes, Same, SgPcs
    <2>7. ContextOK(y, s)
      <3>1. CASE y.pc = "end" /\ y.reason \in {LOSS_UNSUPPORTED_BUFFER, LOSS_READ}
        BY <1>1, <2>6, <3>1, LossLemma DEF COMPLETE, LOSS_UNSUPPORTED_BUFFER, LOSS_READ, ContextOK, SgPcs
      <3>2. CASE y.pc = "iso" /\ Route(s) = "iso"
        <4>1. s.iso
          BY <3>2, <1>1, ShapeTypes DEF Route
        <4>2. Sent(s, 0) = 0
          BY <1>1, <1>2, <4>1, SumToLemma, MeasureLemma DEF Sent
        <4>3. IsoContext(y, s)
          BY <1>1, <2>3, <2>5, <4>1, <4>2, ShapeTypes DEF IsoContext, Same
        <4>4. QED
          BY <1>2, <2>5, <2>6, <3>2, <4>3 DEF ContextOK, Same, SgPcs
      <3>3. CASE y.pc = "end" /\ Route(s) = "end"
        <4>1. ~s.iso /\ PayloadLen(s) = 0
          BY <3>3, <1>1, ShapeTypes DEF Route
        <4>2. Everything(s, 0, 0)
          BY <4>1 DEF Everything, Sent, FrameCount
        <4>3. QED
          BY <1>2, <2>3, <2>5, <2>6, <3>3, <4>2 DEF ContextOK, Same, SgPcs
      <3>4. CASE y.pc = "sg_start" /\ Route(s) = "sg_start"
        <4>1. ~s.iso /\ PayloadLen(s) # 0 /\ s.num_sgs # 0
          BY <3>4, <1>1, ShapeTypes DEF Route
        <4>2. SgFirst(s) # 0 =>
                 SgFirst(s) \in DOMAIN s.sg /\ s.sg[SgFirst(s)].start = 0
          BY <1>1, ShapesAssumption DEF Consecutive, SgFirst
        <4>3. SgContext(y, s)
          BY <2>3, <2>4, <2>5, <3>4, <4>1, <4>2 DEF SgContext, Same
        <4>4. QED
          BY <1>2, <2>5, <2>6, <3>4, <4>3 DEF ContextOK, Same, SgPcs
      <3>5. CASE y.pc = "copy" /\ Route(s) = "copy"
        <4>1. ~s.iso /\ PayloadLen(s) # 0
          BY <3>5, <1>1, ShapeTypes DEF Route
        <4>2. DataPhase(s)
          BY <1>1, <1>2, <4>1, MeasureLemma
        <4>3. CopyContext(y, s)
          BY <2>3, <2>4, <2>5, <3>5, <4>1, <4>2 DEF CopyContext, Same
        <4>4. QED
          BY <1>2, <2>5, <2>6, <3>5, <4>3 DEF ContextOK, Same, SgPcs
      <3>6. QED
        BY <2>5, <3>1, <3>2, <3>3, <3>4, <3>5
    <2>8. Sends(x, y, s, rec)
      <3> DEFINE b == Stage("open", 0, 0)
      <3>1. b \in Stages /\ b.stage = "open" /\ b.frames = 0 /\ b.bytes = 0
        BY DEF Stage, Stages
      <3>2. Agrees(b, y)
        <4>1. y.pc \notin {"read", "sg_read"}
          BY <2>5
        <4>2. QED
          BY <2>3, <2>5, <2>6, <3>1, <4>1 DEF Agrees, Written, Same
      <3>3. ASSUME NEW a \in Stages, Agrees(a, x) PROVE Told(s, a, rec, b)
        BY <1>1, <2>2, <3>3 DEF Agrees, Told
      <3>4. QED
        BY <1>5, <2>2, <3>1, <3>2, <3>3 DEF Sends
    <2>9. QED
      BY <1>1, <1>3, <2>1, <2>5, <2>6, <2>7, <2>8 DEF Effect, Follows, y
  <1>6. QED
    BY <1>4, <1>5

\* The step of a context that ends it with a loss.
LEMMA LossEffect ==
    ASSUME ShapeInv, CpuInv, NEW c \in Cpus, cpu[c].pc \notin {"idle", "begin"},
           ~Reading(cpu[c]), ring' = ring,
           NEW R \in {LOSS_RING, LOSS_READ, LOSS_UNSUPPORTED_BUFFER}, NEW n \in Nat,
           \/ cpu' = [cpu EXCEPT ![c].pc = "end", ![c].reason = R]
           \/ cpu' = [cpu EXCEPT ![c].pc = "end", ![c].reason = R, ![c].copied = @ + n],
           UNCHANGED <<sg_supported, shape, attempts, reassembler>>,
           errors' = errors \/ (errors < MaxFaults /\ errors' = errors + 1)
    PROVE  Effect(c)
  <1> DEFINE x == cpu[c]
             y == cpu'[c]
             s == shape[x.id]
  <1>1. x # Idle /\ ContextOK(x, s) /\ DOMAIN cpu = Cpus /\ ContextTypes(x)
    BY Running DEF ContextOK
  <1>2. /\ DOMAIN cpu' = Cpus /\ (\A d \in Cpus : d # c => cpu'[d] = cpu[d])
        /\ Same(y, x, {"pc", "reason", "copied"}) /\ y.pc = "end" /\ y.reason = R
        /\ y.copied = x.copied \/ y.copied = x.copied + n
    <2>1. CASE cpu' = [cpu EXCEPT ![c].pc = "end", ![c].reason = R]
      BY <1>1, <2>1 DEF Same, ContextTypes, ContextFields
    <2>2. CASE cpu' = [cpu EXCEPT ![c].pc = "end", ![c].reason = R, ![c].copied = @ + n]
      <3>1. /\ DOMAIN cpu' = Cpus /\ (\A d \in Cpus : d # c => cpu'[d] = cpu[d])
            /\ y.pc = "end" /\ y.reason = R /\ y.copied = x.copied + n
        BY <1>1, <2>2 DEF ContextTypes, ContextFields
      <3>2. Same(y, x, {"pc", "reason", "copied"})
        BY <1>1, <2>2 DEF Same, ContextTypes, ContextFields
      <3>3. QED
        BY <3>1, <3>2
    <2>3. QED
      BY <2>1, <2>2
  <1> HIDE DEF y
  <1>3. ContextTypes(y) /\ y.id = x.id /\ y.reason # COMPLETE
    BY <1>1, <1>2 DEF ContextTypes, Same, SgPcs, COMPLETE, LOSS_RING, LOSS_READ,
                      LOSS_UNSUPPORTED_BUFFER
  <1>4. Follows(x, y, s) /\ Keeps(x, y)
    BY <1>1, <1>2, <1>3, LossLemma
  <1>5. QED
    BY <1>1, <1>2, <1>4 DEF Effect, y

\* iso_emit: a frame's descriptor, and its data if it has any.
LEMMA IsoEffect ==
    ASSUME ShapeInv, CpuInv, NEW c \in Cpus, IsoFrame(c)
    PROVE  Effect(c)
  <1> DEFINE x == cpu[c]
             y == cpu'[c]
             s == shape[x.id]
             i == x.descriptors
             d == Descriptor(s, i + 1)
             rec == [kind |-> "iso", id |-> x.id, offset |-> i, descriptor |-> d]
  <1>1. /\ x # Idle /\ x.id \in Ids /\ s \in Shapes /\ ContextOK(x, s) /\ DOMAIN cpu = Cpus
        /\ x.pc = "iso" /\ ~Reading(x)
    BY Running DEF IsoFrame, Reading
  <1>2. /\ ContextTypes(x) /\ Measurable(s) /\ x.reason = COMPLETE /\ IsoContext(x, s)
    BY <1>1 DEF ContextOK
  <1>3. UNCHANGED <<sg_supported, shape, attempts, reassembler>>
    BY DEF IsoFrame
  <1>4. /\ i \in Nat /\ x.copied \in Nat /\ s.iso /\ i <= Len(s.frames) /\ x.done = 0
        /\ x.copied = Sent(s, i) /\ (PayloadLen(s) = 0 => x.copied = 0)
        /\ Len(s.frames) \in Nat
    BY <1>1, <1>2, ShapeTypes DEF ContextTypes, IsoContext
  <1>5. \A a \in Stages : Agrees(a, x) =>
           a.stage = "open" /\ a.frames = i /\ a.bytes = x.copied
    BY <1>1, <1>2, <1>4 DEF Agrees, Written
  <1>6. CASE /\ i = Len(s.frames) /\ cpu' = [cpu EXCEPT ![c].pc = "end"]
             /\ UNCHANGED <<ring, stats, errors>>
    <2>1. /\ DOMAIN cpu' = Cpus /\ (\A e \in Cpus : e # c => cpu'[e] = cpu[e])
          /\ Same(y, x, {"pc"}) /\ y.pc = "end"
      BY <1>1, <1>2, <1>6 DEF Same, ContextTypes, ContextFields
    <2> HIDE DEF y
    <2>2. ContextTypes(y) /\ y.id = x.id
      BY <1>2, <2>1 DEF ContextTypes, Same
    <2>3. Everything(s, i, x.copied)
      BY <1>4, <1>6 DEF Everything, FrameCount
    <2>4. ContextOK(y, s)
      BY <1>2, <1>4, <2>1, <2>2, <2>3 DEF ContextOK, Same, SgPcs
    <2>5. Keeps(x, y)
      BY <1>2, <1>4, <1>5, <2>1 DEF Keeps, Agrees, Same, Written
    <2>6. QED
      BY <1>1, <1>3, <1>6, <2>1, <2>2, <2>4, <2>5 DEF Effect, Follows, y
  <1>7. CASE \E R \in {LOSS_READ, LOSS_RING} :
                /\ cpu' = [cpu EXCEPT ![c].pc = "end", ![c].reason = R]
                /\ UNCHANGED ring
                /\ errors' = errors \/ Faulty("iso_read")
    BY <1>1, <1>3, <1>7, LossEffect DEF Faulty
  <1>8. CASE /\ i < Len(s.frames) /\ Fits(rec) /\ Publish(c, rec) /\ errors' = errors
             /\ \/ cpu' = IF DataPhase(s) /\ d.length # 0
                          THEN [cpu EXCEPT ![c] = FrameCopy(@, d)]
                          ELSE [cpu EXCEPT ![c].descriptors = i + 1]
                \/ cpu' = [cpu EXCEPT ![c].descriptors = i + 1,
                              ![c].pc = "end", ![c].reason = LOSS_READ]
    <2>0. i < Len(s.frames)
      BY <1>8
    <2>1. i + 1 \in 1 .. Len(s.frames) /\ (i + 1) - 1 = i /\ i + 1 \in Nat
      BY <1>4, <2>0
    <2>2. d \in FrameTypes /\ d.offset \in Nat /\ d.length \in Nat
      BY <1>1, <2>1, ShapeTypes
    <2>3. SumTo(s, i + 1) = SumTo(s, i) + d.length /\ SumTo(s, i) \in Nat
      BY <1>1, <1>4, <2>1, SumToLemma
    <2>d. d = Descriptor(s, i + 1)
      OBVIOUS
    <2> HIDE DEF d
    <2>4. rec \in Records /\ rec.id = x.id /\ rec.kind = "iso" /\ rec.offset = i
          /\ rec.descriptor = d
      BY <1>1, <1>4, <2>2 DEF Records
    <2> HIDE DEF rec
    <2>5. Honest(rec, s)
      BY <1>2, <1>4, <1>8, <2>4 DEF Honest, d
    <2> DEFINE b == Stage("open", i + 1, x.copied)
    <2>6. b \in Stages /\ b.stage = "open" /\ b.frames = i + 1 /\ b.bytes = x.copied
      BY <1>4 DEF Stage, Stages
    <2>7. ASSUME NEW a \in Stages, Agrees(a, x) PROVE Told(s, a, rec, b)
      <3>1. a.stage = "open" /\ a.frames = i /\ a.bytes = x.copied
        BY <1>5, <2>7
      <3>2. DataPhase(s) => a.bytes = SumTo(s, a.frames)
        BY <1>4, <3>1 DEF Sent
      <3>3. QED
        BY <2>4, <3>1, <3>2 DEF Told
    <2> HIDE DEF b
    <2>8. /\ DOMAIN cpu' = Cpus /\ (\A e \in Cpus : e # c => cpu'[e] = cpu[e])
          /\ y.id = x.id /\ ContextOK(y, s) /\ Agrees(b, y)
      <3>1. CASE DataPhase(s) /\ d.length # 0 /\ cpu' = [cpu EXCEPT ![c] = FrameCopy(@, d)]
        <4> DEFINE z == FrameCopy(x, d)
        <4>1. cpu' = [cpu EXCEPT ![c] = z]
          BY <3>1
        <4>2. /\ Same(z, x, {"pc", "descriptors", "source", "destination", "total",
                            "index", "done"})
          BY <1>2 DEF Same, ContextTypes, ContextFields, FrameCopy
        <4>3. /\ z.pc = "copy" /\ z.descriptors = i + 1 /\ z.source = d.offset
              /\ z.destination = d.offset /\ z.total = d.length /\ z.index = 0 /\ z.done = 0
          BY <1>2 DEF ContextTypes, ContextFields, FrameCopy
        <4> HIDE DEF z
        <4>4. y = z /\ DOMAIN cpu' = Cpus /\ \A e \in Cpus : e # c => cpu'[e] = cpu[e]
          BY <1>1, <4>1
        <4>5. ContextTypes(z) /\ z.id = x.id
          <5>1. /\ z.id = x.id /\ z.copied = x.copied /\ z.reason = x.reason
                /\ z.length = x.length /\ z.next = x.next
                /\ z.segment_left = x.segment_left /\ z.segments_left = x.segments_left
                /\ z.remaining = x.remaining /\ z.iteration = x.iteration
                /\ DOMAIN z = ContextFields
            BY <4>2 DEF Same
          <5>2. QED
            BY <1>2, <2>1, <2>2, <4>3, <5>1 DEF ContextTypes
        <4>6. PayloadLen(s) # 0
          BY <1>1, <1>2, <1>4, <2>1, <2>2, <3>1, MeasureLemma DEF d
        <4>7. CopyContext(z, s)
          <5>1. z.copied = SumTo(s, i)
            BY <1>4, <3>1, <4>2 DEF Same, Sent
          <5>2. 0 * CHUNK_SIZE = 0 /\ 0 < d.length
            BY <2>2, <3>1, TransportAssumption
          <5>3. QED
            BY <1>4, <2>1, <2>d, <3>1, <4>3, <4>6, <5>1, <5>2 DEF CopyContext
        <4>8. ContextOK(z, s)
          BY <1>2, <4>2, <4>3, <4>5, <4>7 DEF ContextOK, Same, SgPcs
        <4>9. Agrees(b, z)
          BY <1>4, <2>6, <4>2, <4>3 DEF Agrees, Written, Same
        <4>10. QED
          BY <4>4, <4>5, <4>8, <4>9
      <3>2. CASE ~(DataPhase(s) /\ d.length # 0) /\ cpu' = [cpu EXCEPT ![c].descriptors = i + 1]
        <4>1. cpu' = [cpu EXCEPT ![c].descriptors = i + 1]
          BY <3>2
        <4>2. /\ DOMAIN cpu' = Cpus /\ (\A e \in Cpus : e # c => cpu'[e] = cpu[e])
              /\ Same(y, x, {"descriptors"}) /\ y.descriptors = i + 1
          BY <1>1, <1>2, <4>1 DEF Same, ContextTypes, ContextFields
        <4> HIDE DEF y
        <4>3. ContextTypes(y) /\ y.id = x.id
          BY <1>2, <2>1, <4>2 DEF ContextTypes, Same
        <4>4. Sent(s, i + 1) = x.copied
          BY <1>4, <2>2, <2>3, <3>2 DEF Sent
        <4>5. IsoContext(y, s)
          BY <1>4, <2>1, <4>2, <4>4 DEF IsoContext, Same
        <4>6. ContextOK(y, s)
          BY <1>1, <1>2, <4>2, <4>3, <4>5 DEF ContextOK, Same, SgPcs
        <4>7. Agrees(b, y)
          BY <1>1, <1>4, <2>6, <4>2 DEF Agrees, Written, Same
        <4>8. QED
          BY <4>2, <4>3, <4>6, <4>7
      <3>3. CASE cpu' = [cpu EXCEPT ![c].descriptors = i + 1,
                            ![c].pc = "end", ![c].reason = LOSS_READ]
        <4>1. /\ DOMAIN cpu' = Cpus /\ (\A e \in Cpus : e # c => cpu'[e] = cpu[e])
              /\ Same(y, x, {"descriptors", "pc", "reason"}) /\ y.descriptors = i + 1
              /\ y.pc = "end" /\ y.reason = LOSS_READ
          BY <1>1, <1>2, <3>3 DEF Same, ContextTypes, ContextFields
        <4> HIDE DEF y
        <4>2. ContextTypes(y) /\ y.id = x.id /\ y.reason # COMPLETE
          <5>1. /\ y.id = x.id /\ y.copied = x.copied /\ y.source = x.source
                /\ y.destination = x.destination /\ y.total = x.total /\ y.index = x.index
                /\ y.done = x.done /\ y.length = x.length /\ y.next = x.next
                /\ y.segment_left = x.segment_left /\ y.segments_left = x.segments_left
                /\ y.remaining = x.remaining /\ y.iteration = x.iteration
                /\ DOMAIN y = ContextFields
            BY <4>1 DEF Same
          <5>2. y.reason # COMPLETE
            BY <4>1 DEF COMPLETE, LOSS_READ
          <5>3. QED
            BY <1>2, <2>1, <4>1, <5>1, <5>2 DEF ContextTypes
        <4>3. ContextOK(y, s)
          BY <1>2, <4>1, <4>2 DEF ContextOK, SgPcs
        <4>4. Agrees(b, y)
          BY <2>6, <4>1, <4>2 DEF Agrees
        <4>5. QED
          BY <4>1, <4>2, <4>3, <4>4
      <3>4. QED
        BY <1>8, <3>1, <3>2, <3>3 DEF d
    <2>9. Sends(x, y, s, rec)
      BY <1>8, <2>4, <2>5, <2>6, <2>7, <2>8 DEF Sends, d, rec
    <2>10. QED
      BY <1>1, <1>3, <1>8, <2>8, <2>9 DEF Effect, Follows, Publish, d, rec
  <1>9. QED
    BY <1>6, <1>7, <1>8 DEF IsoFrame, ShapeOn, Faulty

\* A chunk of a buffer: bytes that lie where the record says.
Chunk(id, at, length) ==
    [kind |-> "data", id |-> id, offset |-> at,
     body |-> [j \in 1 .. length |-> at + j - 1]]

AllNeeded(s, at, length) == \A o \in at .. (at + length - 1) : o \in Needed(s)

LEMMA ChunkLemma ==
    ASSUME NEW s \in Shapes, Measurable(s), NEW id \in Ids, NEW at \in Nat,
           NEW length \in Nat, length # 0, AllNeeded(s, at, length)
    PROVE  LET rec == Chunk(id, at, length)
           IN  /\ rec \in Records /\ Honest(rec, s) /\ rec.id = id /\ rec.kind = "data"
               /\ rec.offset = at /\ Len(rec.body) = length
  <1> USE DEF AllNeeded
  <1> DEFINE rec == Chunk(id, at, length)
  <1> DEFINE body == [j \in 1 .. length |-> at + j - 1]
  <1>1. body \in Seq(Nat) /\ Len(body) = length /\ body # <<>>
        /\ \A j \in 1 .. length : body[j] = at + j - 1
    OBVIOUS
  <1>2. \A j \in 1 .. length : at + j - 1 \in at .. (at + length - 1)
    OBVIOUS
  <1>3. \A j \in 1 .. length : body[j] \in Needed(s)
    BY <1>1, <1>2
  <1>4. rec = [kind |-> "data", id |-> id, offset |-> at, body |-> body]
    BY DEF Chunk
  <1> HIDE DEF body, rec
  <1>5. /\ rec.kind = "data" /\ rec.id = id /\ rec.offset = at /\ rec.body = body
        /\ rec \in Records
    BY <1>1, <1>4 DEF Records
  <1>6. Honest(rec, s)
    BY <1>1, <1>3, <1>5 DEF Honest
  <1>7. QED
    BY <1>1, <1>5, <1>6 DEF rec

\* The facts of a context that copies a buffer or a frame.
LEMMA CopyFacts ==
    ASSUME NEW s \in Shapes, NEW x, ContextOK(x, s), x.pc \in {"copy", "read"}
    PROVE  /\ ContextTypes(x) /\ Measurable(s) /\ x.reason = COMPLETE /\ CopyContext(x, s)
           /\ PayloadLen(s) \in Nat /\ CHUNK_SIZE \in Nat /\ CHUNK_SIZE # 0
           /\ x.index * CHUNK_SIZE \in Nat
           /\ (x.index + 1) * CHUNK_SIZE = x.index * CHUNK_SIZE + CHUNK_SIZE
           /\ \A o \in x.destination .. (x.destination + x.total - 1) : o \in Needed(s)
           /\ \A a \in Stages : Agrees(a, x) =>
                 /\ a.stage = "open" /\ a.frames = x.descriptors
                 /\ a.bytes = Written(x) /\ a.bytes \in Nat
           /\ s.iso => SumTo(s, x.descriptors - 1) \in Nat
  <1>1. /\ ContextTypes(x) /\ Measurable(s) /\ x.reason = COMPLETE /\ CopyContext(x, s)
    BY DEF ContextOK
  <1>2. PayloadLen(s) \in Nat /\ CHUNK_SIZE \in Nat /\ CHUNK_SIZE # 0 /\ x.index \in Nat
    BY <1>1, MeasureLemma, TransportAssumption DEF ContextTypes
  <1>3. /\ x.index * CHUNK_SIZE \in Nat
        /\ (x.index + 1) * CHUNK_SIZE = x.index * CHUNK_SIZE + CHUNK_SIZE
    BY <1>2
  <1>4. \A o \in x.destination .. (x.destination + x.total - 1) : o \in Needed(s)
    <2>1. CASE s.iso
      <3>1. /\ DataPhase(s) /\ x.descriptors \in 1 .. Len(s.frames)
            /\ x.destination = Descriptor(s, x.descriptors).offset
            /\ x.total = Descriptor(s, x.descriptors).length
        BY <1>1, <2>1 DEF CopyContext
      <3>2. QED
        BY <2>1, <3>1, FrameNeeded
    <2>2. CASE ~s.iso
      BY <1>1, <1>2, <2>2 DEF CopyContext, Needed
    <2>3. QED
      BY <2>1, <2>2
  <1>5. \A a \in Stages : Agrees(a, x) =>
           /\ a.stage = "open" /\ a.frames = x.descriptors
           /\ a.bytes = Written(x) /\ a.bytes \in Nat
    BY <1>1 DEF Agrees, Stages
  <1>6. s.iso => SumTo(s, x.descriptors - 1) \in Nat
    <2>1. ASSUME s.iso PROVE x.descriptors - 1 \in 0 .. Len(s.frames)
      BY <1>1, <2>1, ShapeTypes DEF CopyContext
    <2>2. QED
      BY <2>1, SumToLemma
  <1>7. QED
    BY <1>1, <1>2, <1>3, <1>4, <1>5, <1>6

\* copy_callback: the next chunk, or the end of the buffer or frame.
LEMMA CopyEffect ==
    ASSUME ShapeInv, CpuInv, NEW c \in Cpus, CopyCallback(c)
    PROVE  Effect(c)
  <1> DEFINE x == cpu[c]
             y == cpu'[c]
             s == shape[x.id]
             offset == x.index * CHUNK_SIZE
             length == Min({x.total - offset, CHUNK_SIZE})
  <1>1. /\ x # Idle /\ x.id \in Ids /\ s \in Shapes /\ ContextOK(x, s) /\ DOMAIN cpu = Cpus
        /\ x.pc = "copy" /\ ~Reading(x)
    BY Running DEF CopyCallback, Reading
  <1>2. /\ ContextTypes(x) /\ Measurable(s) /\ x.reason = COMPLETE /\ CopyContext(x, s)
        /\ PayloadLen(s) \in Nat /\ CHUNK_SIZE \in Nat /\ CHUNK_SIZE # 0
        /\ offset \in Nat
        /\ \A o \in x.destination .. (x.destination + x.total - 1) : o \in Needed(s)
        /\ \A a \in Stages : Agrees(a, x) =>
              a.stage = "open" /\ a.frames = x.descriptors /\ a.bytes = Written(x)
        /\ s.iso => SumTo(s, x.descriptors - 1) \in Nat
    BY <1>1, CopyFacts
  <1>3. /\ UNCHANGED <<sg_supported, shape, attempts, reassembler>> /\ errors' = errors
    BY DEF CopyCallback
  <1>4. /\ x.copied \in Nat /\ x.done \in Nat /\ x.total \in Nat /\ x.destination \in Nat
        /\ x.descriptors \in Nat
        /\ x.source = x.destination /\ x.done = IF offset < x.total THEN offset ELSE x.total
        /\ Written(x) = x.copied + x.done
    BY <1>1, <1>2 DEF ContextTypes, CopyContext, Written
  <1>o. offset = x.index * CHUNK_SIZE
    OBVIOUS
  <1> HIDE DEF offset
  <1>5. CASE offset >= x.total
    <2>0. cpu' = [cpu EXCEPT ![c].copied = @ + x.done, ![c].done = 0,
                     ![c].pc = IF s.iso THEN "iso" ELSE "end"] /\ ring' = ring
      BY <1>5 DEF CopyCallback, ShapeOn, offset
    <2>1. /\ DOMAIN cpu' = Cpus /\ (\A e \in Cpus : e # c => cpu'[e] = cpu[e])
          /\ y.copied = x.copied + x.done /\ y.done = 0
          /\ y.pc = IF s.iso THEN "iso" ELSE "end"
      BY <1>1, <1>2, <2>0 DEF ContextTypes, ContextFields
    <2>2. Same(y, x, {"copied", "done", "pc"})
      BY <1>1, <1>2, <2>0 DEF Same, ContextTypes, ContextFields
    <2> HIDE DEF y
    <2>3. x.done = x.total
      BY <1>2, <1>4, <1>5
    <2>4. ContextTypes(y) /\ y.id = x.id
      BY <1>2, <1>4, <2>1, <2>2 DEF ContextTypes, Same
    <2>5. ContextOK(y, s)
      <3>1. CASE s.iso
        <4>1. /\ DataPhase(s) /\ x.descriptors \in 1 .. Len(s.frames) /\ PayloadLen(s) # 0
              /\ x.total = Descriptor(s, x.descriptors).length
              /\ x.copied = SumTo(s, x.descriptors - 1)
          BY <1>2, <3>1 DEF CopyContext
        <4>2. y.copied = Sent(s, x.descriptors)
          BY <1>1, <2>1, <2>3, <3>1, <4>1, SumToLemma DEF Sent
        <4>3. IsoContext(y, s)
          BY <1>1, <2>1, <2>2, <3>1, <4>1, <4>2, ShapeTypes DEF IsoContext, Same
        <4>4. QED
          BY <1>2, <2>1, <2>2, <2>4, <3>1, <4>3 DEF ContextOK, Same, SgPcs
      <3>2. CASE ~s.iso
        <4>1. /\ x.total = PayloadLen(s) /\ x.copied = 0 /\ x.descriptors = 0
          BY <1>2, <3>2 DEF CopyContext
        <4>2. Everything(s, 0, y.copied)
          BY <1>2, <2>1, <2>3, <3>2, <4>1 DEF Everything, Sent, FrameCount
        <4>3. QED
          BY <1>2, <2>1, <2>2, <2>4, <3>2, <4>1, <4>2 DEF ContextOK, Same, SgPcs
      <3>3. QED
        BY <3>1, <3>2
    <2>6. Keeps(x, y)
      <3>1. Written(y) = Written(x)
        BY <1>4, <2>1, <2>2 DEF Written, Same
      <3>2. y.pc # "begin"
        BY <2>1
      <3>3. QED
        BY <1>2, <2>2, <3>1, <3>2 DEF Keeps, Agrees, Same
    <2>7. QED
      BY <1>1, <1>3, <2>0, <2>1, <2>4, <2>5, <2>6 DEF Effect, Follows, y
  <1>6. CASE offset < x.total
    <2> DEFINE rec == [kind |-> "data", id |-> x.id,
                       offset |-> x.destination + offset,
                       body |-> [j \in 1 .. length |-> x.source + offset + j - 1]]
    <2>1. ReserveChunk(c, offset, length)
      BY <1>2, <1>4, <1>6 DEF CopyCallback, offset
    <2>2. /\ length = IF x.total - offset <= CHUNK_SIZE THEN x.total - offset ELSE CHUNK_SIZE
          /\ length \in Nat /\ length # 0 /\ offset + length <= x.total
      BY <1>2, <1>4, <1>6, PairLemma
    <2> HIDE DEF length
    <2>3. x.done = offset
      BY <1>4, <1>6
    <2>4. CASE ~Fits(rec)
      <3>1. ring' = ring /\ cpu' = [cpu EXCEPT ![c].pc = "end", ![c].reason = LOSS_RING,
                                       ![c].copied = @ + x.done]
        BY <2>1, <2>4 DEF ReserveChunk
      <3>2. QED
        BY <1>1, <1>3, <1>4, <3>1, LossEffect
    <2>5. CASE Fits(rec)
      <3>1. /\ ring' = Append(ring, Slot("busy", c, rec))
            /\ cpu' = [cpu EXCEPT ![c].pc = "read", ![c].length = length]
        BY <2>1, <2>5 DEF ReserveChunk
      <3>2. /\ DOMAIN cpu' = Cpus /\ (\A e \in Cpus : e # c => cpu'[e] = cpu[e])
            /\ y.pc = "read" /\ y.length = length
            /\ Same(y, x, {"pc", "length"})
        BY <1>1, <1>2, <3>1 DEF Same, ContextTypes, ContextFields
      <3> HIDE DEF y
      <3>3. ContextTypes(y) /\ y.id = x.id
        BY <1>2, <2>2, <3>2 DEF ContextTypes, Same
      <3>4. CopyContext(y, s)
        BY <1>1, <1>2, <1>4, <1>6, <1>o, <2>2, <2>3, <3>2 DEF CopyContext, Same
      <3>5. ContextOK(y, s)
        BY <1>2, <3>2, <3>3, <3>4 DEF ContextOK, Same, SgPcs
      <3>6. /\ rec \in Records /\ Honest(rec, s) /\ rec.id = x.id /\ rec.kind = "data"
            /\ rec.offset = x.destination + offset /\ Len(rec.body) = length
        <4> DEFINE at == x.destination + offset
        <4>1. at \in Nat /\ AllNeeded(s, at, length)
          BY <1>2, <1>4, <2>2 DEF AllNeeded
        <4>2. rec = Chunk(x.id, at, length)
          BY <1>4 DEF Chunk
        <4> HIDE DEF at, rec
        <4>3. /\ rec \in Records /\ Honest(rec, s) /\ rec.id = x.id /\ rec.kind = "data"
              /\ rec.offset = at /\ Len(rec.body) = length
          BY <1>1, <1>2, <2>2, <4>1, <4>2, ChunkLemma
        <4>4. QED
          BY <4>3 DEF at
      <3> HIDE DEF rec
      <3>7. ASSUME NEW a \in Stages, Agrees(a, x)
            PROVE  \E b \in Stages : Told(s, a, rec, b) /\ Agrees(b, y)
        <4> DEFINE b == Stage("open", a.frames, a.bytes + Len(rec.body))
        <4>1. a.stage = "open" /\ a.frames = x.descriptors /\ a.bytes = x.copied + offset
          BY <1>2, <1>4, <2>3, <3>7
        <4>2. /\ b \in Stages /\ b.stage = "open" /\ b.frames = x.descriptors
              /\ b.bytes = x.copied + offset + length
          <5>1. a.frames \in Nat /\ a.bytes \in Nat /\ length \in Nat /\ Len(rec.body) = length
            BY <2>2, <3>6 DEF Stages
          <5>2. b.stage = "open" /\ b.frames = a.frames /\ b.bytes = a.bytes + length
            BY <5>1 DEF Stage
          <5>3. b \in Stages
            BY <5>1 DEF Stage, Stages
          <5>4. QED
            BY <4>1, <5>2, <5>3
        <4>3. /\ rec.offset = Place(s, a)
              /\ s.iso => a.frames \in 1 .. Len(s.frames)
                            /\ SumTo(s, a.frames - 1) <= a.bytes
          <5>1. CASE s.iso
            <6>1. /\ x.descriptors \in 1 .. Len(s.frames)
                  /\ x.destination = Descriptor(s, x.descriptors).offset
                  /\ x.copied = SumTo(s, x.descriptors - 1)
              BY <1>2, <5>1 DEF CopyContext
            <6>2. QED
              BY <1>2, <1>4, <3>6, <4>1, <5>1, <6>1 DEF Place
          <5>2. CASE ~s.iso
            BY <1>2, <1>4, <3>6, <4>1, <5>2 DEF Place, CopyContext
          <5>3. QED
            BY <5>1, <5>2
        <4>4. Told(s, a, rec, b)
          BY <3>6, <4>1, <4>3 DEF Told
        <4> HIDE DEF b
        <4>5. Agrees(b, y)
          BY <1>2, <1>4, <2>3, <3>2, <4>2 DEF Agrees, Written, Same
        <4>6. QED
          BY <4>2, <4>4, <4>5
      <3>8. Sends(x, y, s, rec)
        BY <2>5, <3>6, <3>7 DEF Sends, rec
      <3>9. y # Idle /\ Reading(y)
        BY <3>2 DEF Idle, Reading
      <3>10. QED
        BY <1>1, <1>3, <3>1, <3>2, <3>3, <3>5, <3>6, <3>8, <3>9 DEF Effect, Follows, y, rec
    <2>6. QED
      BY <2>4, <2>5
  <1>7. QED
    BY <1>2, <1>4, <1>5, <1>6

\* The facts of a context that copies a list of segments.
LEMMA SgFacts ==
    ASSUME ShapeInv, CpuInv, NEW c \in Cpus, cpu[c].pc \in SgPcs
    PROVE  LET x == cpu[c]
               s == shape[x.id]
           IN  /\ x # Idle /\ x.id \in Ids /\ s \in Shapes /\ ContextOK(x, s)
               /\ DOMAIN cpu = Cpus /\ x.pc # "begin" /\ x.pc # "end"
               /\ ContextTypes(x) /\ Measurable(s) /\ x.reason = COMPLETE /\ SgContext(x, s)
               /\ PayloadLen(s) \in Nat
               /\ \A a \in Stages : Agrees(a, x) =>
                     a.stage = "open" /\ a.frames = 0 /\ a.bytes = Written(x)
  <1> DEFINE x == cpu[c]
             s == shape[x.id]
  <1>1. x.pc # "idle" /\ x.pc # "begin" /\ x.pc # "end"
    BY DEF SgPcs
  <1>2. /\ x # Idle /\ x.id \in Ids /\ s \in Shapes /\ ContextOK(x, s) /\ DOMAIN cpu = Cpus
    BY <1>1, Running
  <1>3. /\ ContextTypes(x) /\ Measurable(s) /\ x.reason = COMPLETE /\ SgContext(x, s)
    BY <1>1, <1>2 DEF ContextOK
  <1>4. PayloadLen(s) \in Nat
    BY <1>2, <1>3, MeasureLemma
  <1>5. \A a \in Stages : Agrees(a, x) =>
           a.stage = "open" /\ a.frames = 0 /\ a.bytes = Written(x)
    BY <1>1, <1>3 DEF Agrees, SgContext
  <1>6. QED
    BY <1>1, <1>2, <1>3, <1>4, <1>5

\* copy_sg up to its loop.
LEMMA SgStartEffect ==
    ASSUME ShapeInv, CpuInv, NEW c \in Cpus, SgStart(c)
    PROVE  Effect(c)
  <1> DEFINE x == cpu[c]
             y == cpu'[c]
             s == shape[x.id]
  <1>1. /\ x.pc = "sg_start" /\ x.pc \in SgPcs /\ ring' = ring /\ ~Reading(x)
        /\ UNCHANGED <<sg_supported, shape, attempts, reassembler>>
    BY DEF SgStart, SgPcs, Reading
  <1>2. /\ x # Idle /\ s \in Shapes /\ ContextOK(x, s) /\ DOMAIN cpu = Cpus
        /\ ContextTypes(x) /\ Measurable(s) /\ x.reason = COMPLETE /\ SgContext(x, s)
    BY <1>1, SgFacts
  <1>3. CASE \E R \in {LOSS_READ, LOSS_UNSUPPORTED_BUFFER} :
                /\ cpu' = [cpu EXCEPT ![c].pc = "end", ![c].reason = R]
                /\ errors' = errors \/ Faulty("sg_read")
    BY <1>1, <1>3, LossEffect DEF Faulty
  <1>4. CASE cpu' = [cpu EXCEPT ![c].pc = "sg"] /\ errors' = errors
    <2>1. /\ DOMAIN cpu' = Cpus /\ (\A e \in Cpus : e # c => cpu'[e] = cpu[e])
          /\ Same(y, x, {"pc"}) /\ y.pc = "sg"
      BY <1>2, <1>4 DEF Same, ContextTypes, ContextFields
    <2> HIDE DEF y
    <2>2. ContextTypes(y) /\ y.id = x.id
      BY <1>2, <2>1 DEF ContextTypes, Same, SgPcs
    <2>3. SgContext(y, s)
      BY <1>1, <1>2, <2>1 DEF SgContext, Same
    <2>4. ContextOK(y, s)
      BY <1>2, <2>1, <2>2, <2>3 DEF ContextOK, Same, SgPcs
    <2>5. Keeps(x, y)
      BY <1>1, <2>1 DEF Keeps, Agrees, Same, Written
    <2>6. QED
      BY <1>1, <1>2, <1>4, <2>1, <2>2, <2>4, <2>5 DEF Effect, Follows, y
  <1>5. QED
    BY <1>3, <1>4 DEF SgStart, ShapeOn, Faulty

\* The end of copy_sg's loop.
LEMMA SgDoneEffect ==
    ASSUME ShapeInv, CpuInv, NEW c \in Cpus, SgDone(c)
    PROVE  Effect(c)
  <1> DEFINE x == cpu[c]
             y == cpu'[c]
             s == shape[x.id]
  <1>1. /\ x.pc = "sg" /\ x.pc \in SgPcs /\ ring' = ring /\ ~Reading(x)
        /\ UNCHANGED <<sg_supported, shape, attempts, reassembler>> /\ errors' = errors
    BY DEF SgDone, SgPcs, Reading
  <1>2. /\ x # Idle /\ s \in Shapes /\ ContextOK(x, s) /\ DOMAIN cpu = Cpus
        /\ ContextTypes(x) /\ Measurable(s) /\ x.reason = COMPLETE /\ SgContext(x, s)
        /\ PayloadLen(s) \in Nat
    BY <1>1, SgFacts
  <1>3. CASE x.remaining # 0
    <2>1. cpu' = [cpu EXCEPT ![c].pc = "end", ![c].reason = LOSS_READ]
      BY <1>3 DEF SgDone
    <2>2. QED
      BY <1>1, <2>1, LossEffect
  <1>4. CASE x.remaining = 0
    <2>0. cpu' = [cpu EXCEPT ![c].pc = "end"]
      BY <1>4 DEF SgDone
    <2>1. /\ DOMAIN cpu' = Cpus /\ (\A e \in Cpus : e # c => cpu'[e] = cpu[e])
          /\ Same(y, x, {"pc"}) /\ y.pc = "end"
      BY <1>2, <2>0 DEF Same, ContextTypes, ContextFields
    <2> HIDE DEF y
    <2>2. ContextTypes(y) /\ y.id = x.id
      BY <1>2, <2>1 DEF ContextTypes, Same
    <2>3. /\ x.copied = PayloadLen(s) /\ x.descriptors = 0 /\ x.done = 0 /\ ~s.iso
      BY <1>2, <1>4 DEF SgContext, ContextTypes
    <2>4. Everything(s, 0, x.copied)
      BY <1>2, <2>3 DEF Everything, Sent, FrameCount
    <2>5. ContextOK(y, s)
      BY <1>2, <2>1, <2>2, <2>3, <2>4 DEF ContextOK, Same, SgPcs
    <2>6. Keeps(x, y)
      BY <1>1, <2>1 DEF Keeps, Agrees, Same, Written
    <2>7. QED
      BY <1>1, <1>2, <2>1, <2>2, <2>5, <2>6 DEF Effect, Follows, y
  <1>5. QED
    BY <1>3, <1>4

\* sg_copy_segment goes to the next segment: it begins where the copy stands.
LEMMA SgNextEffect ==
    ASSUME ShapeInv, CpuInv, NEW c \in Cpus, SgNext(c)
    PROVE  Effect(c)
  <1> DEFINE x == cpu[c]
             y == cpu'[c]
             s == shape[x.id]
             left == Min({s.sg[x.next].length, x.remaining})
             E == [start : Nat, length : Nat, last : BOOLEAN, chain : Nat]
  <1>1. /\ x.pc = "sg" /\ x.pc \in SgPcs /\ ring' = ring /\ ~Reading(x)
        /\ x.remaining # 0 /\ x.segment_left = 0
        /\ UNCHANGED <<sg_supported, shape, attempts, reassembler>>
    BY DEF SgNext, SgPcs, Reading
  <1>2. /\ x # Idle /\ s \in Shapes /\ ContextOK(x, s) /\ DOMAIN cpu = Cpus
        /\ ContextTypes(x) /\ Measurable(s) /\ x.reason = COMPLETE /\ SgContext(x, s)
        /\ PayloadLen(s) \in Nat
    BY <1>1, SgFacts
  <1>3. CASE /\ cpu' = [cpu EXCEPT ![c].pc = "end", ![c].reason = LOSS_READ]
             /\ errors' = errors \/ Faulty("sg_read")
    BY <1>1, <1>3, LossEffect DEF Faulty
  <1>4. CASE /\ HasSegment(x, s) /\ errors' = errors
             /\ cpu' = [cpu EXCEPT
                   ![c].next = SgSuccessor(s, @), ![c].segments_left = @ - 1,
                   ![c].segment_left = left, ![c].source = s.sg[x.next].start,
                   ![c].pc = IF left = 0 THEN "sg" ELSE "sg_chunk",
                   ![c].iteration = IF left = 0 THEN @ + 1 ELSE @]
    <2> DEFINE k == x.next
               g == s.sg[k]
               after == SgSuccessor(s, k)
    <2>1. k # 0 /\ x.segments_left # 0 /\ g.chain = 0
      BY <1>4 DEF HasSegment
    <2>2. s.sg \in Seq(E) /\ Consecutive(s)
      BY <1>2, ShapesAssumption
    <2>3. k \in DOMAIN s.sg
      BY <1>2, <2>1 DEF SgContext
    <2>4. g.start = x.copied
      BY <1>1, <1>2, <2>1 DEF SgContext, ContextTypes
    <2>5. g.length \in Nat /\ g.start \in Nat /\ g.last \in BOOLEAN /\ DOMAIN s.sg \subseteq Nat
      <3>1. g \in E /\ DOMAIN s.sg \subseteq Nat
        <4> HIDE DEF E
        <4>1. QED
          BY <2>2, <2>3
      <3>2. QED
        BY <3>1
    <2> HIDE DEF E
    <2>6. /\ after # 0 => after \in DOMAIN s.sg
          /\ after # 0 /\ s.sg[after].chain = 0 => s.sg[after].start = g.start + g.length
      <3>1. CASE g.last
        BY <3>1 DEF SgSuccessor
      <3>2. CASE ~g.last
        BY <2>1, <2>2, <2>3, <3>2 DEF Consecutive
      <3>3. QED
        BY <3>1, <3>2
    <2>7. after \in Nat
      BY <2>5, <2>6
    <2>8. /\ left = IF g.length <= x.remaining THEN g.length ELSE x.remaining
          /\ left \in Nat /\ left <= x.remaining
      <3>1. x.remaining \in Nat
        BY <1>2 DEF ContextTypes
      <3>2. PICK l \in Nat, m \in Nat : l = g.length /\ m = x.remaining
        BY <2>5, <3>1
      <3>3. Min({l, m}) = IF l <= m THEN l ELSE m
        BY PairLemma
      <3>4. left = Min({l, m})
        BY <3>2
      <3>5. left = IF l <= m THEN l ELSE m
        BY <3>3, <3>4
      <3> HIDE DEF left, g
      <3>6. QED
        BY <3>2, <3>5
    <2> HIDE DEF left, after
    <2>9. /\ DOMAIN cpu' = Cpus /\ \A e \in Cpus : e # c => cpu'[e] = cpu[e]
      BY <1>2, <1>4
    <2>10. /\ y.next = after /\ y.segments_left = x.segments_left - 1
           /\ y.segment_left = left
      BY <1>2, <1>4 DEF ContextTypes, ContextFields, after
    <2>11. /\ y.source = g.start /\ y.pc = IF left = 0 THEN "sg" ELSE "sg_chunk"
           /\ y.iteration = IF left = 0 THEN x.iteration + 1 ELSE x.iteration
      BY <1>2, <1>4 DEF ContextTypes, ContextFields
    <2>12. Same(y, x, {"next", "segments_left", "segment_left", "source", "pc", "iteration"})
      <3>1. DOMAIN x = ContextFields
        BY <1>2 DEF ContextTypes
      <3>2. y = [x EXCEPT
                   !.next = SgSuccessor(s, @), !.segments_left = @ - 1,
                   !.segment_left = left, !.source = g.start,
                   !.pc = IF left = 0 THEN "sg" ELSE "sg_chunk",
                   !.iteration = IF left = 0 THEN @ + 1 ELSE @]
        BY <1>2, <1>4, Zenon
      <3> HIDE DEF x, y, g
      <3>3. DOMAIN y = ContextFields
        BY <3>1, <3>2
      <3>4. /\ y.id = x.id /\ y.copied = x.copied /\ y.descriptors = x.descriptors
            /\ y.reason = x.reason /\ y.destination = x.destination
        BY <3>1, <3>2 DEF ContextFields
      <3>5. /\ y.total = x.total /\ y.index = x.index /\ y.done = x.done
            /\ y.length = x.length /\ y.remaining = x.remaining
        BY <3>1, <3>2 DEF ContextFields
      <3>6. QED
        BY <3>3, <3>4, <3>5 DEF Same
    <2> HIDE DEF y, g
    <2>13. ContextTypes(y) /\ y.id = x.id
      <3>1. /\ y.id = x.id /\ y.copied = x.copied /\ y.reason = x.reason
            /\ y.descriptors = x.descriptors /\ y.destination = x.destination
            /\ y.total = x.total /\ y.index = x.index /\ y.done = x.done
            /\ y.length = x.length /\ y.remaining = x.remaining /\ DOMAIN y = ContextFields
        BY <2>12 DEF Same
      <3>2. y.pc \in SgPcs /\ y.iteration \in Nat /\ y.segments_left \in Nat
        BY <1>2, <2>1, <2>10, <2>11 DEF ContextTypes, SgPcs
      <3>3. QED
        BY <1>2, <2>5, <2>7, <2>8, <2>10, <2>11, <3>1, <3>2 DEF ContextTypes
    <2>14. SgContext(y, s)
      <3>1. /\ y.descriptors = 0 /\ y.done = 0 /\ y.copied = x.copied
            /\ y.remaining = x.remaining /\ ~s.iso /\ s.num_sgs # 0 /\ PayloadLen(s) # 0
            /\ x.copied + x.remaining = PayloadLen(s) /\ x.copied \in Nat /\ x.remaining \in Nat
        BY <1>2, <2>12 DEF SgContext, Same, ContextTypes
      <3>2. ASSUME y.next # 0, s.sg[y.next].chain = 0, y.segment_left # y.remaining
            PROVE  s.sg[y.next].start = y.copied + y.segment_left
        BY <2>4, <2>5, <2>6, <2>8, <2>10, <3>1, <3>2
      <3>3. y.next # 0 => y.next \in DOMAIN s.sg
        BY <2>6, <2>10
      <3>4. y.pc # "sg_read" /\ (y.pc = "sg_chunk" => y.segment_left # 0)
        BY <2>10, <2>11
      <3>5. QED
        BY <2>4, <2>8, <2>10, <2>11, <3>1, <3>2, <3>3, <3>4 DEF SgContext
    <2>15. y.pc \in SgPcs /\ y.pc \notin {"begin", "end", "iso", "copy", "read", "sg_read"}
      BY <2>11 DEF SgPcs
    <2>16. ContextOK(y, s)
      BY <1>2, <2>12, <2>13, <2>14, <2>15 DEF ContextOK, Same
    <2>17. Keeps(x, y)
      BY <1>1, <2>12, <2>15 DEF Keeps, Agrees, Same, Written
    <2>18. QED
      BY <1>1, <1>2, <1>4, <2>9, <2>13, <2>16, <2>17 DEF Effect, Follows, y
  <1>5. QED
    BY <1>3, <1>4 DEF SgNext, ShapeOn, Faulty

\* sg_copy_segment reserves the next chunk of the segment.
LEMMA SgChunkEffect ==
    ASSUME ShapeInv, CpuInv, NEW c \in Cpus, SgChunk(c)
    PROVE  Effect(c)
  <1> DEFINE x == cpu[c]
             y == cpu'[c]
             s == shape[x.id]
             length == Min({x.segment_left, CHUNK_SIZE})
             rec == [kind |-> "data", id |-> x.id, offset |-> x.copied,
                     body |-> [j \in 1 .. length |-> x.source + j - 1]]
  <1>1. /\ x.pc \in {"sg", "sg_chunk"} /\ x.pc \in SgPcs /\ ~Reading(x)
        /\ x.pc = "sg" => x.segment_left # 0
        /\ UNCHANGED <<sg_supported, shape, attempts, reassembler>> /\ errors' = errors
    BY DEF SgChunk, SgPcs, Reading
  <1>2. /\ x # Idle /\ x.id \in Ids /\ s \in Shapes /\ ContextOK(x, s) /\ DOMAIN cpu = Cpus
        /\ ContextTypes(x) /\ Measurable(s) /\ x.reason = COMPLETE /\ SgContext(x, s)
        /\ PayloadLen(s) \in Nat /\ x.pc # "begin"
        /\ \A a \in Stages : Agrees(a, x) =>
              a.stage = "open" /\ a.frames = 0 /\ a.bytes = Written(x)
    BY <1>1, SgFacts
  <1>3. /\ x.segment_left \in Nat /\ x.segment_left # 0 /\ x.source = x.copied
        /\ x.copied \in Nat /\ x.remaining \in Nat /\ x.segment_left <= x.remaining
        /\ x.copied + x.remaining = PayloadLen(s) /\ ~s.iso /\ x.done = 0
        /\ x.descriptors = 0
    BY <1>1, <1>2 DEF SgContext, ContextTypes
  <1>4. length \in Nat /\ length # 0 /\ length <= x.segment_left
    BY <1>3, PairLemma, TransportAssumption
  <1> HIDE DEF length
  <1>5. CASE ~Fits(rec)
    <2>1. ring' = ring /\ cpu' = [cpu EXCEPT ![c].pc = "end", ![c].reason = LOSS_RING]
      BY <1>5 DEF SgChunk, length
    <2>2. QED
      BY <1>1, <2>1, LossEffect
  <1>6. CASE Fits(rec)
    <2>0. /\ ring' = Append(ring, Slot("busy", c, rec))
          /\ cpu' = [cpu EXCEPT ![c].pc = "sg_read", ![c].length = length]
      BY <1>6 DEF SgChunk, length
    <2>1. /\ DOMAIN cpu' = Cpus /\ (\A e \in Cpus : e # c => cpu'[e] = cpu[e])
          /\ y.pc = "sg_read" /\ y.length = length
          /\ Same(y, x, {"pc", "length"})
      BY <1>2, <2>0 DEF Same, ContextTypes, ContextFields
    <2> HIDE DEF y
    <2>2. ContextTypes(y) /\ y.id = x.id
      BY <1>2, <1>4, <2>1 DEF ContextTypes, Same, SgPcs
    <2>3. SgContext(y, s)
      BY <1>2, <1>3, <1>4, <2>1 DEF SgContext, Same
    <2>4. ContextOK(y, s)
      BY <1>2, <2>1, <2>2, <2>3 DEF ContextOK, Same, SgPcs
    <2>5. /\ rec \in Records /\ Honest(rec, s) /\ rec.id = x.id /\ rec.kind = "data"
          /\ rec.offset = x.copied /\ Len(rec.body) = length
      <3>1. AllNeeded(s, x.copied, length)
        BY <1>2, <1>3, <1>4 DEF AllNeeded, Needed
      <3>2. rec = Chunk(x.id, x.copied, length)
        BY <1>3 DEF Chunk
      <3> HIDE DEF rec
      <3>3. QED
        BY <1>2, <1>3, <1>4, <3>1, <3>2, ChunkLemma
    <2> HIDE DEF rec
    <2>6. ASSUME NEW a \in Stages, Agrees(a, x)
          PROVE  \E b \in Stages : Told(s, a, rec, b) /\ Agrees(b, y)
      <3> DEFINE b == Stage("open", a.frames, a.bytes + Len(rec.body))
      <3>1. a.stage = "open" /\ a.frames = 0 /\ a.bytes = x.copied
        BY <1>1, <1>2, <1>3, <2>6 DEF Written
      <3>2. /\ b \in Stages /\ b.stage = "open" /\ b.frames = 0
            /\ b.bytes = x.copied + length
        BY <1>3, <1>4, <2>5, <3>1 DEF Stage, Stages
      <3>3. Told(s, a, rec, b)
        BY <1>3, <2>5, <3>1 DEF Told, Place
      <3> HIDE DEF b
      <3>4. Agrees(b, y)
        BY <1>2, <1>3, <1>4, <2>1, <3>2 DEF Agrees, Written, Same
      <3>5. QED
        BY <3>2, <3>3, <3>4
    <2>7. Sends(x, y, s, rec)
      BY <1>6, <2>5, <2>6 DEF Sends, rec
    <2>8. y # Idle /\ Reading(y)
      BY <2>1 DEF Idle, Reading
    <2>9. QED
      BY <1>1, <1>2, <2>0, <2>1, <2>2, <2>4, <2>5, <2>7, <2>8 DEF Effect, Follows, y, rec
  <1>7. QED
    BY <1>5, <1>6

\* copy_chunk has read its chunk, and the loop that asked for it goes on.
LEMMA ReadEffect ==
    ASSUME ShapeInv, CpuInv, NEW c \in Cpus, ReadChunk(c)
    PROVE  Effect(c)
  <1> DEFINE x == cpu[c]
             y == cpu'[c]
             s == shape[x.id]
  <1>1. /\ x.pc \in {"read", "sg_read"} /\ Settle(c, "ready") /\ Reading(x)
        /\ UNCHANGED <<sg_supported, shape, attempts, reassembler>> /\ errors' = errors
        /\ x.pc # "idle"
    BY DEF ReadChunk, Reading
  <1>2. /\ x # Idle /\ s \in Shapes /\ ContextOK(x, s) /\ DOMAIN cpu = Cpus
    BY <1>1, Running
  <1>3. CASE x.pc = "read"
    <2>0. cpu' = [cpu EXCEPT ![c].pc = "copy", ![c].done = @ + x.length, ![c].index = @ + 1]
      BY <1>3 DEF ReadChunk
    <2>1. /\ ContextTypes(x) /\ Measurable(s) /\ x.reason = COMPLETE /\ CopyContext(x, s)
          /\ CHUNK_SIZE \in Nat /\ CHUNK_SIZE # 0
          /\ x.index * CHUNK_SIZE \in Nat
          /\ (x.index + 1) * CHUNK_SIZE = x.index * CHUNK_SIZE + CHUNK_SIZE
      BY <1>2, <1>3, CopyFacts
    <2>2. /\ DOMAIN cpu' = Cpus /\ (\A e \in Cpus : e # c => cpu'[e] = cpu[e])
          /\ y.pc = "copy" /\ y.done = x.done + x.length /\ y.index = x.index + 1
      BY <1>2, <2>0, <2>1 DEF ContextTypes, ContextFields
    <2>3. Same(y, x, {"pc", "done", "index"})
      BY <1>2, <2>0, <2>1 DEF Same, ContextTypes, ContextFields
    <2> HIDE DEF y
    <2>4. /\ x.done \in Nat /\ x.length \in Nat /\ x.total \in Nat /\ x.copied \in Nat
          /\ x.done = x.index * CHUNK_SIZE /\ x.done < x.total
          /\ x.length = IF x.total - x.done <= CHUNK_SIZE
                        THEN x.total - x.done ELSE CHUNK_SIZE
      BY <1>3, <2>1 DEF ContextTypes, CopyContext
    <2>5. ContextTypes(y) /\ y.id = x.id
      BY <2>1, <2>2, <2>3 DEF ContextTypes, Same
    <2>6. y.done = IF y.index * CHUNK_SIZE < y.total THEN y.index * CHUNK_SIZE ELSE y.total
      <3>1. y.index * CHUNK_SIZE = x.done + CHUNK_SIZE /\ y.total = x.total
        BY <2>1, <2>2, <2>3, <2>4 DEF Same
      <3>2. QED
        BY <2>1, <2>2, <2>4, <3>1
    <2>7. CopyContext(y, s)
      <3>1. /\ y.source = x.source /\ y.destination = x.destination /\ y.total = x.total
            /\ y.copied = x.copied /\ y.descriptors = x.descriptors
        BY <2>3 DEF Same
      <3>2. QED
        BY <2>1, <2>2, <2>6, <3>1 DEF CopyContext
    <2>8. ContextOK(y, s)
      BY <2>1, <2>2, <2>3, <2>5, <2>7 DEF ContextOK, Same, SgPcs
    <2>9. Keeps(x, y)
      <3>1. Written(y) = Written(x)
        BY <1>3, <2>2, <2>3, <2>4 DEF Written, Same
      <3>2. QED
        BY <1>3, <2>1, <2>2, <2>3, <3>1 DEF Keeps, Agrees, Same
    <2>10. QED
      BY <1>1, <1>2, <2>2, <2>5, <2>8, <2>9 DEF Effect, Follows, y
  <1>4. CASE x.pc = "sg_read"
    <2>0. cpu' = [cpu EXCEPT ![c].pc = "sg", ![c].copied = @ + x.length,
                     ![c].source = @ + x.length, ![c].segment_left = @ - x.length,
                     ![c].remaining = @ - x.length, ![c].iteration = @ + 1]
      BY <1>4 DEF ReadChunk
    <2>1. /\ ContextTypes(x) /\ Measurable(s) /\ x.reason = COMPLETE /\ SgContext(x, s)
          /\ PayloadLen(s) \in Nat
      BY <1>4, SgFacts DEF SgPcs
    <2>2. DOMAIN cpu' = Cpus /\ \A e \in Cpus : e # c => cpu'[e] = cpu[e]
      BY <1>2, <2>0
    <2>3. /\ y.pc = "sg" /\ y.copied = x.copied + x.length /\ y.source = x.source + x.length
      BY <1>2, <2>0, <2>1 DEF ContextTypes, ContextFields
    <2>4. /\ y.segment_left = x.segment_left - x.length
          /\ y.remaining = x.remaining - x.length /\ y.iteration = x.iteration + 1
      BY <1>2, <2>0, <2>1 DEF ContextTypes, ContextFields
    <2>5. Same(y, x, {"pc", "copied", "source", "segment_left", "remaining", "iteration"})
      BY <1>2, <2>0, <2>1 DEF Same, ContextTypes, ContextFields
    <2> HIDE DEF y
    <2>6. /\ x.copied \in Nat /\ x.length \in Nat /\ x.source \in Nat /\ x.iteration \in Nat
          /\ x.segment_left \in Nat /\ x.remaining \in Nat
          /\ x.segment_left <= x.remaining /\ x.length # 0 /\ x.length <= x.segment_left
          /\ x.source = x.copied /\ x.copied + x.remaining = PayloadLen(s)
          /\ x.done = 0 /\ x.descriptors = 0
      BY <1>4, <2>1 DEF SgContext, ContextTypes
    <2>7. ContextTypes(y) /\ y.id = x.id
      <3>1. /\ y.id = x.id /\ y.reason = x.reason /\ y.next = x.next
            /\ y.descriptors = x.descriptors /\ y.destination = x.destination
            /\ y.total = x.total /\ y.index = x.index /\ y.done = x.done
            /\ y.length = x.length /\ y.segments_left = x.segments_left
            /\ DOMAIN y = ContextFields
        BY <2>5 DEF Same
      <3>2. /\ y.copied \in Nat /\ y.source \in Nat /\ y.segment_left \in Nat
            /\ y.remaining \in Nat /\ y.iteration \in Nat /\ y.pc \in SgPcs
        BY <2>3, <2>4, <2>6 DEF SgPcs
      <3>3. QED
        BY <2>1, <3>1, <3>2 DEF ContextTypes
    <2>8. SgContext(y, s)
      <3>1. /\ y.descriptors = 0 /\ y.done = 0 /\ y.next = x.next
        BY <2>5, <2>6 DEF Same
      <3>2. /\ y.copied + y.remaining = PayloadLen(s) /\ y.segment_left <= y.remaining
            /\ y.source = y.copied
            /\ y.copied + y.segment_left = x.copied + x.segment_left
            /\ y.segment_left # y.remaining => x.segment_left # x.remaining
        BY <2>1, <2>3, <2>4, <2>6
      <3>3. /\ ~s.iso /\ s.num_sgs # 0 /\ PayloadLen(s) # 0
            /\ x.next # 0 =>
                  /\ x.next \in DOMAIN s.sg
                  /\ s.sg[x.next].chain = 0 /\ x.segment_left # x.remaining =>
                        s.sg[x.next].start = x.copied + x.segment_left
        BY <2>1 DEF SgContext
      <3>4. QED
        BY <2>3, <3>1, <3>2, <3>3 DEF SgContext
    <2>9. ContextOK(y, s)
      BY <2>1, <2>3, <2>5, <2>7, <2>8 DEF ContextOK, Same, SgPcs
    <2>10. Keeps(x, y)
      <3>1. Written(y) = Written(x)
        BY <1>4, <2>3, <2>5, <2>6 DEF Written, Same
      <3>2. QED
        BY <1>4, <2>1, <2>3, <2>5, <3>1 DEF Keeps, Agrees, Same
    <2>11. QED
      BY <1>1, <1>2, <2>2, <2>7, <2>9, <2>10 DEF Effect, Follows, y
  <1>5. QED
    BY <1>1, <1>3, <1>4

\* The read fails: the reservation is discarded, the event is lost.
LEMMA ReadFailsEffect ==
    ASSUME ShapeInv, CpuInv, NEW c \in Cpus, ReadChunkFails(c)
    PROVE  Effect(c)
  <1> DEFINE x == cpu[c]
             y == cpu'[c]
             s == shape[x.id]
  <1>1. /\ Settle(c, "discarded") /\ Reading(x) /\ x.pc # "idle"
        /\ UNCHANGED <<sg_supported, shape, attempts, reassembler>>
        /\ errors < MaxFaults /\ errors' = errors + 1
        /\ cpu' = [cpu EXCEPT ![c].pc = "end", ![c].reason = LOSS_READ,
                       ![c].copied = @ + x.done]
    BY DEF ReadChunkFails, Reading, Faulty, DiscardChunk
  <1>2. /\ x # Idle /\ s \in Shapes /\ ContextOK(x, s) /\ DOMAIN cpu = Cpus /\ ContextTypes(x)
    BY <1>1, Running DEF ContextOK
  <1>3. /\ DOMAIN cpu' = Cpus /\ (\A e \in Cpus : e # c => cpu'[e] = cpu[e])
        /\ y.pc = "end" /\ y.reason = LOSS_READ /\ y.copied = x.copied + x.done
    BY <1>1, <1>2 DEF ContextTypes, ContextFields
  <1>4. Same(y, x, {"pc", "reason", "copied"})
    BY <1>1, <1>2 DEF Same, ContextTypes, ContextFields
  <1> HIDE DEF y
  <1>5. ContextTypes(y) /\ y.id = x.id /\ y.reason # COMPLETE /\ y # Idle
    <2>1. x.copied \in Nat /\ x.done \in Nat
      BY <1>2 DEF ContextTypes
    <2>2. ContextTypes(y) /\ y.id = x.id
      BY <1>2, <1>3, <1>4, <2>1 DEF ContextTypes, Same
    <2>3. QED
      BY <1>3, <2>2 DEF COMPLETE, LOSS_READ, Idle
  <1>6. Follows(x, y, s)
    BY <1>2, <1>3, <1>5, LossLemma
  <1>7. QED
    BY <1>1, <1>2, <1>3, <1>5, <1>6 DEF Effect, y

\* The End record says what was sent.
LEMMA EndEffect ==
    ASSUME ShapeInv, CpuInv, NEW c \in Cpus, End(c)
    PROVE  Effect(c)
  <1> DEFINE x == cpu[c]
             y == cpu'[c]
             s == shape[x.id]
             rec == [kind |-> "end", id |-> x.id, copied |-> x.copied,
                     descriptors |-> x.descriptors, reason |-> x.reason]
  <1>1. /\ x.pc = "end" /\ ~Reading(x) /\ cpu' = [cpu EXCEPT ![c] = Idle]
        /\ UNCHANGED <<sg_supported, shape, attempts, reassembler>> /\ errors' = errors
    BY DEF End, Reading
  <1>2. /\ x # Idle /\ x.id \in Ids /\ s \in Shapes /\ ContextOK(x, s) /\ DOMAIN cpu = Cpus
        /\ ContextTypes(x) /\ Measurable(s)
    BY <1>1, Running DEF ContextOK
  <1>3. /\ y = Idle /\ DOMAIN cpu' = Cpus /\ \A e \in Cpus : e # c => cpu'[e] = cpu[e]
    BY <1>1, <1>2
  <1>4. CASE ~Fits(rec)
    <2>1. ring' = ring
      BY <1>4 DEF End, EndLost
    <2>2. QED
      BY <1>1, <1>2, <1>3, <2>1 DEF Effect, Follows, Keeps
  <1>5. CASE Fits(rec)
    <2>1. ring' = Append(ring, Slot("ready", c, rec))
      BY <1>5 DEF End, Publish
    <2>2. /\ rec.kind = "end" /\ rec.id = x.id /\ rec.copied = x.copied
          /\ rec.descriptors = x.descriptors /\ rec.reason = x.reason
      OBVIOUS
    <2>3. /\ x.copied \in Nat /\ x.descriptors \in Nat /\ x.reason \in Nat
      BY <1>2 DEF ContextTypes, COMPLETE, LOSS_RING, LOSS_READ, LOSS_UNSUPPORTED_BUFFER
    <2>4. rec \in Records
      BY <1>2, <2>3 DEF Records
    <2> HIDE DEF rec
    <2>5. Honest(rec, s)
      BY <1>2, <2>2, <2>3 DEF Honest
    <2>6. ASSUME NEW a \in Stages, Agrees(a, x)
          PROVE  \E b \in Stages : Told(s, a, rec, b)
      <3> DEFINE b == Stage("closed", 0, 0)
      <3>1. b \in Stages /\ b.stage = "closed"
        BY DEF Stage, Stages
      <3>2. a.stage = "open"
        BY <1>1, <2>6 DEF Agrees
      <3>3. ASSUME x.reason = COMPLETE
            PROVE  /\ x.descriptors = a.frames /\ x.copied = a.bytes
                   /\ Everything(s, a.frames, a.bytes)
        <4>1. x.done = 0 /\ Everything(s, x.descriptors, x.copied)
          BY <1>1, <1>2, <3>3 DEF ContextOK
        <4>2. a.frames = x.descriptors /\ a.bytes = x.copied
          BY <1>1, <2>3, <2>6, <3>3, <4>1 DEF Agrees, Written
        <4>3. QED
          BY <4>1, <4>2
      <3> HIDE DEF b
      <3>4. Told(s, a, rec, b)
        BY <2>2, <3>1, <3>2, <3>3 DEF Told
      <3>5. QED
        BY <3>1, <3>4
    <2>7. Sends(x, y, s, rec)
      BY <1>3, <1>5, <2>2, <2>4, <2>5, <2>6 DEF Sends, rec
    <2>8. QED
      BY <1>1, <1>2, <1>3, <2>1, <2>7 DEF Effect, Follows
  <1>6. QED
    BY <1>4, <1>5

\* Every step of an emit().
LEMMA EmitEffect ==
    ASSUME ShapeInv, CpuInv, NEW c \in Cpus, EmitStep(c)
    PROVE  Effect(c)
  BY BeginEffect, IsoEffect, CopyEffect, SgStartEffect, SgDoneEffect, SgNextEffect,
     SgChunkEffect, ReadEffect, ReadFailsEffect, EndEffect DEF EmitStep

-----------------------------------------------------------------------------
(* What a step of an emit() preserves *)

LEMMA EffectCpu ==
    ASSUME ShapeInv, CpuInv, NEW c \in Cpus, Effect(c)
    PROVE  ShapeInv' /\ CpuInv'
  <1> DEFINE x == cpu[c]
             y == cpu'[c]
             s == shape[x.id]
  <1>1. /\ DOMAIN cpu' = Cpus /\ (\A d \in Cpus : d # c => cpu'[d] = cpu[d])
        /\ x # Idle /\ Follows(x, y, s) /\ shape' = shape /\ attempts' = attempts
        /\ errors' = errors \/ (errors < MaxFaults /\ errors' = errors + 1)
    BY DEF Effect
  <1>2. ShapeInv'
    BY <1>1, TransportAssumption DEF ShapeInv
  <1>3. x.id \in DOMAIN shape
    BY <1>1 DEF CpuInv
  <1>4. ASSUME NEW d \in Cpus, cpu'[d] # Idle
        PROVE  /\ cpu[d] # Idle /\ cpu'[d].id = cpu[d].id
               /\ ContextOK(cpu'[d], shape[cpu'[d].id])
    BY <1>1, <1>4 DEF Follows, CpuInv
  <1>5. CpuInv'
    <2>1. ASSUME NEW d \in Cpus, cpu'[d] # Idle
          PROVE  cpu'[d].id \in DOMAIN shape' /\ ContextOK(cpu'[d], shape'[cpu'[d].id])
      BY <1>1, <1>4, <2>1 DEF CpuInv
    <2>2. ASSUME NEW d \in Cpus, NEW e \in Cpus, d # e, cpu'[d] # Idle, cpu'[e] # Idle
          PROVE  cpu'[d].id # cpu'[e].id
      BY <1>4, <2>2 DEF CpuInv
    <2>3. QED
      BY <1>1, <2>1, <2>2 DEF CpuInv
  <1>6. QED
    BY <1>2, <1>5

\* A new slot goes to the end of the ring.
LEMMA AppendFacts ==
    ASSUME RingInv, NEW slot, ring' = Append(ring, slot)
    PROVE  /\ Len(ring) \in Nat /\ DOMAIN ring = 1 .. Len(ring)
           /\ Len(ring') = Len(ring) + 1 /\ DOMAIN ring' = 1 .. (Len(ring) + 1)
           /\ \A i \in 1 .. Len(ring) : ring'[i] = ring[i]
           /\ ring'[Len(ring) + 1] = slot
           /\ slot \in Slots => ring' \in Seq(Slots)
  <1>1. ring \in Seq(Slots)
    BY DEF RingInv
  <1> HIDE DEF RingInv
  <1>2. QED
    BY <1>1

\* The reservations of a CPU change their state, and nothing else changes.
LEMMA SettleFacts ==
    ASSUME RingInv, NEW c \in Cpus, NEW state \in {"ready", "discarded"}, Settle(c, state)
    PROVE  /\ Len(ring) \in Nat /\ DOMAIN ring = 1 .. Len(ring)
           /\ Len(ring') = Len(ring) /\ DOMAIN ring' = 1 .. Len(ring)
           /\ ring' \in Seq(Slots)
           /\ \A i \in 1 .. Len(ring) :
                 /\ ring'[i].record = ring[i].record /\ ring'[i].cpu = ring[i].cpu
                 /\ ring'[i].state = IF ring[i].cpu = c /\ ring[i].state = "busy"
                                     THEN state ELSE ring[i].state
  <1>1. /\ ring \in Seq(Slots) /\ Len(ring) \in Nat /\ DOMAIN ring = 1 .. Len(ring)
        /\ \A i \in 1 .. Len(ring) : ring[i] \in Slots
    BY DEF RingInv
  <1> DEFINE new(i) == IF ring[i].cpu = c /\ ring[i].state = "busy"
                       THEN [ring[i] EXCEPT !.state = state] ELSE ring[i]
  <1>2. ring' = [i \in 1 .. Len(ring) |-> new(i)]
    BY <1>1 DEF Settle
  <1>3. ASSUME NEW i \in 1 .. Len(ring)
        PROVE  /\ new(i) \in Slots
               /\ new(i).record = ring[i].record /\ new(i).cpu = ring[i].cpu
               /\ new(i).state = IF ring[i].cpu = c /\ ring[i].state = "busy"
                                 THEN state ELSE ring[i].state
    BY <1>1 DEF Slots
  <1> HIDE DEF new
  <1>4. ring' \in [1 .. Len(ring) -> Slots]
    BY <1>2, <1>3
  <1>5. ring' \in Seq(Slots) /\ Len(ring') = Len(ring)
    BY <1>1, <1>2, <1>4
  <1>6. QED
    BY <1>1, <1>2, <1>3, <1>5

LEMMA EffectRing ==
    ASSUME ShapeInv, CpuInv, RingInv, NEW c \in Cpus, Effect(c)
    PROVE  RingInv'
  <1> DEFINE x == cpu[c]
             y == cpu'[c]
             s == shape[x.id]
  <1>1. /\ \A d \in Cpus : d # c => cpu'[d] = cpu[d]
        /\ x # Idle /\ shape' = shape
    BY DEF Effect
  <1>2. x.id \in DOMAIN shape /\ \A d \in Cpus : d # c /\ cpu[d] # Idle => cpu[d].id # x.id
    BY <1>1 DEF CpuInv
  <1>3. /\ Len(ring) \in Nat /\ DOMAIN ring = 1 .. Len(ring)
        /\ \A i \in 1 .. Len(ring) : ring[i] \in Slots /\ SlotInv(ring[i])
        /\ \A i, j \in 1 .. Len(ring) :
              i < j /\ ring[i].state = "busy" => ring[j].record.id # ring[i].record.id
    BY DEF RingInv
  <1>5. ASSUME NEW i \in 1 .. Len(ring), ring[i].state = "busy", ~Reading(x)
        PROVE  ring[i].cpu # c /\ ring[i].record.id # x.id
    <2>1. /\ ring[i].cpu \in Cpus /\ cpu[ring[i].cpu] # Idle
          /\ cpu[ring[i].cpu].id = ring[i].record.id
          /\ cpu[ring[i].cpu].pc \in {"read", "sg_read"}
      BY <1>3, <1>5 DEF SlotInv
    <2>2. ring[i].cpu # c
      BY <1>5, <2>1 DEF Reading
    <2>3. QED
      BY <1>2, <2>1, <2>2
  <1>6. CASE ring' = ring /\ ~Reading(x)
    <2>1. ASSUME NEW i \in 1 .. Len(ring) PROVE SlotInv(ring[i])'
      <3>1. ring[i].state = "busy" => ring[i].cpu # c
        BY <1>5, <1>6
      <3>2. ring'[i] = ring[i] /\ SlotInv(ring[i])
        BY <1>3, <1>6
      <3>3. QED
        BY <1>1, <3>1, <3>2 DEF SlotInv
    <2>2. QED
      BY <1>3, <1>6, <2>1 DEF RingInv
  <1>7. ASSUME NEW rec, NEW state \in {"ready", "busy"}, ~Reading(x),
               ring' = Append(ring, Slot(state, c, rec)), Sends(x, y, s, rec),
               state = "busy" => rec.kind = "data" /\ y # Idle /\ Reading(y) /\ y.id = x.id
        PROVE  RingInv'
    <2>0. PICK n \in Nat : n = Len(ring)
      BY <1>3
    <2> DEFINE slot == Slot(state, c, rec)
    <2>1. slot \in Slots /\ slot.state = state /\ slot.cpu = c /\ slot.record = rec
      BY <1>7 DEF Slot, Slots, Sends
    <2>2. ring' = Append(ring, slot)
      BY <1>7
    <2> HIDE DEF slot
    <2>3. /\ Len(ring') = n + 1 /\ DOMAIN ring' = 1 .. (n + 1)
          /\ \A i \in 1 .. n : ring'[i] = ring[i]
          /\ ring'[n + 1] = slot /\ ring' \in Seq(Slots)
      BY <2>0, <2>1, <2>2, AppendFacts
    <2>4. ASSUME NEW i \in 1 .. n PROVE SlotInv(ring[i])'
      <3>1. ring[i].state = "busy" => ring[i].cpu # c
        BY <1>5, <1>7, <2>0
      <3>2. ring'[i] = ring[i] /\ SlotInv(ring[i])
        BY <1>3, <2>0, <2>3
      <3>3. QED
        BY <1>1, <3>1, <3>2 DEF SlotInv
    <2>5. SlotInv(ring[n + 1])'
      <3>1. rec.id = x.id /\ Honest(rec, s)
        BY <1>7 DEF Sends
      <3>2. QED
        BY <1>1, <1>2, <1>7, <2>1, <2>3, <3>1 DEF SlotInv, Reading
    <2>6. ASSUME NEW i \in DOMAIN ring', NEW j \in DOMAIN ring', i < j, ring'[i].state = "busy"
          PROVE  ring'[j].record.id # ring'[i].record.id
      <3>1. i \in 1 .. n /\ ring'[i] = ring[i]
        BY <2>0, <2>3, <2>6
      <3>2. CASE j \in 1 .. n
        BY <1>3, <2>0, <2>3, <2>6, <3>1, <3>2
      <3>3. CASE j = n + 1
        <4>1. ring'[j].record.id = x.id
          BY <1>7, <2>1, <2>3, <3>3 DEF Sends
        <4>2. QED
          BY <1>5, <1>7, <2>0, <2>6, <3>1, <4>1
      <3>4. QED
        BY <2>0, <2>3, <3>2, <3>3
    <2>7. ASSUME NEW i \in DOMAIN ring' PROVE SlotInv(ring[i])'
      <3>1. i \in 1 .. n \/ i = n + 1
        BY <2>0, <2>3
      <3>2. QED
        BY <2>4, <2>5, <3>1
    <2>8. QED
      BY <2>3, <2>6, <2>7 DEF RingInv
  <1>8. ASSUME NEW state \in {"ready", "discarded"}, Settle(c, state), Reading(x)
        PROVE  RingInv'
    <2>1. /\ Len(ring') = Len(ring) /\ DOMAIN ring' = 1 .. Len(ring)
          /\ ring' \in Seq(Slots)
          /\ \A i \in 1 .. Len(ring) :
                /\ ring'[i].record = ring[i].record /\ ring'[i].cpu = ring[i].cpu
                /\ ring'[i].state = IF ring[i].cpu = c /\ ring[i].state = "busy"
                                    THEN state ELSE ring[i].state
      BY <1>8, SettleFacts
    <2>2. ASSUME NEW i \in 1 .. Len(ring) PROVE SlotInv(ring[i])'
      <3>1. CASE ring[i].cpu = c /\ ring[i].state = "busy"
        <4>1. ring'[i].state = state /\ state # "busy" /\ SlotInv(ring[i])
          BY <1>3, <1>8, <2>1, <3>1
        <4>2. QED
          BY <1>1, <2>1, <3>1, <4>1 DEF SlotInv
      <3>2. CASE ~(ring[i].cpu = c /\ ring[i].state = "busy")
        <4>1. ring'[i].state = ring[i].state /\ SlotInv(ring[i])
          BY <1>3, <2>1, <3>2
        <4>2. QED
          BY <1>1, <2>1, <3>2, <4>1 DEF SlotInv
      <3>3. QED
        BY <3>1, <3>2
    <2>3. ASSUME NEW i \in 1 .. Len(ring), NEW j \in 1 .. Len(ring), i < j,
                 ring'[i].state = "busy"
          PROVE  ring'[j].record.id # ring'[i].record.id
      BY <1>3, <1>8, <2>1, <2>3
    <2>4. QED
      BY <2>1, <2>2, <2>3 DEF RingInv
  <1>9. y = Idle \/ y.id = x.id
    BY DEF Effect, Follows
  <1>10. QED
    BY <1>6, <1>7, <1>8, <1>9 DEF Effect

\* The parts of a chain.
LEMMA LinkedFacts ==
    ASSUME RingInv, NEW id, NEW P, Linked(id, P), NEW n, n = Len(ring)
    PROVE  /\ n \in Nat /\ DOMAIN P = 0 .. n /\ P[n] \in Stages
           /\ \A i \in 0 .. n : P[i] \in Stages
           /\ \A i \in 1 .. n : Link(id, shape[id], P[i - 1], ring[i], P[i])
           /\ \A i, j \in 0 .. n : i <= j /\ P[i].stage = "closed" => P[j].stage = "closed"
           /\ \A i, j \in 0 .. n : i <= j /\ P[i].stage = "open" => P[j].stage # "new"
  <1>1. n \in Nat
    BY DEF RingInv
  <1>2. P \in [0 .. n -> Stages] /\ n \in 0 .. n
    BY <1>1 DEF Linked
  <1>3. QED
    BY <1>1, <1>2 DEF Linked

\* What one slot says never leads back.
LEMMA LinkForward ==
    ASSUME NEW id, NEW s, NEW a \in Stages, NEW slot, NEW b, Link(id, s, a, slot, b)
    PROVE  /\ b \in Stages \/ ~(slot.record.id = id /\ slot.state # "discarded") => b \in Stages
           /\ a.stage = "closed" => b.stage = "closed"
           /\ a.stage = "open" => b.stage # "new"
  <1>1. CASE ~(slot.record.id = id /\ slot.state # "discarded")
    BY <1>1 DEF Link
  <1>2. CASE slot.record.id = id /\ slot.state # "discarded"
    <2>1. Told(s, a, slot.record, b)
      BY <1>2 DEF Link
    <2>2. a.stage # "closed" /\ (a.stage = "open" => b.stage # "new")
      BY <2>1 DEF Told, New, Stage
    <2>3. QED
      BY <1>2, <2>2
  <1>3. QED
    BY <1>1, <1>2

LEMMA EffectChain ==
    ASSUME ShapeInv, CpuInv, RingInv, ChainInv, NEW c \in Cpus, Effect(c)
    PROVE  ChainInv'
  <1> DEFINE x == cpu[c]
             y == cpu'[c]
             s == shape[x.id]
  <1>1. /\ \A d \in Cpus : d # c => cpu'[d] = cpu[d]
        /\ x # Idle /\ shape' = shape /\ (y = Idle \/ y.id = x.id)
        /\ pending' = pending /\ delivered' = delivered /\ failed' = failed
    BY DEF Effect, Follows, reassembler
  <1>2. Done' = Done /\ Pending' = Pending
    BY <1>1 DEF Done, Pending
  <1>3. \A d \in Cpus : d # c /\ cpu[d] # Idle => cpu[d].id # x.id
    BY <1>1 DEF CpuInv
  <1>4. SUFFICES ASSUME NEW id \in DOMAIN shape PROVE \E P : Linked(id, P)'
    BY <1>1 DEF ChainInv
  <1>5. PICK P : Linked(id, P)
    BY DEF ChainInv
  <1>6. PICK n \in Nat : n = Len(ring)
    BY DEF RingInv
  <1>7. /\ DOMAIN P = 0 .. n /\ P[n] \in Stages /\ P \in [0 .. n -> Stages]
        /\ \A i \in 0 .. n : P[i] \in Stages
        /\ \A i \in 1 .. n : Link(id, shape[id], P[i - 1], ring[i], P[i])
        /\ \A i, j \in 0 .. n : i <= j /\ P[i].stage = "closed" => P[j].stage = "closed"
        /\ \A i, j \in 0 .. n : i <= j /\ P[i].stage = "open" => P[j].stage # "new"
    BY <1>5, <1>6, LinkedFacts DEF Linked
  <1>8. /\ id \in Done => P[0].stage = "closed"
        /\ ~failed => IF id \in Pending
                      THEN P[0] = Stage("open", Len(pending[id].iso), pending[id].copied)
                      ELSE P[0].stage # "open"
        /\ \A d \in Cpus : Runs(d, id) => Agrees(P[n], cpu[d])
    BY <1>5, <1>6 DEF Linked
  <1>9. x.id = id => Agrees(P[n], x)
    BY <1>1, <1>8 DEF Runs
  <1>10. \* the links and the CPUs that make a new chain
         ASSUME NEW Q, NEW m \in Nat, m = Len(ring'), Q \in [0 .. m -> Stages], Q[0] = P[0],
                \A i \in 1 .. m : Link(id, shape[id], Q[i - 1], ring'[i], Q[i]),
                \A i, j \in 0 .. m : i <= j /\ Q[i].stage = "closed" => Q[j].stage = "closed",
                \A i, j \in 0 .. m : i <= j /\ Q[i].stage = "open" => Q[j].stage # "new",
                x.id = id => y = Idle \/ Agrees(Q[m], y),
                x.id # id => Q[m] = P[n]
         PROVE  \E R : Linked(id, R)'
    <2>1. ASSUME NEW d \in Cpus, Runs(d, id)' PROVE Agrees(Q[m], cpu'[d])
      <3>1. CASE d = c
        BY <1>1, <1>10, <2>1, <3>1 DEF Runs
      <3>2. CASE d # c
        <4>1. cpu'[d] = cpu[d] /\ cpu[d] # Idle /\ cpu[d].id = id
          BY <1>1, <2>1, <3>2 DEF Runs
        <4>2. x.id # id
          BY <1>3, <3>2, <4>1
        <4>3. QED
          BY <1>8, <1>10, <4>1, <4>2 DEF Runs
      <3>3. QED
        BY <3>1, <3>2
    <2>2. Linked(id, Q)'
      BY <1>1, <1>2, <1>8, <1>10, <2>1 DEF Linked
    <2>3. QED
      BY <2>2
  <1>11. CASE ring' = ring /\ Keeps(x, y)
    <2>1. x.id = id => y = Idle \/ Agrees(P[n], y)
      BY <1>7, <1>9, <1>11 DEF Keeps
    <2>2. n = Len(ring')
      BY <1>6, <1>11
    <2>3. \A i \in 1 .. n : Link(id, shape[id], P[i - 1], ring'[i], P[i])
      BY <1>7, <1>11
    <2>4. QED
      BY <1>7, <1>10, <2>1, <2>2, <2>3
  <1>12. ASSUME NEW rec, NEW state \in {"ready", "busy"},
                ring' = Append(ring, Slot(state, c, rec)), Sends(x, y, s, rec)
         PROVE  \E R : Linked(id, R)'
    <2> DEFINE slot == Slot(state, c, rec)
    <2>1. slot.state = state /\ slot.state # "discarded" /\ slot.record = rec /\ rec.id = x.id
      BY <1>12 DEF Slot, Sends
    <2>2. ring' = Append(ring, slot)
      BY <1>12
    <2> HIDE DEF slot
    <2>3. /\ Len(ring') = n + 1 /\ (\A i \in 1 .. n : ring'[i] = ring[i])
          /\ ring'[n + 1] = slot
      BY <1>6, <2>2, AppendFacts
    <2>4. PICK b \in Stages : /\ Link(id, shape[id], P[n], slot, b)
                              /\ x.id = id => y = Idle \/ Agrees(b, y)
                              /\ x.id # id => b = P[n]
      <3>1. CASE x.id = id
        <4>1. PICK b \in Stages : Told(s, P[n], rec, b) /\ (y = Idle \/ Agrees(b, y))
          BY <1>7, <1>9, <1>12, <3>1 DEF Sends
        <4>2. Link(id, shape[id], P[n], slot, b)
          BY <2>1, <3>1, <4>1 DEF Link
        <4>3. QED
          BY <3>1, <4>1, <4>2
      <3>2. CASE x.id # id
        <4>1. Link(id, shape[id], P[n], slot, P[n])
          BY <2>1, <3>2 DEF Link
        <4>2. QED
          BY <1>7, <3>2, <4>1
      <3>3. QED
        BY <3>1, <3>2
    <2>5. /\ P[n].stage = "closed" => b.stage = "closed"
          /\ P[n].stage = "open" => b.stage # "new"
      BY <1>7, <2>4, LinkForward
    <2> DEFINE Q == [i \in 0 .. (n + 1) |-> IF i = n + 1 THEN b ELSE P[i]]
    <2>6. /\ Q \in [0 .. (n + 1) -> Stages] /\ Q[n + 1] = b
          /\ \A i \in 0 .. n : Q[i] = P[i]
      BY <1>7, <2>4
    <2> HIDE DEF Q
    <2>7. ASSUME NEW i \in 1 .. (n + 1)
          PROVE  Link(id, shape[id], Q[i - 1], ring'[i], Q[i])
      <3>1. CASE i = n + 1
        <4>1. i - 1 = n /\ n \in 0 .. n
          BY <3>1
        <4>2. QED
          BY <2>3, <2>4, <2>6, <3>1, <4>1
      <3>2. CASE i # n + 1
        <4>1. i \in 1 .. n /\ i - 1 \in 0 .. n /\ i \in 0 .. n
          BY <3>2
        <4>2. QED
          BY <1>7, <2>3, <2>6, <4>1
      <3>3. QED
        BY <3>1, <3>2
    <2>8. ASSUME NEW i \in 0 .. (n + 1), NEW j \in 0 .. (n + 1), i <= j
          PROVE  /\ Q[i].stage = "closed" => Q[j].stage = "closed"
                 /\ Q[i].stage = "open" => Q[j].stage # "new"
      <3>1. CASE j # n + 1
        BY <1>7, <2>6, <2>8, <3>1
      <3>2. CASE j = n + 1 /\ i # n + 1
        <4>1. /\ Q[i].stage = "closed" => P[n].stage = "closed"
              /\ Q[i].stage = "open" => P[n].stage # "new"
          BY <1>7, <2>6, <2>8, <3>2
        <4>2. P[n].stage \in {"new", "open", "closed"}
          BY <1>7 DEF Stages
        <4>3. QED
          BY <2>5, <2>6, <3>2, <4>1, <4>2
      <3>3. CASE j = n + 1 /\ i = n + 1
        BY <3>3
      <3>4. QED
        BY <3>1, <3>2, <3>3
    <2>9. n + 1 \in Nat /\ n + 1 = Len(ring') /\ Q[0] = P[0]
      BY <2>3, <2>6
    <2>10. /\ x.id = id => y = Idle \/ Agrees(Q[n + 1], y)
           /\ x.id # id => Q[n + 1] = P[n]
      BY <2>4, <2>6
    <2>11. QED
      BY <1>10, <2>6, <2>7, <2>8, <2>9, <2>10
  <1>13. ASSUME NEW state \in {"ready", "discarded"}, Settle(c, state), Reading(x),
                \/ state = "ready" /\ Keeps(x, y)
                \/ y # Idle /\ y.pc = "end" /\ y.reason # COMPLETE
         PROVE  \E R : Linked(id, R)'
    <2>1. /\ Len(ring') = n
          /\ \A i \in 1 .. n :
                /\ ring'[i].record = ring[i].record /\ ring'[i].cpu = ring[i].cpu
                /\ ring'[i].state = IF ring[i].cpu = c /\ ring[i].state = "busy"
                                    THEN state ELSE ring[i].state
      BY <1>6, <1>13, SettleFacts
    <2>2. ASSUME NEW i \in 1 .. n, ring[i].cpu = c, ring[i].state = "busy"
          PROVE  /\ ring[i].record.id = x.id /\ ring[i].record.kind = "data"
                 /\ \A j \in 1 .. n : i < j => ring[j].record.id # x.id
      <3>1. SlotInv(ring[i]) /\ \A j \in 1 .. n : i < j => ring[j].record.id # ring[i].record.id
        BY <1>6, <2>2 DEF RingInv
      <3>2. ring[i].record.id = x.id /\ ring[i].record.kind = "data"
        BY <2>2, <3>1 DEF SlotInv
      <3>3. QED
        BY <3>1, <3>2
    <2>3. CASE state = "ready" \/ x.id # id \/ ~\E i \in 1 .. n : ring[i].cpu = c /\ ring[i].state = "busy"
      <3>1. ASSUME NEW i \in 1 .. n PROVE Link(id, shape[id], P[i - 1], ring'[i], P[i])
        <4>1. Link(id, shape[id], P[i - 1], ring[i], P[i])
          BY <1>7
        <4>2. /\ ring'[i].record = ring[i].record
              /\ ring[i].record.id = id =>
                    (ring'[i].state # "discarded" <=> ring[i].state # "discarded")
          BY <2>1, <2>2, <2>3
        <4>3. QED
          BY <4>1, <4>2 DEF Link
      <3>2. x.id = id => y = Idle \/ Agrees(P[n], y)
        <4>1. CASE Keeps(x, y)
          BY <1>7, <1>9, <4>1 DEF Keeps
        <4>2. CASE y.pc = "end" /\ y.reason # COMPLETE
          BY <1>9, <1>13, <4>2 DEF Agrees, Reading
        <4>3. QED
          BY <1>13, <4>1, <4>2
      <3>3. QED
        BY <1>7, <1>10, <2>1, <3>1, <3>2
    <2>4. CASE /\ state = "discarded" /\ x.id = id
               /\ \E i \in 1 .. n : ring[i].cpu = c /\ ring[i].state = "busy"
      <3>1. PICK k \in 1 .. n : ring[k].cpu = c /\ ring[k].state = "busy"
        BY <2>4
      <3>2. /\ ring[k].record.id = id /\ ring[k].record.kind = "data"
            /\ \A j \in 1 .. n : k < j => ring[j].record.id # id
        BY <2>2, <2>4, <3>1
      <3>3. \A i \in 1 .. n : i < k => ~(ring[i].cpu = c /\ ring[i].state = "busy")
        BY <2>2, <2>4, <3>2
      <3>4. k - 1 \in 0 .. n /\ P[k - 1] \in Stages /\ P[k - 1].stage = "open"
        <4>1. k - 1 \in 0 .. n
          OBVIOUS
        <4>2. Told(shape[id], P[k - 1], ring[k].record, P[k])
          BY <1>7, <3>1, <3>2 DEF Link
        <4>3. QED
          BY <1>7, <3>2, <4>1, <4>2 DEF Told
      <3> DEFINE Q == [i \in 0 .. n |-> IF i < k THEN P[i] ELSE P[k - 1]]
      <3>5. /\ Q \in [0 .. n -> Stages] /\ Q[0] = P[0] /\ Q[n] = P[k - 1]
            /\ \A i \in 0 .. n : Q[i] = IF i < k THEN P[i] ELSE P[k - 1]
        BY <1>7, <3>4
      <3> HIDE DEF Q
      <3>6. ASSUME NEW i \in 1 .. n PROVE Link(id, shape[id], Q[i - 1], ring'[i], Q[i])
        <4>1. i - 1 \in 0 .. n /\ i \in 0 .. n
          OBVIOUS
        <4>2. CASE i < k
          <5>1. ring'[i].record = ring[i].record /\ ring'[i].state = ring[i].state
            BY <2>1, <3>3, <4>2
          <5>2. Link(id, shape[id], P[i - 1], ring[i], P[i]) /\ Q[i - 1] = P[i - 1] /\ Q[i] = P[i]
            BY <1>7, <3>5, <4>1, <4>2
          <5>3. QED
            BY <5>1, <5>2 DEF Link
        <4>3. CASE i = k
          <5>1. ring'[i].state = "discarded" /\ Q[i - 1] = P[k - 1] /\ Q[i] = P[k - 1]
            BY <2>1, <2>4, <3>1, <3>5, <4>1, <4>3
          <5>2. QED
            BY <5>1 DEF Link
        <4>4. CASE i > k
          <5>1. ring'[i].record.id # id /\ Q[i - 1] = P[k - 1] /\ Q[i] = P[k - 1]
            BY <2>1, <3>2, <3>5, <4>1, <4>4
          <5>2. QED
            BY <5>1 DEF Link
        <4>5. QED
          BY <4>2, <4>3, <4>4
      <3>7. ASSUME NEW i \in 0 .. n, NEW j \in 0 .. n, i <= j
            PROVE  /\ Q[i].stage = "closed" => Q[j].stage = "closed"
                   /\ Q[i].stage = "open" => Q[j].stage # "new"
        <4> DEFINE i1 == IF i < k THEN i ELSE k - 1
                   j1 == IF j < k THEN j ELSE k - 1
        <4>1. i1 \in 0 .. n /\ j1 \in 0 .. n /\ i1 <= j1 /\ Q[i] = P[i1] /\ Q[j] = P[j1]
          BY <3>4, <3>5, <3>7
        <4> HIDE DEF i1, j1
        <4>2. QED
          BY <1>7, <4>1
      <3>8. Agrees(Q[n], y)
        BY <1>13, <2>4, <3>4, <3>5 DEF Agrees
      <3>9. /\ \A i, j \in 0 .. n : i <= j /\ Q[i].stage = "closed" => Q[j].stage = "closed"
            /\ \A i, j \in 0 .. n : i <= j /\ Q[i].stage = "open" => Q[j].stage # "new"
        BY <3>7
      <3>10. /\ x.id = id => y = Idle \/ Agrees(Q[n], y)
             /\ x.id # id => Q[n] = P[n]
        BY <2>4, <3>8
      <3>11. QED
        BY <1>10, <2>1, <3>5, <3>6, <3>9, <3>10
    <2>5. QED
      BY <1>13, <2>3, <2>4
  <1>14. QED
    BY <1>11, <1>12, <1>13 DEF Effect

\* Every step of an emit() keeps the invariant.
LEMMA EmitKeeps ==
    ASSUME TransportInv, NEW c \in Cpus, EmitStep(c)
    PROVE  TransportInv'
  <1>1. ShapeInv /\ CpuInv /\ RingInv /\ ChainInv /\ EventInv /\ StreamInv
    BY DEF TransportInv
  <1>2. Effect(c)
    BY <1>1, EmitEffect
  <1>3. ShapeInv' /\ CpuInv' /\ RingInv' /\ ChainInv'
    BY <1>1, <1>2, EffectCpu, EffectRing, EffectChain
  <1>4. /\ shape' = shape /\ pending' = pending /\ reassembly' = reassembly
        /\ delivered' = delivered /\ failed' = failed /\ begun' = begun
    BY <1>2 DEF Effect, reassembler
  <1>5. Pending' = Pending
    BY <1>4 DEF Pending
  <1>6. EventInv'
    BY <1>1, <1>4, <1>5 DEF EventInv, OpenInv
  <1>7. StreamInv'
    BY <1>1, <1>4, <1>5 DEF StreamInv, CounterTypes, AcceptedInv
  <1>8. QED
    BY <1>3, <1>6, <1>7 DEF TransportInv

-----------------------------------------------------------------------------
(* A new emit() *)

\* It has sent nothing, and has everything to send.
LEMMA ContextLemma ==
    ASSUME NEW s \in Shapes, Measurable(s), NEW id
    PROVE  /\ Context(s, id) # Idle /\ Context(s, id).id = id
           /\ Context(s, id).pc = "begin" /\ ContextOK(Context(s, id), s)
  <1> DEFINE x == Context(s, id)
  <1>1. /\ DOMAIN x = ContextFields /\ x.pc = "begin" /\ x.id = id /\ x.reason = COMPLETE
    BY DEF Context, ContextFields
  <1>2. ContextTypes(x)
    BY <1>1, ShapeTypes, MeasureLemma DEF ContextTypes, Context, SgFirst
  <1>3. x = Context(s, x.id)
    BY <1>1
  <1>4. x # Idle
    BY <1>1 DEF Idle
  <1> HIDE DEF x
  <1>5. ContextOK(x, s)
    BY <1>1, <1>2, <1>3 DEF ContextOK, SgPcs
  <1>6. QED
    BY <1>1, <1>4, <1>5 DEF x

\* A probe may enter emit(); it draws an id, and runs on if the URB can be measured.
Enters(c) ==
    /\ cpu[c] = Idle /\ DOMAIN cpu' = Cpus /\ \A d \in Cpus : d # c => cpu'[d] = cpu[d]
    /\ \/ shape' = shape /\ cpu'[c] = Idle
       \/ \E s \in Shapes :
             /\ shape' = Append(shape, s)
             /\ \/ cpu'[c] = Idle
                \/ Measurable(s) /\ cpu'[c] = Context(s, Len(shape) + 1)
    /\ attempts < MaxEvents /\ attempts' = attempts + 1
    /\ errors' = errors \/ (errors < MaxFaults /\ errors' = errors + 1)
    /\ UNCHANGED <<sg_supported, ring, reassembler>>

LEMMA StartEnters ==
    ASSUME CpuInv, NEW c \in Cpus, Start(c)
    PROVE  Enters(c)
  <1>1. DOMAIN cpu = Cpus /\ cpu[c].pc = "idle"
    BY DEF CpuInv, Start
  <1>2. cpu[c] = Idle
    BY <1>1 DEF CpuInv, ContextOK, ContextTypes, SgPcs
  <1>3. /\ attempts < MaxEvents /\ attempts' = attempts + 1
        /\ UNCHANGED <<sg_supported, ring, reassembler>>
    BY DEF Start
  <1>4. PICK s \in Shapes :
          \/ /\ Faulty("urb_read")
             /\ UNCHANGED <<cpu, shape>>
          \/ /\ shape' = Append(shape, s)
             /\ \/ /\ Measurable(s)
                   /\ cpu' = [cpu EXCEPT ![c] = Context(s, Len(shape) + 1)]
                   /\ UNCHANGED errors
                \/ /\ \/ UNCHANGED errors
                      \/ Faulty("iso_read")
                   /\ UNCHANGED cpu
    BY DEF Start
  <1>5. errors' = errors \/ (errors < MaxFaults /\ errors' = errors + 1)
    BY <1>4 DEF Faulty
  <1>6. DOMAIN cpu' = Cpus /\ \A d \in Cpus : d # c => cpu'[d] = cpu[d]
    BY <1>1, <1>4
  <1>7. \/ shape' = shape /\ cpu'[c] = Idle
        \/ /\ shape' = Append(shape, s)
           /\ \/ cpu'[c] = Idle
              \/ Measurable(s) /\ cpu'[c] = Context(s, Len(shape) + 1)
    BY <1>1, <1>2, <1>4
  <1>8. QED
    BY <1>2, <1>3, <1>5, <1>6, <1>7 DEF Enters

\* The n shapes drawn so far stay, and the new emit() is that of the next.
Grows(c, n) ==
    /\ shape' \in Seq(Shapes) /\ Len(shape') <= n + 1
    /\ \A id \in DOMAIN shape : id \in DOMAIN shape' /\ shape'[id] = shape[id]
    /\ \A id \in DOMAIN shape' : id \in DOMAIN shape \/ id = n + 1
    /\ cpu'[c] # Idle =>
          /\ cpu'[c].pc = "begin" /\ cpu'[c].id = n + 1 /\ n + 1 \in DOMAIN shape'
          /\ ContextOK(cpu'[c], shape'[n + 1])

LEMMA StartKeeps ==
    ASSUME TransportInv, NEW c \in Cpus, Start(c)
    PROVE  TransportInv'
  <1>1. ShapeInv /\ CpuInv /\ RingInv /\ ChainInv /\ EventInv /\ StreamInv
    BY DEF TransportInv
  <1>2. Enters(c)
    BY <1>1, StartEnters
  <1>3. PICK n \in Nat : n = Len(shape)
    BY <1>1 DEF ShapeInv
  <1>4. DOMAIN shape = 1 .. n /\ shape \in Seq(Shapes)
    BY <1>1, <1>3 DEF ShapeInv
  <1>5. /\ cpu[c] = Idle /\ DOMAIN cpu' = Cpus /\ (\A d \in Cpus : d # c => cpu'[d] = cpu[d])
        /\ ring' = ring /\ pending' = pending /\ reassembly' = reassembly
        /\ delivered' = delivered /\ failed' = failed /\ begun' = begun
    BY <1>2 DEF Enters, reassembler
  <1>6. Pending' = Pending /\ Done' = Done
    BY <1>5 DEF Pending, Done
  <1>A. Grows(c, n)
    <2>1. CASE shape' = shape /\ cpu'[c] = Idle
      BY <1>3, <1>4, <2>1 DEF Grows
    <2>2. ASSUME NEW s \in Shapes, shape' = Append(shape, s),
                 \/ cpu'[c] = Idle
                 \/ Measurable(s) /\ cpu'[c] = Context(s, Len(shape) + 1)
          PROVE  Grows(c, n)
      <3>1. /\ shape' \in Seq(Shapes) /\ Len(shape') = n + 1 /\ DOMAIN shape' = 1 .. (n + 1)
            /\ shape'[n + 1] = s /\ \A id \in 1 .. n : shape'[id] = shape[id]
        BY <1>3, <1>4, <2>2
      <3>2. cpu'[c] # Idle => cpu'[c] = Context(s, n + 1) /\ Measurable(s)
        BY <1>3, <2>2
      <3>3. cpu'[c] # Idle => /\ cpu'[c].pc = "begin" /\ cpu'[c].id = n + 1
                              /\ ContextOK(cpu'[c], s)
        BY <3>2, ContextLemma
      <3>4. QED
        BY <1>4, <3>1, <3>3 DEF Grows
    <2>3. QED
      BY <1>2, <2>1, <2>2 DEF Enters
  <1>7. /\ shape' \in Seq(Shapes)
        /\ \A id \in DOMAIN shape : id \in DOMAIN shape' /\ shape'[id] = shape[id]
        /\ Len(shape') <= n + 1 /\ \A id \in DOMAIN shape' : id \in DOMAIN shape \/ id = n + 1
        /\ cpu'[c] # Idle =>
              /\ cpu'[c].pc = "begin" /\ cpu'[c].id = n + 1 /\ n + 1 \in DOMAIN shape'
              /\ ContextOK(cpu'[c], shape'[n + 1])
    BY <1>A DEF Grows
  <1>8. ShapeInv'
    <2>1. /\ attempts \in Nat /\ n <= attempts /\ errors \in Nat /\ errors <= MaxFaults
          /\ MaxEvents \in Nat /\ MaxFaults \in Nat
      BY <1>1, <1>3, TransportAssumption DEF ShapeInv
    <2>2. /\ attempts < MaxEvents /\ attempts' = attempts + 1
          /\ errors' = errors \/ (errors < MaxFaults /\ errors' = errors + 1)
      BY <1>2 DEF Enters
    <2>3. Len(shape') \in Nat
      BY <1>7
    <2>4. QED
      BY <1>3, <1>7, <2>1, <2>2, <2>3 DEF ShapeInv
  <1>9. CpuInv'
    <2>1. ASSUME NEW d \in Cpus, cpu'[d] # Idle
          PROVE  /\ cpu'[d].id \in DOMAIN shape' /\ ContextOK(cpu'[d], shape'[cpu'[d].id])
                 /\ d # c => cpu[d] # Idle /\ cpu'[d].id = cpu[d].id /\ cpu[d].id \in 1 .. n
                 /\ d = c => cpu'[d].id = n + 1
      <3>1. CASE d = c
        BY <1>7, <2>1, <3>1
      <3>2. CASE d # c
        <4>1. cpu[d] # Idle /\ cpu'[d] = cpu[d]
          BY <1>5, <2>1, <3>2
        <4>2. cpu[d].id \in DOMAIN shape /\ ContextOK(cpu[d], shape[cpu[d].id])
          BY <1>1, <4>1 DEF CpuInv
        <4>3. QED
          BY <1>4, <1>7, <3>2, <4>1, <4>2
      <3>3. QED
        BY <3>1, <3>2
    <2>2. ASSUME NEW d \in Cpus, NEW e \in Cpus, d # e, cpu'[d] # Idle, cpu'[e] # Idle
          PROVE  cpu'[d].id # cpu'[e].id
      <3>1. CASE d # c /\ e # c
        BY <1>1, <2>1, <2>2, <3>1 DEF CpuInv
      <3>2. CASE d = c \/ e = c
        BY <2>1, <2>2, <3>2
      <3>3. QED
        BY <3>1, <3>2
    <2>3. QED
      BY <1>5, <2>1, <2>2 DEF CpuInv
  <1>10. RingInv'
    <2>1. /\ DOMAIN ring' = DOMAIN ring /\ ring' \in Seq(Slots)
          /\ \A i \in DOMAIN ring : SlotInv(ring[i])
      BY <1>1, <1>5 DEF RingInv
    <2>2. ASSUME NEW i \in DOMAIN ring PROVE SlotInv(ring[i])'
      <3>1. ring'[i] = ring[i] /\ SlotInv(ring[i])
        BY <1>5, <2>1
      <3>2. QED
        BY <1>5, <1>7, <3>1 DEF SlotInv
    <2>3. QED
      BY <1>1, <1>5, <2>1, <2>2 DEF RingInv
  <1>11. ASSUME NEW id \in DOMAIN shape PROVE \E P : Linked(id, P)'
    <2>1. PICK P : Linked(id, P)
      BY <1>1 DEF ChainInv
    <2>2. ASSUME NEW d \in Cpus, Runs(d, id)' PROVE cpu'[d] = cpu[d] /\ Runs(d, id)
      <3>1. cpu'[d] # Idle /\ cpu'[d].id = id /\ id # n + 1
        BY <1>4, <2>2 DEF Runs
      <3>2. d # c
        BY <1>7, <3>1
      <3>3. QED
        BY <1>5, <3>1, <3>2 DEF Runs
    <2>3. \A d \in Cpus : Runs(d, id)' => Agrees(P[Len(ring)], cpu'[d])
      BY <2>1, <2>2 DEF Linked
    <2>4. Linked(id, P)'
      BY <1>5, <1>6, <1>7, <2>1, <2>3 DEF Linked
    <2>5. QED
      BY <2>4
  <1>12. ASSUME NEW id, id = n + 1, id \in DOMAIN shape' PROVE \E P : Linked(id, P)'
    <2>0. PICK m \in Nat : m = Len(ring)
      BY <1>1 DEF RingInv
    <2> DEFINE P == [i \in 0 .. m |-> New]
    <2>1. id \notin DOMAIN shape
      BY <1>4, <1>12
    <2>2. New \in Stages /\ New.stage = "new"
      BY DEF New, Stage, Stages
    <2>3. P \in [0 .. m -> Stages] /\ \A i \in 0 .. m : P[i] = New
      BY <2>2
    <2> HIDE DEF P
    <2>4. ASSUME NEW i \in 1 .. m PROVE Link(id, shape'[id], P[i - 1], ring'[i], P[i])
      <3>1. i \in DOMAIN ring
        BY <1>1, <2>0 DEF RingInv
      <3>2. ring'[i].record.id # id
        BY <1>1, <1>5, <2>1, <3>1 DEF RingInv, SlotInv
      <3>3. i - 1 \in 0 .. m /\ i \in 0 .. m
        BY <2>0
      <3>4. QED
        BY <2>3, <3>2, <3>3 DEF Link
    <2>5. id \notin Done' /\ id \notin Pending'
      BY <1>1, <1>6, <2>1 DEF EventInv, Done
    <2>6. ASSUME NEW d \in Cpus, Runs(d, id)' PROVE Agrees(P[m], cpu'[d])
      <3>1. cpu'[d] # Idle /\ cpu'[d].id = id
        BY <2>6 DEF Runs
      <3>2. d = c
        BY <1>1, <1>5, <2>1, <3>1 DEF CpuInv
      <3>3. cpu'[d].pc = "begin" /\ P[m] = New
        BY <1>7, <2>0, <2>3, <3>1, <3>2
      <3>4. QED
        BY <3>3 DEF Agrees
    <2>7. P[0] = New /\ m = Len(ring')
      BY <1>5, <2>0, <2>3
    <2>8. Linked(id, P)'
      BY <2>2, <2>3, <2>4, <2>5, <2>6, <2>7 DEF Linked
    <2>9. QED
      BY <2>8
  <1>13. ChainInv'
    BY <1>7, <1>11, <1>12 DEF ChainInv
  <1>14. EventInv'
    BY <1>1, <1>5, <1>6, <1>7 DEF EventInv, OpenInv
  <1>15. StreamInv'
    BY <1>1, <1>5, <1>6 DEF StreamInv, CounterTypes, AcceptedInv
  <1>16. QED
    BY <1>8, <1>9, <1>10, <1>13, <1>14, <1>15 DEF TransportInv

-----------------------------------------------------------------------------
(* What the reassembler makes of a record *)

\* A record reaches the reassembler, which knows what was said before.
Hears(r, s, a) ==
    /\ ~failed /\ OpenInv /\ s \in Shapes /\ r \in Records /\ Honest(r, s) /\ a \in Stages
    /\ IF r.id \in Pending
       THEN /\ a = Stage("open", Len(pending[r.id].iso), pending[r.id].copied)
            /\ Faithful(pending[r.id], s) /\ Received(pending[r.id], s)
       ELSE a.stage # "open"

\* The event as it is handed on.
Event(id, s) ==
    [id |-> id, meta |-> MetaOf(s), iso |-> IF s.iso THEN Descriptors(s) ELSE <<>>,
     payload |-> [o \in Offsets |-> IF o \in Needed(s) THEN o ELSE Hole]]

Fills(r, s, b) ==
    /\ r.kind # "end" /\ UNCHANGED <<failed, delivered, reassembly>>
    /\ pending'[r.id] # None
    /\ b = Stage("open", Len(pending'[r.id].iso), pending'[r.id].copied)
    /\ Faithful(pending'[r.id], s) /\ Received(pending'[r.id], s)

Closes(r, s, b) ==
    /\ r.kind = "end" /\ failed' = failed
    /\ pending'[r.id] = None /\ b.stage = "closed"
    /\ IF r.reason = COMPLETE
       THEN /\ delivered' = delivered \cup {Event(r.id, s)}
            /\ reassembly' = [reassembly EXCEPT !.complete = @ + 1]
       ELSE /\ delivered' = delivered
            /\ reassembly' = [reassembly EXCEPT !.incomplete = @ + 1]

\* It opens, fills or closes the event; only a full table ends the run.
Absorbs(r, s, b) ==
    /\ DOMAIN pending' = Ids
    /\ \A id \in Ids : id # r.id => pending'[id] = pending[id]
    /\ \/ Fail /\ r.kind = "begin" /\ Cardinality(Pending) >= MaxPending
       \/ Fills(r, s, b)
       \/ Closes(r, s, b)

LEMMA RecordLemma ==
    ASSUME NEW r \in Records, NEW s \in Shapes, Honest(r, s)
    PROVE  /\ r.id \in Ids /\ TypedRecord(r) /\ r.kind \in {"begin", "data", "iso", "end"}
           /\ r.kind = "begin" => r.meta = MetaOf(s) /\ r.meta \in Metas
           /\ r.kind = "data" => /\ r.offset \in Nat /\ r.body \in Seq(Nat) /\ r.body # <<>>
                                 /\ \A j \in 1 .. Len(r.body) :
                                       r.body[j] = r.offset + j - 1 /\ r.body[j] \in Needed(s)
           /\ r.kind = "iso" => /\ r.offset \in Nat /\ r.descriptor \in FrameTypes
                                /\ s.iso /\ r.offset < Len(s.frames)
                                /\ r.descriptor = Descriptor(s, r.offset + 1)
           /\ r.kind = "end" => r.copied \in Nat /\ r.descriptors \in Nat /\ r.reason \in Nat
  <1>1. Measurable(s)
    BY DEF Honest
  <1>2. MetaOf(s) \in Metas /\ MetaOf(s).payload_len <= MaxLength
    BY <1>1, MetaLemma
  <1>3. CASE r \in [kind : {"begin"}, id : Ids, meta : Metas]
    <2>1. r.kind = "begin" /\ r.id \in Ids /\ r.meta \in Metas
      BY <1>3
    <2>2. r.meta = MetaOf(s)
      BY <2>1 DEF Honest
    <2>3. QED
      BY <1>2, <2>1, <2>2 DEF TypedRecord
  <1>4. CASE r \in [kind : {"data"}, id : Ids, offset : Nat, body : Seq(Nat)]
    <2>1. r.kind = "data" /\ r.id \in Ids /\ r.offset \in Nat /\ r.body \in Seq(Nat)
      BY <1>4
    <2>2. r.body # <<>> /\ \A j \in 1 .. Len(r.body) :
                              r.body[j] = r.offset + j - 1 /\ r.body[j] \in Needed(s)
      BY <2>1 DEF Honest
    <2>3. QED
      BY <2>1, <2>2 DEF TypedRecord
  <1>5. CASE r \in [kind : {"iso"}, id : Ids, offset : Nat, descriptor : FrameTypes]
    <2>1. r.kind = "iso" /\ r.id \in Ids /\ r.offset \in Nat /\ r.descriptor \in FrameTypes
      BY <1>5
    <2>2. s.iso /\ r.offset < Len(s.frames) /\ r.descriptor = Descriptor(s, r.offset + 1)
      BY <2>1 DEF Honest
    <2>3. QED
      BY <2>1, <2>2 DEF TypedRecord, FrameTypes
  <1>6. CASE r \in [kind : {"end"}, id : Ids, copied : Nat, descriptors : Nat, reason : Nat]
    <2>1. /\ r.kind = "end" /\ r.id \in Ids /\ r.copied \in Nat /\ r.descriptors \in Nat
          /\ r.reason \in Nat
      BY <1>6
    <2>2. QED
      BY <2>1 DEF TypedRecord
  <1>7. QED
    BY <1>3, <1>4, <1>5, <1>6 DEF Records

\* The fields of the metadata.
LEMMA MetaFields ==
    ASSUME NEW s \in Shapes
    PROVE  /\ MetaOf(s).has_data <=> PayloadLen(s) # 0
           /\ MetaOf(s).payload_len = PayloadLen(s)
           /\ MetaOf(s).requested_len = s.requested /\ MetaOf(s).actual_len = s.actual
           /\ MetaOf(s).iso_count = FrameCount(s) /\ MetaOf(s).event_type = s.event_type
           /\ MetaOf(s).iso = s.iso /\ MetaOf(s).in = s.in
           /\ DataPhase(MetaOf(s)) <=> DataPhase(s)
  <1>1. /\ MetaOf(s).payload_len = PayloadLen(s)
        /\ MetaOf(s).requested_len = s.requested /\ MetaOf(s).actual_len = s.actual
        /\ MetaOf(s).event_type = s.event_type
    BY DEF MetaOf
  <1>2. MetaOf(s).iso = s.iso /\ MetaOf(s).in = s.in
    BY DEF MetaOf
  <1>3. MetaOf(s).iso_count = FrameCount(s)
    BY DEF MetaOf, FrameCount
  <1>4. MetaOf(s).has_data = (PayloadLen(s) # 0)
    BY DEF MetaOf
  <1>5. DataPhase(MetaOf(s)) <=> DataPhase(s)
    BY <1>1, <1>2 DEF DataPhase
  <1>6. QED
    BY <1>1, <1>2, <1>3, <1>4, <1>5

\* A Begin record is for a new event, and its metadata are in order.
LEMMA BeginSound ==
    ASSUME NEW r, NEW s, NEW a, NEW b, Hears(r, s, a), Told(s, a, r, b), r.kind = "begin"
    PROVE  r.id \notin Pending /\ ValidMeta(r.meta)
  <1>1. s \in Shapes /\ r \in Records /\ Measurable(s) /\ r.meta = MetaOf(s)
    BY RecordLemma DEF Hears, Honest
  <1>2. a.stage = "new"
    BY DEF Told, New, Stage
  <1>3. r.id \notin Pending
    BY <1>2 DEF Hears, Stage
  <1>4. PayloadLen(s) <= s.requested /\ (~s.iso => FrameCount(s) = 0)
    BY <1>1, MeasureLemma DEF FrameCount
  <1>5. QED
    BY <1>1, <1>3, <1>4, MetaFields DEF ValidMeta

\* Begin opens the event, if there is room.
LEMMA AbsorbBegin ==
    ASSUME NEW r, NEW s, NEW a, NEW b, Hears(r, s, a), Told(s, a, r, b),
           r.kind = "begin", PushBegin(r)
    PROVE  Absorbs(r, s, b)
  <1>1. /\ OpenInv /\ s \in Shapes /\ r \in Records /\ Honest(r, s) /\ Measurable(s)
        /\ r.id \in Ids /\ r.meta = MetaOf(s) /\ MetaOf(s) \in Metas
        /\ MetaOf(s).payload_len <= MaxLength
    BY RecordLemma, MetaLemma DEF Hears, Honest
  <1>2. b = Stage("open", 0, 0)
    BY DEF Told
  <1>3. r.id \notin Pending /\ ValidMeta(r.meta)
    BY BeginSound
  <1>4. DOMAIN pending = Ids
    BY <1>1 DEF OpenInv
  <1>5. CASE BeginRejected(r)
    <2>1. Cardinality(Pending) >= MaxPending
      BY <1>3, <1>5 DEF BeginRejected
    <2>2. Fail
      BY <1>5 DEF PushBegin
    <2>3. QED
      BY <1>4, <2>1, <2>2 DEF Absorbs, Fail
  <1>6. CASE ~BeginRejected(r)
    <2> DEFINE q == [meta |-> r.meta, iso |-> <<>>, payload |-> [o \in Offsets |-> Hole],
                     ranges |-> [k \in {} |-> 0], copied |-> 0]
    <2>1. /\ pending' = [pending EXCEPT ![r.id] = q]
          /\ UNCHANGED <<reassembly, delivered, failed>>
      BY <1>6 DEF PushBegin
    <2>2. /\ DOMAIN pending' = Ids /\ pending'[r.id] = q
          /\ \A id \in Ids : id # r.id => pending'[id] = pending[id]
      BY <1>1, <1>4, <2>1
    <2>3. Good(q)
      BY <1>1, BeginGood
    <2>4. /\ q.meta = MetaOf(s) /\ q.iso = <<>> /\ q.copied = 0 /\ DOMAIN q.ranges = {}
          /\ \A o \in Offsets : q.payload[o] = Hole
      BY <1>1
    <2> HIDE DEF q
    <2>5. Len(q.iso) = 0 /\ DOMAIN q.iso = {} /\ FrameCount(s) \in Nat
      BY <1>1, <2>4, ShapeTypes DEF FrameCount
    <2>6. Faithful(q, s)
      BY <1>1, <2>3, <2>4, <2>5 DEF Faithful
    <2>7. Received(q, s)
      <3>1. \A o \in Int : ~In(q.ranges, o)
        BY <2>4 DEF In
      <3>2. QED
        BY <2>4, <2>5, <3>1 DEF Received
    <2>8. q # None
      BY <2>3, GoodIsOpen
    <2>9. QED
      BY <1>2, <2>1, <2>2, <2>4, <2>5, <2>6, <2>7, <2>8 DEF Absorbs, Fills
  <1>7. QED
    BY <1>5, <1>6

\* What is known of an open event that a record is for.
LEMMA HeardOpen ==
    ASSUME NEW r, NEW s, NEW a, Hears(r, s, a), a.stage = "open"
    PROVE  /\ r.id \in Pending /\ r.id \in Ids /\ s \in Shapes /\ Measurable(s) /\ OpenInv
           /\ Faithful(pending[r.id], s) /\ Received(pending[r.id], s)
           /\ Good(pending[r.id]) /\ pending[r.id].meta = MetaOf(s)
           /\ a.frames = Len(pending[r.id].iso) /\ a.bytes = pending[r.id].copied
           /\ Len(pending[r.id].iso) \in Nat /\ pending[r.id].copied \in Nat
           /\ DOMAIN pending[r.id].iso = 1 .. Len(pending[r.id].iso)
           /\ Ordered(pending[r.id].ranges)
  <1> DEFINE p == pending[r.id]
  <1>1. r.id \in Pending /\ Faithful(p, s) /\ Received(p, s) /\ OpenInv /\ s \in Shapes
        /\ r \in Records /\ Honest(r, s) /\ a = Stage("open", Len(p.iso), p.copied)
    BY DEF Hears
  <1>2. a.frames = Len(p.iso) /\ a.bytes = p.copied
    BY <1>1 DEF Stage
  <1>3. Good(p) /\ p.meta = MetaOf(s) /\ Measurable(s)
    BY <1>1 DEF Faithful
  <1>4. p.iso \in Seq(FrameTypes) /\ p.copied \in Nat /\ Ordered(p.ranges)
    BY <1>3 DEF Good
  <1>5. Len(p.iso) \in Nat /\ DOMAIN p.iso = 1 .. Len(p.iso)
    BY <1>4
  <1>6. r.id \in Ids
    BY <1>1 DEF Pending
  <1>7. QED
    BY <1>1, <1>2, <1>3, <1>4, <1>5, <1>6

\* The next descriptor is the one that comes next.
LEMMA AbsorbIso ==
    ASSUME NEW r, NEW s, NEW a, NEW b, Hears(r, s, a), Told(s, a, r, b),
           r.kind = "iso", PushIso(r)
    PROVE  Absorbs(r, s, b)
  <1> DEFINE p == pending[r.id]
             q == pending'[r.id]
             f == Len(p.iso)
             d == r.descriptor
  <1>1. /\ a.stage = "open" /\ r.offset = a.frames
        /\ s.iso /\ DataPhase(s) => a.bytes = SumTo(s, a.frames)
        /\ b = Stage("open", a.frames + 1, a.bytes)
    BY DEF Told
  <1>2. /\ r.id \in Pending /\ r.id \in Ids /\ s \in Shapes /\ Measurable(s) /\ OpenInv
        /\ Faithful(p, s) /\ Received(p, s) /\ Good(p) /\ p.meta = MetaOf(s)
        /\ a.frames = f /\ a.bytes = p.copied /\ f \in Nat /\ p.copied \in Nat
        /\ DOMAIN p.iso = 1 .. f
    BY <1>1, HeardOpen
  <1>3. /\ r.offset \in Nat /\ d \in FrameTypes /\ s.iso /\ f < Len(s.frames)
        /\ d = Descriptor(s, f + 1) /\ r.offset = f
    BY <1>1, <1>2, RecordLemma DEF Hears
  <1>4. Len(s.frames) \in Nat /\ FrameCount(s) = Len(s.frames) /\ p.meta.iso_count = Len(s.frames)
    BY <1>2, <1>3, ShapeTypes, MetaFields DEF FrameCount
  <1>5. failed' = failed /\ ~Fail
    <2>1. ~(r.offset # Len(p.iso) \/ r.offset >= p.meta.iso_count)
      BY <1>2, <1>3, <1>4
    <2>2. failed' = failed
      BY <2>1 DEF PushIso
    <2>3. QED
      BY <2>2 DEF Fail, Hears
  <1>6. /\ DOMAIN pending' = Ids /\ Described(q, p, d)
        /\ (\A id \in Ids : id # r.id => pending'[id] = pending[id])
        /\ UNCHANGED <<reassembly, delivered, failed>>
    BY <1>2, <1>3, <1>5, IsoStep
  <1> HIDE DEF q, d
  <1>7. Good(q)
    BY <1>2, <1>3, <1>6, FrameGood
  <1>8. /\ q.iso = Append(p.iso, d) /\ q.meta = p.meta /\ q.payload = p.payload
        /\ q.ranges = p.ranges /\ q.copied = p.copied
    BY <1>6 DEF Described
  <1>9. /\ Len(q.iso) = f + 1 /\ DOMAIN q.iso = 1 .. (f + 1) /\ q.iso[f + 1] = d
        /\ \A i \in 1 .. f : q.iso[i] = p.iso[i]
    <2>1. p.iso \in Seq(FrameTypes)
      BY <1>2 DEF Good
    <2>2. QED
      BY <1>3, <1>8, <2>1
  <1>10. Faithful(q, s)
    <2>1. \A i \in 1 .. f : p.iso[i] = Descriptor(s, i)
      BY <1>2 DEF Faithful
    <2>2. ASSUME NEW i \in DOMAIN q.iso PROVE q.iso[i] = Descriptor(s, i)
      <3>1. i \in 1 .. f \/ i = f + 1
        BY <1>2, <1>9
      <3>2. QED
        BY <1>3, <1>9, <2>1, <3>1
    <2>3. \A o \in Offsets : q.payload[o] # Hole => q.payload[o] = o /\ o \in Needed(s)
      BY <1>2, <1>8 DEF Faithful
    <2>4. Len(q.iso) <= FrameCount(s)
      BY <1>2, <1>3, <1>4, <1>9
    <2>5. QED
      BY <1>2, <1>7, <1>8, <2>2, <2>3, <2>4 DEF Faithful
  <1>11. Received(q, s)
    <2>1. CASE ~DataPhase(s)
      BY <1>2, <1>3, <1>8, <2>1 DEF Received
    <2>2. CASE DataPhase(s)
      <3>1. /\ \A k \in 1 .. (f - 1) :
                  \A o \in Descriptor(s, k).offset
                              .. (Descriptor(s, k).offset + Descriptor(s, k).length - 1) :
                     In(p.ranges, o)
            /\ f # 0 =>
                  \A o \in Descriptor(s, f).offset
                        .. (Descriptor(s, f).offset + (p.copied - SumTo(s, f - 1)) - 1) :
                     In(p.ranges, o)
        BY <1>2, <1>3, <2>2 DEF Received
      <3>2. p.copied = SumTo(s, f) /\ SumTo(s, f) \in Nat
        BY <1>1, <1>2, <1>3, <1>4, <2>2, SumToLemma
      <3>3. ASSUME NEW k \in 1 .. f,
                   NEW o \in Descriptor(s, k).offset
                                .. (Descriptor(s, k).offset + Descriptor(s, k).length - 1)
            PROVE  In(q.ranges, o)
        <4>1. CASE k # f
          <5>1. k \in 1 .. (f - 1)
            BY <1>2, <4>1
          <5>2. QED
            BY <1>8, <3>1, <5>1
        <4>2. CASE k = f
          <5>1. /\ f \in 1 .. Len(s.frames) /\ f - 1 \in 0 .. Len(s.frames)
                /\ f \in 0 .. Len(s.frames) /\ f # 0
            BY <1>2, <1>3, <1>4, <4>2
          <5>2. /\ SumTo(s, f) = SumTo(s, f - 1) + Descriptor(s, f).length
                /\ SumTo(s, f - 1) \in Nat /\ SumTo(s, f) \in Nat
                /\ Descriptor(s, f).length \in Nat
            BY <1>2, <5>1, SumToLemma, ShapeTypes
          <5>3. p.copied - SumTo(s, f - 1) = Descriptor(s, f).length
            BY <3>2, <5>2
          <5>4. QED
            BY <1>8, <3>1, <4>2, <5>1, <5>3
        <4>3. QED
          BY <4>1, <4>2
      <3>4. \A o \in Descriptor(s, f + 1).offset
                  .. (Descriptor(s, f + 1).offset + (q.copied - SumTo(s, f)) - 1) :
               In(q.ranges, o)
        <4>1. q.copied - SumTo(s, f) = 0
          BY <1>8, <3>2
        <4>2. f + 1 \in 1 .. Len(s.frames)
          <5>1. f \in Nat /\ f < Len(s.frames) /\ Len(s.frames) \in Nat
            BY <1>2, <1>3, <1>4, ShapeTypes
          <5>2. QED
            BY <5>1
        <4>3. Descriptor(s, f + 1).offset \in Nat
          BY <1>2, <4>2, ShapeTypes
        <4>4. QED
          BY <4>1, <4>3
      <3>5. (f + 1) - 1 = f
        BY <1>2
      <3>6. QED
        BY <1>3, <1>9, <2>2, <3>3, <3>4, <3>5 DEF Received
    <2>3. QED
      BY <2>1, <2>2
  <1>12. q # None /\ b = Stage("open", Len(q.iso), q.copied)
    BY <1>1, <1>2, <1>7, <1>8, <1>9, GoodIsOpen
  <1>13. QED
    BY <1>6, <1>10, <1>11, <1>12 DEF Absorbs, Fills, q

\* A chunk of an event fits behind what was received before.
LEMMA ChunkAccepted ==
    ASSUME NEW r, NEW s, NEW a, NEW b, Hears(r, s, a), Told(s, a, r, b),
           r.kind = "data", PushData(r)
    PROVE  failed' = failed /\ ~Fail /\ DataPhase(s)
  <1> DEFINE p == pending[r.id]
             end == r.offset + Len(r.body)
  <1>1. a.stage = "open" /\ r.offset = Place(s, a)
    BY DEF Told
  <1>2. /\ r.id \in Pending /\ s \in Shapes /\ Measurable(s) /\ Faithful(p, s) /\ Received(p, s)
        /\ Good(p) /\ p.meta = MetaOf(s) /\ a.bytes = p.copied /\ p.copied \in Nat
        /\ Ordered(p.ranges)
    BY <1>1, HeardOpen
  <1>3. /\ r.offset \in Nat /\ r.body \in Seq(Nat) /\ r.body # <<>>
        /\ \A j \in 1 .. Len(r.body) :
              r.body[j] = r.offset + j - 1 /\ r.body[j] \in Needed(s)
    BY RecordLemma DEF Hears
  <1>4. Len(r.body) \in Nat \ {0} /\ Len(r.body) \in 1 .. Len(r.body) /\ end \in Nat /\ r.offset < end
    BY <1>3
  <1>5. end <= PayloadLen(s) /\ PayloadLen(s) \in Nat /\ DataPhase(s)
    <2>1. r.body[Len(r.body)] = end - 1 /\ r.body[Len(r.body)] \in Needed(s)
      BY <1>3, <1>4
    <2>2. end - 1 < PayloadLen(s) /\ PayloadLen(s) \in Nat
      BY <1>2, <2>1, MeasureLemma
    <2>3. PayloadLen(s) # 0
      BY <1>3, <1>4, <2>2
    <2>4. QED
      BY <1>2, <1>4, <2>2, <2>3, MeasureLemma
  <1>6. p.meta.payload_len = PayloadLen(s) /\ p.meta.iso = s.iso
    BY <1>2, MetaFields
  <1>7. ASSUME ~s.iso PROVE ~Overlaps(p, r.offset, end)
    <2>1. r.offset = p.copied
      BY <1>1, <1>2, <1>7 DEF Place
    <2>2. \A o \in Int : In(p.ranges, o) => o < p.copied
      BY <1>2, <1>7 DEF Received
    <2>3. ASSUME NEW k \in Previous(p.ranges, r.offset), p.ranges[k] > r.offset PROVE FALSE
      <3>1. k \in DOMAIN p.ranges /\ k <= r.offset
        BY DEF Previous
      <3>2. k \in Nat /\ p.ranges[k] \in Nat
        BY <1>2, <3>1 DEF Ordered
      <3>3. In(p.ranges, r.offset)
        BY <1>3, <2>3, <3>1, <3>2 DEF In
      <3>4. QED
        BY <1>2, <1>3, <2>1, <2>2, <3>3
    <2>4. ASSUME NEW k \in Following(p.ranges, r.offset), k < end PROVE FALSE
      <3>1. k \in DOMAIN p.ranges /\ k >= r.offset
        BY DEF Following
      <3>2. k \in Nat /\ p.ranges[k] \in Nat /\ k < p.ranges[k]
        BY <1>2, <3>1 DEF Ordered
      <3>3. In(p.ranges, k)
        BY <3>1, <3>2 DEF In
      <3>4. QED
        BY <1>2, <1>3, <2>1, <2>2, <3>1, <3>2, <3>3
    <2>5. QED
      BY <2>3, <2>4 DEF Overlaps
  <1>8. ~Conflicts(p, r.offset, r.body)
    <2> SUFFICES ASSUME NEW k \in Touched(p.ranges, r.offset, end),
                        NEW o \in Max({k, r.offset}) .. (Min({p.ranges[k], end}) - 1)
                 PROVE  p.payload[o] = r.body[o - r.offset + 1]
      BY DEF Conflicts
    <2>1. k \in DOMAIN p.ranges
      BY DEF Touched
    <2>2. k \in Nat /\ p.ranges[k] \in Nat
      BY <1>2, <2>1 DEF Ordered
    <2>3. /\ Max({k, r.offset}) = IF k <= r.offset THEN r.offset ELSE k
          /\ Min({p.ranges[k], end}) = IF p.ranges[k] <= end THEN p.ranges[k] ELSE end
      <3>1. k \in Int /\ r.offset \in Int /\ p.ranges[k] \in Int /\ end \in Int
        BY <1>3, <1>4, <2>2
      <3> HIDE DEF end
      <3>2. QED
        BY <3>1, PairLemma, Zenon
    <2>4. o \in Int /\ k <= o /\ r.offset <= o /\ o < p.ranges[k] /\ o < end
      BY <1>3, <1>4, <2>2, <2>3
    <2>5. In(p.ranges, o)
      BY <2>1, <2>4 DEF In
    <2>6. o - r.offset + 1 \in 1 .. Len(r.body)
      BY <1>3, <1>4, <2>4
    <2>7. r.body[o - r.offset + 1] = o /\ o \in Needed(s)
      <3> DEFINE j == o - r.offset + 1
      <3>1. r.body[j] = r.offset + j - 1 /\ r.body[j] \in Needed(s)
        BY <1>3, <2>6
      <3>2. r.offset + j - 1 = o
        BY <1>3, <2>4
      <3>3. QED
        BY <3>1, <3>2
    <2>8. o \in Offsets
      BY <1>2, <2>7, MeasureLemma
    <2>9. p.payload[o] # Hole
      BY <1>2, <2>5, <2>8 DEF Good
    <2>10. QED
      BY <1>2, <2>7, <2>8, <2>9 DEF Faithful
  <1>9. failed' = failed
    <2>1. ~(\/ r.body = <<>> \/ end > p.meta.payload_len
            \/ (~p.meta.iso /\ Overlaps(p, r.offset, end)) \/ Conflicts(p, r.offset, r.body))
      BY <1>3, <1>4, <1>5, <1>6, <1>7, <1>8
    <2>2. QED
      BY <2>1 DEF PushData
  <1>10. QED
    BY <1>5, <1>9 DEF Fail, Hears

LEMMA AbsorbData ==
    ASSUME NEW r, NEW s, NEW a, NEW b, Hears(r, s, a), Told(s, a, r, b),
           r.kind = "data", PushData(r)
    PROVE  Absorbs(r, s, b)
  <1> DEFINE p == pending[r.id]
             q == pending'[r.id]
             f == Len(p.iso)
             len == Len(r.body)
             end == r.offset + len
  <1>1. /\ a.stage = "open" /\ r.offset = Place(s, a)
        /\ s.iso => a.frames \in 1 .. Len(s.frames) /\ SumTo(s, a.frames - 1) <= a.bytes
        /\ b = Stage("open", a.frames, a.bytes + len)
    BY DEF Told
  <1>2. /\ r.id \in Pending /\ r.id \in Ids /\ s \in Shapes /\ Measurable(s) /\ OpenInv
        /\ Faithful(p, s) /\ Received(p, s) /\ Good(p) /\ p.meta = MetaOf(s)
        /\ a.frames = f /\ a.bytes = p.copied /\ f \in Nat /\ p.copied \in Nat
        /\ DOMAIN p.iso = 1 .. f /\ Ordered(p.ranges)
    BY <1>1, HeardOpen
  <1>3. /\ r.offset \in Nat /\ r.body \in Seq(Nat) /\ r.body # <<>>
        /\ \A j \in 1 .. len :
              r.body[j] = r.offset + j - 1 /\ r.body[j] \in Needed(s)
    BY RecordLemma DEF Hears
  <1>4. len \in Nat \ {0} /\ end \in Nat /\ r.offset < end
    BY <1>3
  <1>5. ~Fail /\ DataPhase(s)
    BY ChunkAccepted
  <1>6. /\ DOMAIN pending' = Ids /\ Filled(q, p, r.offset, r.body)
        /\ \A id \in Ids : id # r.id => pending'[id] = pending[id]
        /\ end <= p.meta.payload_len
        /\ UNCHANGED <<reassembly, delivered, failed>>
    BY <1>2, <1>3, <1>5, DataStep
  <1> HIDE DEF q
  <1>7. Good(q)
    BY <1>2, <1>3, <1>6, FilledGood
  <1>8. /\ q.meta = p.meta /\ q.iso = p.iso /\ q.copied = p.copied + len
        /\ q.ranges = Merge(p.ranges, r.offset, end)
        /\ \A o \in Offsets : q.payload[o] = IF o \in r.offset .. (end - 1)
                                            THEN r.body[o - r.offset + 1] ELSE p.payload[o]
    <2>1. q.meta = p.meta /\ q.iso = p.iso /\ q.copied = p.copied + len
      BY <1>6 DEF Filled
    <2>2. q.ranges = Merge(p.ranges, r.offset, end)
      BY <1>6 DEF Filled
    <2>3. \A o \in Offsets : q.payload[o] = IF o \in r.offset .. (end - 1)
                                           THEN r.body[o - r.offset + 1] ELSE p.payload[o]
      <3>1. r.offset + Len(r.body) - 1 = end - 1
        BY <1>3, <1>4
      <3>2. \A o \in Offsets :
               q.payload[o] = IF o \in r.offset .. (r.offset + Len(r.body) - 1)
                              THEN r.body[o - r.offset + 1] ELSE p.payload[o]
        BY <1>6, FilledBytes
      <3>3. QED
        BY <3>1, <3>2
    <2>4. QED
      BY <2>1, <2>2, <2>3
  <1>9. \A o \in Int : In(q.ranges, o) <=> In(p.ranges, o) \/ (r.offset <= o /\ o < end)
    BY <1>2, <1>3, <1>4, <1>8, MergeLemma
  <1>10. Faithful(q, s)
    <2>1. ASSUME NEW o \in Offsets, q.payload[o] # Hole
          PROVE  q.payload[o] = o /\ o \in Needed(s)
      <3>1. CASE o \in r.offset .. (end - 1)
        <4> DEFINE j == o - r.offset + 1
        <4>1. j \in 1 .. len /\ r.offset + j - 1 = o
          <5>1. r.offset \in Nat /\ o \in Int /\ r.offset <= o /\ o <= end - 1
            BY <1>3, <1>4, <3>1
          <5>2. QED
            BY <1>4, <5>1
        <4>2. q.payload[o] = r.body[j]
          BY <1>8, <3>1
        <4> HIDE DEF j
        <4>3. QED
          BY <1>3, <4>1, <4>2
      <3>2. CASE o \notin r.offset .. (end - 1)
        <4>1. q.payload[o] = p.payload[o]
          BY <1>8, <3>2
        <4>2. QED
          BY <1>2, <2>1, <4>1 DEF Faithful
      <3>3. QED
        BY <3>1, <3>2
    <2>2. Len(q.iso) <= FrameCount(s) /\ \A i \in DOMAIN q.iso : q.iso[i] = Descriptor(s, i)
      BY <1>2, <1>8 DEF Faithful
    <2>3. QED
      BY <1>2, <1>7, <1>8, <2>1, <2>2 DEF Faithful
  <1>11. Received(q, s)
    <2>1. CASE ~s.iso
      <3>1. r.offset = p.copied
        BY <1>1, <1>2, <2>1 DEF Place
      <3>2. \A o \in Int : In(p.ranges, o) <=> 0 <= o /\ o < p.copied
        BY <1>2, <2>1 DEF Received
      <3>3. \A o \in Int : In(q.ranges, o) <=> 0 <= o /\ o < q.copied
        BY <1>2, <1>3, <1>4, <1>8, <1>9, <3>1, <3>2
      <3>4. QED
        BY <2>1, <3>3 DEF Received
    <2>2. CASE s.iso
      <3> DEFINE d == Descriptor(s, f)
      <3>1. /\ f \in 1 .. Len(s.frames) /\ SumTo(s, f - 1) <= p.copied
            /\ r.offset = d.offset + (p.copied - SumTo(s, f - 1))
        BY <1>1, <1>2, <2>2 DEF Place
      <3>2. /\ f - 1 \in 0 .. Len(s.frames) /\ SumTo(s, f - 1) \in Nat /\ d.offset \in Nat
            /\ \A k \in 1 .. (f - 1) : Descriptor(s, k).offset \in Nat
        <4>1. Len(s.frames) \in Nat
          BY <1>2, ShapeTypes
        <4>2. f - 1 \in 0 .. Len(s.frames) /\ \A k \in 1 .. (f - 1) : k \in 1 .. Len(s.frames)
          BY <1>2, <3>1, <4>1
        <4>3. QED
          BY <1>2, <3>1, <4>2, ShapeTypes, SumToLemma
      <3>3. /\ \A k \in 1 .. (f - 1) :
                  \A o \in Descriptor(s, k).offset
                              .. (Descriptor(s, k).offset + Descriptor(s, k).length - 1) :
                     In(p.ranges, o)
            /\ \A o \in d.offset .. (d.offset + (p.copied - SumTo(s, f - 1)) - 1) :
                  In(p.ranges, o)
        BY <1>2, <1>5, <2>2, <3>1 DEF Received
      <3>4. ASSUME NEW k \in 1 .. (f - 1),
                   NEW o \in Descriptor(s, k).offset
                                .. (Descriptor(s, k).offset + Descriptor(s, k).length - 1)
            PROVE  In(q.ranges, o)
        <4>1. In(p.ranges, o) /\ o \in Int
          BY <3>2, <3>3
        <4>2. QED
          BY <1>9, <4>1
      <3> HIDE DEF d
      <3>5. ASSUME NEW o \in d.offset .. (d.offset + (q.copied - SumTo(s, f - 1)) - 1)
            PROVE  In(q.ranges, o)
        <4>1. o \in Int
          BY <3>2
        <4>2. CASE o < r.offset
          <5>1. o \in d.offset .. (d.offset + (p.copied - SumTo(s, f - 1)) - 1)
            BY <1>2, <3>1, <3>2, <4>2
          <5>2. QED
            BY <1>9, <3>3, <4>1, <5>1
        <4>3. CASE r.offset <= o
          <5>1. o < end
            <6>1. PICK g \in Nat : g = p.copied - SumTo(s, f - 1)
              BY <1>2, <3>1, <3>2
            <6>2. q.copied - SumTo(s, f - 1) = g + len
              BY <1>2, <1>4, <1>8, <3>2, <6>1
            <6>3. end = d.offset + g + len
              BY <3>1, <6>1
            <6>4. o <= d.offset + (g + len) - 1
              BY <6>2
            <6>5. QED
              BY <1>4, <3>2, <4>1, <6>1, <6>3, <6>4
          <5>2. QED
            BY <1>9, <4>1, <4>3, <5>1
        <4>4. QED
          BY <1>3, <4>1, <4>2, <4>3
      <3>6. QED
        BY <1>5, <1>8, <2>2, <3>4, <3>5 DEF Received, d
    <2>3. QED
      BY <2>1, <2>2
  <1>12. q # None /\ b = Stage("open", Len(q.iso), q.copied)
    BY <1>1, <1>2, <1>7, <1>8, GoodIsOpen
  <1>13. QED
    BY <1>6, <1>10, <1>11, <1>12 DEF Absorbs, Fills, q

\* Everything was sent: every byte that is needed was received, and every
\* descriptor.
LEMMA AllReceived ==
    ASSUME NEW p, NEW s \in Shapes, Faithful(p, s), Received(p, s),
           Everything(s, Len(p.iso), p.copied)
    PROVE  /\ \A o \in Needed(s) : In(p.ranges, o)
           /\ p.iso = IF s.iso THEN Descriptors(s) ELSE <<>>
           /\ s.iso /\ PayloadLen(s) # 0 =>
                 /\ DataPhase(s) /\ p.copied = Total(FrameLengths(s))
                 /\ \A k \in 1 .. Len(s.frames) :
                       \A o \in Descriptor(s, k).offset
                                   .. (Descriptor(s, k).offset + Descriptor(s, k).length - 1) :
                          In(p.ranges, o)
           /\ ~s.iso => p.copied = PayloadLen(s)
           /\ PayloadLen(s) = 0 => p.copied = 0
  <1> DEFINE f == Len(p.iso)
  <1>1. /\ Measurable(s) /\ p.iso \in Seq(FrameTypes) /\ f \in Nat /\ DOMAIN p.iso = 1 .. f
        /\ p.copied \in Nat /\ \A i \in 1 .. f : p.iso[i] = Descriptor(s, i)
    BY DEF Faithful, Good
  <1>2. /\ f = FrameCount(s) /\ p.copied = Sent(s, f) /\ (PayloadLen(s) = 0 => p.copied = 0)
        /\ PayloadLen(s) \in Nat /\ Len(s.frames) \in Nat
    BY <1>1, MeasureLemma, ShapeTypes DEF Everything
  <1>3. p.iso = IF s.iso THEN Descriptors(s) ELSE <<>>
    <2>1. CASE s.iso
      <3>1. f = Len(s.frames)
        BY <1>2, <2>1 DEF FrameCount
      <3>2. /\ Descriptors(s) \in Seq(FrameTypes) /\ Len(Descriptors(s)) = f
            /\ \A i \in 1 .. f : Descriptors(s)[i] = p.iso[i]
        BY <1>1, <3>1, ShapeTypes
      <3>3. QED
        BY <1>1, <2>1, <3>2
    <2>2. CASE ~s.iso
      BY <1>1, <1>2, <2>2 DEF FrameCount
    <2>3. QED
      BY <2>1, <2>2
  <1>4. ASSUME s.iso, DataPhase(s)
        PROVE  /\ p.copied = Total(FrameLengths(s))
               /\ \A k \in 1 .. Len(s.frames) :
                     \A o \in Descriptor(s, k).offset
                                 .. (Descriptor(s, k).offset + Descriptor(s, k).length - 1) :
                        In(p.ranges, o)
    <2>1. f = Len(s.frames) /\ p.copied = SumTo(s, f)
      BY <1>2, <1>4 DEF FrameCount, Sent
    <2>2. p.copied = Total(FrameLengths(s))
      BY <2>1, SumToLemma
    <2>3. /\ \A k \in 1 .. (f - 1) :
                \A o \in Descriptor(s, k).offset
                            .. (Descriptor(s, k).offset + Descriptor(s, k).length - 1) :
                   In(p.ranges, o)
          /\ f # 0 => \A o \in Descriptor(s, f).offset
                            .. (Descriptor(s, f).offset + (p.copied - SumTo(s, f - 1)) - 1) :
                         In(p.ranges, o)
      BY <1>4 DEF Received
    <2>4. ASSUME NEW k \in 1 .. Len(s.frames),
                 NEW o \in Descriptor(s, k).offset
                              .. (Descriptor(s, k).offset + Descriptor(s, k).length - 1)
          PROVE  In(p.ranges, o)
      <3>1. CASE k # f
        <4>1. k \in 1 .. (f - 1)
          BY <1>1, <2>1, <3>1
        <4>2. QED
          BY <2>3, <4>1
      <3>2. CASE k = f
        <4>1. /\ f \in 1 .. Len(s.frames) /\ f - 1 \in 0 .. Len(s.frames)
              /\ f \in 0 .. Len(s.frames) /\ f # 0
          BY <1>1, <1>2, <2>1, <3>2
        <4>2. /\ SumTo(s, f) = SumTo(s, f - 1) + Descriptor(s, f).length
              /\ SumTo(s, f - 1) \in Nat /\ SumTo(s, f) \in Nat
              /\ Descriptor(s, f).length \in Nat
          BY <4>1, SumToLemma, ShapeTypes
        <4>3. p.copied - SumTo(s, f - 1) = Descriptor(s, f).length
          BY <2>1, <4>2
        <4>4. QED
          BY <2>3, <3>2, <4>1, <4>3
      <3>3. QED
        BY <3>1, <3>2
    <2>5. QED
      BY <2>2, <2>4
  <1>5. ~s.iso => p.copied = PayloadLen(s)
    BY <1>2 DEF Sent
  <1>6. ASSUME NEW o \in Needed(s) PROVE In(p.ranges, o)
    <2>1. PayloadLen(s) # 0 /\ DataPhase(s) /\ o \in Nat /\ o < PayloadLen(s)
      BY <1>1, <1>2, MeasureLemma
    <2>2. CASE ~s.iso
      BY <1>5, <2>1, <2>2 DEF Received
    <2>3. CASE s.iso
      <3>1. PICK d \in Range(Descriptors(s)) : o \in d.offset .. (d.offset + d.length - 1)
        BY <2>1, <2>3 DEF Needed
      <3>2. PICK k \in 1 .. Len(s.frames) : d = Descriptor(s, k)
        BY ShapeTypes
      <3>3. QED
        BY <1>4, <2>1, <2>3, <3>1, <3>2
    <2>4. QED
      BY <2>2, <2>3
  <1>7. PayloadLen(s) # 0 => DataPhase(s)
    BY <1>1, MeasureLemma
  <1>8. QED
    BY <1>2, <1>3, <1>4, <1>5, <1>6, <1>7

\* The End record that says so finds the event whole, and hands on its image.
LEMMA WholeLemma ==
    ASSUME NEW p, NEW s \in Shapes, Faithful(p, s), Received(p, s), NEW r,
           r.reason = COMPLETE, r.copied = p.copied, r.descriptors = Len(p.iso),
           Everything(s, Len(p.iso), p.copied)
    PROVE  /\ Whole(p, r) /\ p.meta = MetaOf(s)
           /\ p.iso = IF s.iso THEN Descriptors(s) ELSE <<>>
           /\ p.payload = [o \in Offsets |-> IF o \in Needed(s) THEN o ELSE Hole]
  <1>1. /\ \A o \in Needed(s) : In(p.ranges, o)
        /\ p.iso = IF s.iso THEN Descriptors(s) ELSE <<>>
        /\ s.iso /\ PayloadLen(s) # 0 =>
              /\ DataPhase(s) /\ p.copied = Total(FrameLengths(s))
              /\ \A k \in 1 .. Len(s.frames) :
                    \A o \in Descriptor(s, k).offset
                                .. (Descriptor(s, k).offset + Descriptor(s, k).length - 1) :
                       In(p.ranges, o)
        /\ ~s.iso => p.copied = PayloadLen(s)
        /\ PayloadLen(s) = 0 => p.copied = 0
    BY AllReceived
  <1>2. /\ Measurable(s) /\ p.meta = MetaOf(s) /\ Ordered(p.ranges) /\ Good(p)
        /\ p.iso \in Seq(FrameTypes) /\ DOMAIN p.iso = 1 .. Len(p.iso)
    BY DEF Faithful, Good
  <1>3. Len(p.iso) = FrameCount(s)
    BY DEF Everything
  <1>4. /\ p.meta.has_data <=> PayloadLen(s) # 0
        /\ p.meta.payload_len = PayloadLen(s)
        /\ p.meta.requested_len = s.requested /\ p.meta.actual_len = s.actual
        /\ p.meta.iso_count = FrameCount(s) /\ p.meta.event_type = s.event_type
        /\ p.meta.iso = s.iso /\ p.meta.in = s.in
        /\ DataPhase(p.meta) <=> DataPhase(s)
    BY <1>2, MetaFields
  <1>5. ExpectedPayload(p.meta, p.iso) = PayloadLen(s)
    <2>1. CASE ~DataPhase(s)
      BY <1>4, <2>1 DEF ExpectedPayload, PayloadLen
    <2>2. CASE DataPhase(s) /\ s.iso
      BY <1>1, <1>4, <2>2 DEF ExpectedPayload, PayloadLen
    <2>3. CASE DataPhase(s) /\ ~s.iso
      BY <1>4, <2>3 DEF ExpectedPayload, PayloadLen
    <2>4. QED
      BY <2>1, <2>2, <2>3, ShapeTypes
  <1>6. DataComplete(p)
    <2>1. CASE PayloadLen(s) = 0
      BY <1>1, <1>4, <2>1 DEF DataComplete
    <2>2. CASE PayloadLen(s) # 0 /\ s.iso
      <3>1. Len(p.iso) = Len(s.frames) /\ p.iso = Descriptors(s) /\ Len(s.frames) \in Nat
        BY <1>1, <1>3, <2>2, ShapeTypes DEF FrameCount
      <3>2. FrameLengths(s) = [i \in DOMAIN p.iso |-> p.iso[i].length]
        <4>1. /\ DOMAIN s.frames = 1 .. Len(s.frames) /\ DOMAIN p.iso = 1 .. Len(s.frames)
              /\ \A i \in 1 .. Len(s.frames) : p.iso[i] = Descriptor(s, i)
          BY <1>2, <3>1, ShapeTypes
        <4>2. QED
          BY <4>1 DEF FrameLengths
      <3>3. ASSUME NEW d \in Range(p.iso) PROVE Covers(p.ranges, d.offset, d.length)
        <4>1. PICK k \in 1 .. Len(s.frames) : d = Descriptor(s, k)
          BY <3>1, ShapeTypes
        <4>2. /\ d.offset \in Nat /\ d.length \in Nat
              /\ \A o \in d.offset .. (d.offset + d.length - 1) : In(p.ranges, o)
          BY <1>1, <2>2, <4>1, ShapeTypes
        <4>3. QED
          BY <1>2, <4>2, CoversAll
      <3>4. p.meta.has_data /\ p.meta.iso /\ p.copied = Total(FrameLengths(s))
        BY <1>1, <1>4, <2>2
      <3>5. QED
        BY <3>2, <3>3, <3>4 DEF DataComplete
    <2>3. CASE PayloadLen(s) # 0 /\ ~s.iso
      <3>1. PayloadLen(s) \in Nat /\ p.copied = PayloadLen(s)
        BY <1>1, <1>2, <2>3, MeasureLemma
      <3>2. \A o \in Int : In(p.ranges, o) <=> 0 <= o /\ o < PayloadLen(s)
        BY <2>3, <3>1 DEF Received
      <3>3. \A o \in 0 .. (0 + PayloadLen(s) - 1) : In(p.ranges, o)
        BY <3>1, <3>2
      <3>4. Covers(p.ranges, 0, PayloadLen(s))
        BY <1>2, <3>1, <3>3, CoversAll
      <3>5. QED
        BY <1>4, <2>3, <3>4 DEF DataComplete
    <2>4. QED
      BY <2>1, <2>2, <2>3
  <1>7. Whole(p, r)
    BY <1>3, <1>4, <1>5, <1>6 DEF Whole
  <1>8. ASSUME NEW o \in Offsets
        PROVE  p.payload[o] = IF o \in Needed(s) THEN o ELSE Hole
    <2>1. p.payload[o] # Hole => p.payload[o] = o /\ o \in Needed(s)
      BY DEF Faithful
    <2>2. p.payload[o] # Hole <=> In(p.ranges, o)
      BY <1>2 DEF Good
    <2>3. QED
      BY <1>1, <2>1, <2>2
  <1>9. p.payload = [o \in Offsets |-> IF o \in Needed(s) THEN o ELSE Hole]
    <2>1. p.payload \in [Offsets -> Nat \cup {Hole}]
      BY <1>2 DEF Good
    <2>2. QED
      BY <1>8, <2>1
  <1>10. QED
    BY <1>1, <1>2, <1>7, <1>9

LEMMA AbsorbEnd ==
    ASSUME NEW r, NEW s, NEW a, NEW b, Hears(r, s, a), Told(s, a, r, b),
           r.kind = "end", PushEnd(r)
    PROVE  Absorbs(r, s, b)
  <1> DEFINE p == pending[r.id]
  <1>1. /\ a.stage = "open" /\ b.stage = "closed"
        /\ r.reason = COMPLETE =>
              /\ r.descriptors = a.frames /\ r.copied = a.bytes
              /\ Everything(s, a.frames, a.bytes)
    BY DEF Told
  <1>2. /\ r.id \in Pending /\ r.id \in Ids /\ s \in Shapes /\ Measurable(s) /\ OpenInv
        /\ Faithful(p, s) /\ Received(p, s) /\ p.meta = MetaOf(s)
        /\ a.frames = Len(p.iso) /\ a.bytes = p.copied
        /\ DOMAIN p.iso = 1 .. Len(p.iso) /\ Len(p.iso) \in Nat
    BY <1>1, HeardOpen
  <1>3. ~(p.meta.iso /\ \E d \in Range(p.iso) : d.offset + d.length > p.meta.requested_len)
    <2> SUFFICES ASSUME p.meta.iso, NEW d \in Range(p.iso)
                 PROVE  ~(d.offset + d.length > p.meta.requested_len)
      OBVIOUS
    <2>1. s.iso /\ p.meta.requested_len = s.requested
      BY <1>2, MetaFields
    <2>2. PICK i \in 1 .. Len(p.iso) : d = p.iso[i]
      BY <1>2 DEF Range
    <2>3. /\ d = Descriptor(s, i) /\ Len(p.iso) <= Len(s.frames)
      BY <1>2, <2>1, <2>2 DEF Faithful, FrameCount
    <2>4. i \in 1 .. Len(s.frames)
      BY <1>2, <2>2, <2>3, ShapeTypes
    <2>5. d.offset + d.length <= s.requested /\ d.offset \in Nat /\ d.length \in Nat
          /\ s.requested \in Nat
      BY <1>2, <2>1, <2>3, <2>4, MeasureLemma, ShapeTypes
    <2>6. QED
      BY <2>1, <2>5
  <1>4. /\ pending' = [pending EXCEPT ![r.id] = None] /\ failed' = failed
        /\ IF Whole(p, r)
           THEN /\ reassembly' = [reassembly EXCEPT !.complete = @ + 1]
                /\ delivered' = delivered \cup
                      {[id |-> r.id, meta |-> p.meta, iso |-> p.iso, payload |-> p.payload]}
           ELSE reassembly' = CountIncomplete(1) /\ delivered' = delivered
    BY <1>3 DEF PushEnd
  <1>5. /\ DOMAIN pending' = Ids /\ pending'[r.id] = None
        /\ \A id \in Ids : id # r.id => pending'[id] = pending[id]
    BY <1>2, <1>4 DEF OpenInv
  <1>6. CASE r.reason = COMPLETE
    <2>1. /\ Whole(p, r) /\ p.meta = MetaOf(s)
          /\ p.iso = IF s.iso THEN Descriptors(s) ELSE <<>>
          /\ p.payload = [o \in Offsets |-> IF o \in Needed(s) THEN o ELSE Hole]
      BY <1>1, <1>2, <1>6, WholeLemma
    <2> HIDE DEF p
    <2>2. [id |-> r.id, meta |-> p.meta, iso |-> p.iso, payload |-> p.payload] = Event(r.id, s)
      BY <2>1 DEF Event
    <2>3. QED
      BY <1>1, <1>4, <1>5, <1>6, <2>1, <2>2 DEF Absorbs, Closes
  <1>7. CASE r.reason # COMPLETE
    <2>1. ~Whole(p, r)
      BY <1>7 DEF Whole
    <2>2. QED
      BY <1>1, <1>4, <1>5, <1>7, <2>1 DEF Absorbs, Closes, CountIncomplete
  <1>8. QED
    BY <1>6, <1>7

\* Whatever the record is.
LEMMA PushAbsorbs ==
    ASSUME NEW r, NEW s, NEW a, NEW b, Hears(r, s, a), Told(s, a, r, b), Push(r)
    PROVE  Absorbs(r, s, b)
  <1>1. r.kind \in {"begin", "data", "iso", "end"}
    BY RecordLemma DEF Hears
  <1>2. CASE r.kind = "begin"
    BY <1>2, AbsorbBegin DEF Push
  <1>3. ASSUME r.kind # "begin" PROVE r.id \in Pending
    BY <1>1, <1>3, HeardOpen DEF Told
  <1>4. CASE r.kind = "data"
    BY <1>3, <1>4, AbsorbData DEF Push
  <1>5. CASE r.kind = "iso"
    BY <1>3, <1>5, AbsorbIso DEF Push
  <1>6. CASE r.kind = "end"
    BY <1>3, <1>6, AbsorbEnd DEF Push
  <1>7. QED
    BY <1>1, <1>2, <1>4, <1>5, <1>6

-----------------------------------------------------------------------------
(* The collector *)

\* The oldest slot leaves the ring.
LEMMA TailFacts ==
    ASSUME RingInv, ring # <<>>, ring' = Tail(ring), NEW n, n = Len(ring)
    PROVE  /\ n \in Nat \ {0} /\ DOMAIN ring = 1 .. n /\ Head(ring) = ring[1]
           /\ 1 \in DOMAIN ring /\ Len(ring') = n - 1 /\ DOMAIN ring' = 1 .. (n - 1)
           /\ \A i \in 1 .. (n - 1) : ring'[i] = ring[i + 1]
           /\ ring' \in Seq(Slots) /\ \A i \in 1 .. n : ring[i] \in Slots
  <1>1. ring \in Seq(Slots)
    BY DEF RingInv
  <1> HIDE DEF RingInv
  <1>2. QED
    BY <1>1

\* The record in it finds the reassembler where its chain says.
LEMMA HeadHeard ==
    ASSUME TransportInv, Consume, NEW r, Head(ring).state = "ready", r = Head(ring).record,
           NEW P, Linked(r.id, P)
    PROVE  /\ r \in Records /\ r.id \in DOMAIN shape /\ r.id \in Ids /\ shape[r.id] \in Shapes
           /\ Hears(r, shape[r.id], P[0]) /\ Told(shape[r.id], P[0], r, P[1])
           /\ Absorbs(r, shape[r.id], P[1]) /\ Push(r)
  <1>1. ShapeInv /\ RingInv /\ EventInv
    BY DEF TransportInv
  <1>2. ring # <<>> /\ ring' = Tail(ring) /\ ~failed /\ Push(r)
    BY DEF Consume
  <1>3. PICK n \in Nat : n = Len(ring)
    BY <1>1 DEF RingInv
  <1>4. 1 \in DOMAIN ring /\ Head(ring) = ring[1] /\ n # 0 /\ ring[1] \in Slots
    BY <1>1, <1>2, <1>3, TailFacts
  <1>5. SlotInv(ring[1]) /\ r = ring[1].record /\ ring[1].state = "ready"
    BY <1>1, <1>4 DEF RingInv
  <1>6. r \in Records /\ r.id \in DOMAIN shape /\ Honest(r, shape[r.id])
    BY <1>4, <1>5 DEF SlotInv, Slots
  <1>7. shape[r.id] \in Shapes
    BY <1>1, <1>6 DEF ShapeInv
  <1>8. r.id \in Ids
    BY <1>6, <1>7, RecordLemma
  <1>9. P[0] \in Stages /\ Told(shape[r.id], P[0], r, P[1])
    <2>1. 0 \in 0 .. n /\ 1 \in 1 .. n /\ 1 - 1 = 0
      BY <1>4
    <2>2. P[0] \in Stages /\ Link(r.id, shape[r.id], P[0], ring[1], P[1])
      BY <1>1, <1>3, <2>1, LinkedFacts
    <2>3. QED
      BY <1>5, <2>2 DEF Link
  <1>10. IF r.id \in Pending
         THEN P[0] = Stage("open", Len(pending[r.id].iso), pending[r.id].copied)
         ELSE P[0].stage # "open"
    BY <1>2 DEF Linked
  <1>11. /\ OpenInv
         /\ r.id \in Pending => /\ Faithful(pending[r.id], shape[r.id])
                                /\ Received(pending[r.id], shape[r.id])
    BY <1>1, <1>2 DEF EventInv
  <1>12. Hears(r, shape[r.id], P[0])
    BY <1>2, <1>6, <1>7, <1>9, <1>10, <1>11 DEF Hears
  <1>13. QED
    BY <1>2, <1>6, <1>7, <1>8, <1>9, <1>12, PushAbsorbs

LEMMA ConsumeRing ==
    ASSUME RingInv, ring # <<>>, ring' = Tail(ring), cpu' = cpu, shape' = shape
    PROVE  RingInv'
  <1>1. PICK n \in Nat : n = Len(ring)
    BY DEF RingInv
  <1>2. /\ DOMAIN ring = 1 .. n /\ DOMAIN ring' = 1 .. (n - 1)
        /\ \A i \in 1 .. (n - 1) : ring'[i] = ring[i + 1]
        /\ ring' \in Seq(Slots)
    BY <1>1, TailFacts
  <1>3. ASSUME NEW i \in 1 .. (n - 1) PROVE SlotInv(ring[i])'
    <2>1. i + 1 \in DOMAIN ring /\ ring'[i] = ring[i + 1]
      BY <1>2
    <2>2. SlotInv(ring[i + 1])
      BY <2>1 DEF RingInv
    <2>3. QED
      BY <2>1, <2>2 DEF SlotInv
  <1>4. ASSUME NEW i \in 1 .. (n - 1), NEW j \in 1 .. (n - 1), i < j, ring'[i].state = "busy"
        PROVE  ring'[j].record.id # ring'[i].record.id
    <2>1. /\ i + 1 \in DOMAIN ring /\ ring'[i] = ring[i + 1] /\ i + 1 < j + 1
          /\ j + 1 \in DOMAIN ring /\ ring'[j] = ring[j + 1]
      BY <1>2, <1>4
    <2>2. QED
      BY <1>4, <2>1 DEF RingInv
  <1>5. QED
    BY <1>2, <1>3, <1>4 DEF RingInv

\* A chain goes on without its first link.
LEMMA ConsumeChain ==
    ASSUME RingInv, ring # <<>>, ring' = Tail(ring), cpu' = cpu, shape' = shape,
           NEW id, NEW P, Linked(id, P),
           id \in Done' => P[1].stage = "closed",
           ~failed' => IF id \in Pending'
                       THEN P[1] = Stage("open", Len(pending'[id].iso), pending'[id].copied)
                       ELSE P[1].stage # "open"
    PROVE  \E Q : Linked(id, Q)'
  <1>1. PICK n \in Nat : n = Len(ring)
    BY DEF RingInv
  <1>2. /\ n # 0 /\ Len(ring') = n - 1 /\ \A i \in 1 .. (n - 1) : ring'[i] = ring[i + 1]
    BY <1>1, TailFacts
  <1>3. /\ \A i \in 0 .. n : P[i] \in Stages
        /\ \A i \in 1 .. n : Link(id, shape[id], P[i - 1], ring[i], P[i])
        /\ \A i, j \in 0 .. n : i <= j /\ P[i].stage = "closed" => P[j].stage = "closed"
        /\ \A i, j \in 0 .. n : i <= j /\ P[i].stage = "open" => P[j].stage # "new"
    BY <1>1, LinkedFacts
  <1> DEFINE Q == [i \in 0 .. (n - 1) |-> P[i + 1]]
  <1>4. /\ Q \in [0 .. (n - 1) -> Stages] /\ \A i \in 0 .. (n - 1) : Q[i] = P[i + 1]
    BY <1>1, <1>3
  <1> HIDE DEF Q
  <1>5. Q[0] = P[1] /\ Q[n - 1] = P[n] /\ n - 1 = Len(ring')
    BY <1>1, <1>2, <1>4
  <1>6. ASSUME NEW i \in 1 .. (n - 1) PROVE Link(id, shape'[id], Q[i - 1], ring'[i], Q[i])
    <2>1. i + 1 \in 1 .. n /\ (i + 1) - 1 = i /\ i - 1 \in 0 .. (n - 1) /\ i \in 0 .. (n - 1)
          /\ (i - 1) + 1 = i
      BY <1>1
    <2>2. Q[i - 1] = P[i] /\ Q[i] = P[i + 1] /\ ring'[i] = ring[i + 1]
      BY <1>2, <1>4, <2>1
    <2>3. Link(id, shape[id], P[(i + 1) - 1], ring[i + 1], P[i + 1])
      BY <1>3, <2>1
    <2>4. QED
      BY <2>1, <2>2, <2>3
  <1>7. ASSUME NEW i \in 0 .. (n - 1), NEW j \in 0 .. (n - 1), i <= j
        PROVE  /\ Q[i].stage = "closed" => Q[j].stage = "closed"
               /\ Q[i].stage = "open" => Q[j].stage # "new"
    <2>1. i + 1 \in 0 .. n /\ j + 1 \in 0 .. n /\ i + 1 <= j + 1
      BY <1>1, <1>7
    <2>2. QED
      BY <1>3, <1>4, <2>1
  <1>8. \A c \in Cpus : Runs(c, id)' => Agrees(P[n], cpu'[c])
    BY <1>1 DEF Linked, Runs
  <1>9. Linked(id, Q)'
    BY <1>4, <1>5, <1>6, <1>7, <1>8 DEF Linked
  <1>10. QED
    BY <1>9

LEMMA ConsumeKeeps ==
    ASSUME TransportInv, Consume
    PROVE  TransportInv'
  <1>1. ShapeInv /\ CpuInv /\ RingInv /\ ChainInv /\ EventInv /\ StreamInv
    BY DEF TransportInv
  <1>2. /\ ring # <<>> /\ ring' = Tail(ring) /\ ~failed /\ cpu' = cpu /\ shape' = shape
        /\ attempts' = attempts /\ errors' = errors
    BY DEF Consume, emission
  <1>3. ShapeInv' /\ CpuInv' /\ RingInv'
    BY <1>1, <1>2, ConsumeRing DEF ShapeInv, CpuInv
  <1>4. PICK n \in Nat : n = Len(ring)
    BY <1>1 DEF RingInv
  <1>5. n # 0 /\ Head(ring) = ring[1] /\ 1 \in DOMAIN ring
    BY <1>1, <1>2, <1>4, TailFacts
  <1>6. ASSUME NEW id, NEW P, Linked(id, P)
        PROVE  /\ Link(id, shape[id], P[0], ring[1], P[1]) /\ P[0] \in Stages
               /\ id \in Done => P[0].stage = "closed" /\ P[1].stage = "closed"
               /\ IF id \in Pending
                  THEN P[0] = Stage("open", Len(pending[id].iso), pending[id].copied)
                  ELSE P[0].stage # "open"
    <2>1. 0 \in 0 .. n /\ 1 \in 1 .. n /\ 1 - 1 = 0
      BY <1>5
    <2>2. Link(id, shape[id], P[0], ring[1], P[1]) /\ P[0] \in Stages
      BY <1>1, <1>4, <1>6, <2>1, LinkedFacts
    <2>3. P[0].stage = "closed" => P[1].stage = "closed"
      BY <2>2, LinkForward
    <2>4. QED
      BY <1>2, <1>6, <2>2, <2>3 DEF Linked
  <1>7. CASE Head(ring).state # "ready"
    <2>1. /\ pending' = pending /\ reassembly' = reassembly /\ delivered' = delivered
          /\ failed' = failed /\ begun' = begun
      BY <1>7 DEF Consume, reassembler
    <2>2. Pending' = Pending /\ Done' = Done
      BY <2>1 DEF Pending, Done
    <2>3. Head(ring).state = "discarded"
      BY <1>1, <1>5, <1>7 DEF Consume, RingInv, SlotInv
    <2>4. ASSUME NEW id \in DOMAIN shape PROVE \E P : Linked(id, P)'
      <3>1. PICK P : Linked(id, P)
        BY <1>1 DEF ChainInv
      <3>2. P[1] = P[0]
        BY <1>5, <1>6, <2>3, <3>1 DEF Link
      <3>3. /\ id \in Done' => P[1].stage = "closed"
            /\ IF id \in Pending'
               THEN P[1] = Stage("open", Len(pending'[id].iso), pending'[id].copied)
               ELSE P[1].stage # "open"
        BY <1>6, <2>1, <2>2, <3>1, <3>2
      <3>4. QED
        BY <1>1, <1>2, <3>1, <3>3, ConsumeChain
    <2>5. ChainInv'
      BY <1>2, <2>4 DEF ChainInv
    <2>6. EventInv'
      BY <1>1, <1>2, <2>1, <2>2 DEF EventInv, OpenInv
    <2>7. StreamInv'
      BY <1>1, <2>1, <2>2 DEF StreamInv, CounterTypes, AcceptedInv
    <2>8. QED
      BY <1>3, <2>5, <2>6, <2>7 DEF TransportInv
  <1>8. CASE Head(ring).state = "ready"
    <2>0. PICK r : r = Head(ring).record
      OBVIOUS
    <2>1. r.id \in DOMAIN shape
      BY <1>1, <1>5, <2>0 DEF RingInv, SlotInv
    <2>2. ASSUME NEW P, Linked(r.id, P)
          PROVE  /\ r \in Records /\ r.id \in Ids /\ shape[r.id] \in Shapes
                 /\ Hears(r, shape[r.id], P[0]) /\ Told(shape[r.id], P[0], r, P[1])
                 /\ Absorbs(r, shape[r.id], P[1]) /\ Push(r)
      BY <1>8, <2>0, <2>2, HeadHeard
    <2>3. PICK P0 : Linked(r.id, P0)
      BY <1>1, <2>1 DEF ChainInv
    <2> DEFINE s == shape[r.id]
               b == P0[1]
    <2>4. /\ r \in Records /\ r.id \in Ids /\ s \in Shapes /\ Absorbs(r, s, b) /\ Push(r)
          /\ OpenInv /\ Honest(r, s)
      BY <2>2, <2>3 DEF Hears
    <2> HIDE DEF b
    <2>5. /\ DOMAIN pending' = Ids /\ \A id \in Ids : id # r.id => pending'[id] = pending[id]
      BY <2>4 DEF Absorbs
    <2>6. TypedRecord(r)
      BY <2>4, RecordLemma
    <2>7. OpenInv' /\ CounterTypes'
      BY <1>1, <2>4, <2>6, OpenLemma, BalanceLemma DEF StreamInv
    <2>8. ASSUME NEW e \in delivered', e \notin delivered PROVE e = Event(r.id, s)
      BY <2>4, <2>8 DEF Absorbs, Fail, Fills, Closes
    <2>9. Event(r.id, s).id = r.id /\ Said(Event(r.id, s)) = Image(s)
      BY DEF Event, Said, Image
    <2>10. EventInv'
      <3>1. ASSUME NEW id \in Pending'
            PROVE  /\ id \in DOMAIN shape /\ Faithful(pending'[id], shape[id])
                   /\ ~failed' => Received(pending'[id], shape[id])
        <4>1. id \in Ids /\ pending'[id] # None
          BY DEF Pending
        <4>2. CASE id # r.id
          <5>1. pending'[id] = pending[id] /\ id \in Pending
            BY <2>5, <4>1, <4>2 DEF Pending
          <5>2. QED
            BY <1>1, <1>2, <5>1 DEF EventInv
        <4>3. CASE id = r.id
          <5>1. CASE Fail
            <6>1. pending'[id] = pending[id] /\ id \in Pending /\ failed'
              BY <4>1, <5>1 DEF Fail, Pending
            <6>2. QED
              BY <1>1, <6>1 DEF EventInv
          <5>2. CASE Fills(r, s, b)
            BY <2>1, <4>3, <5>2 DEF Fills
          <5>3. CASE Closes(r, s, b)
            BY <4>1, <4>3, <5>3 DEF Closes
          <5>4. QED
            BY <2>4, <5>1, <5>2, <5>3 DEF Absorbs
        <4>4. QED
          BY <4>2, <4>3
      <3>2. ASSUME NEW e \in delivered'
            PROVE  e.id \in DOMAIN shape /\ Said(e) = Image(shape[e.id])
        <4>1. CASE e \in delivered
          BY <1>1, <4>1 DEF EventInv
        <4>2. CASE e \notin delivered
          BY <2>1, <2>8, <2>9, <4>2
        <4>3. QED
          BY <4>1, <4>2
      <3>3. QED
        BY <1>2, <2>7, <3>1, <3>2 DEF EventInv
    <2>11. StreamInv'
      <3>1. /\ reassembly \in [CounterNames -> Nat]
            /\ reassembly.orphan_records = 0
        BY <1>1 DEF StreamInv, AcceptedInv, CounterTypes
      <3>2. reassembly'.orphan_records = 0
        <4>1. \/ reassembly' = reassembly
              \/ reassembly' = [reassembly EXCEPT !.complete = @ + 1]
              \/ reassembly' = [reassembly EXCEPT !.incomplete = @ + 1]
          BY <2>4 DEF Absorbs, Fail, Fills, Closes
        <4>2. QED
          BY <3>1, <4>1 DEF CounterNames
      <3>3. ASSUME failed' PROVE Cardinality(Pending') >= MaxPending
        <4>1. Fail /\ Cardinality(Pending) >= MaxPending
          BY <1>2, <2>4, <3>3 DEF Absorbs, Fills, Closes
        <4>2. Pending' = Pending
          BY <4>1 DEF Fail, Pending
        <4>3. QED
          BY <4>1, <4>2
      <3>4. QED
        BY <2>7, <3>2, <3>3 DEF StreamInv, AcceptedInv
    <2>12. ASSUME NEW id \in DOMAIN shape PROVE \E Q : Linked(id, Q)'
      <3>1. PICK P : Linked(id, P)
        BY <1>1 DEF ChainInv
      <3>2. /\ Link(id, shape[id], P[0], ring[1], P[1])
            /\ id \in Done => P[0].stage = "closed" /\ P[1].stage = "closed"
            /\ IF id \in Pending
               THEN P[0] = Stage("open", Len(pending[id].iso), pending[id].copied)
               ELSE P[0].stage # "open"
        BY <1>6, <3>1
      <3>3. id \in Ids
        BY <1>1, TransportAssumption DEF ShapeInv
      <3>4. CASE id # r.id
        <4>1. P[1] = P[0]
          BY <1>5, <2>0, <3>2, <3>4 DEF Link
        <4>2. pending'[id] = pending[id] /\ (id \in Pending' <=> id \in Pending)
          BY <2>5, <3>3, <3>4 DEF Pending
        <4>3. id \in Done' => id \in Done
          BY <2>8, <2>9, <3>4 DEF Done
        <4>4. /\ id \in Done' => P[1].stage = "closed"
              /\ IF id \in Pending'
                 THEN P[1] = Stage("open", Len(pending'[id].iso), pending'[id].copied)
                 ELSE P[1].stage # "open"
          BY <3>2, <4>1, <4>2, <4>3
        <4>5. QED
          BY <1>1, <1>2, <3>1, <4>4, ConsumeChain
      <3>5. CASE id = r.id
        <4>1. Absorbs(r, s, P[1])
          BY <2>2, <3>1, <3>5
        <4>2. /\ id \in Done' => P[1].stage = "closed"
              /\ ~failed' => IF id \in Pending'
                 THEN P[1] = Stage("open", Len(pending'[id].iso), pending'[id].copied)
                 ELSE P[1].stage # "open"
          <5>1. CASE Fail
            <6>1. failed' /\ Done' = Done
              BY <5>1 DEF Fail, Done
            <6>2. QED
              BY <3>2, <6>1
          <5>2. CASE Fills(r, s, P[1])
            <6>1. Done' = Done /\ pending'[id] # None
                  /\ P[1] = Stage("open", Len(pending'[id].iso), pending'[id].copied)
              BY <3>5, <5>2 DEF Fills, Done
            <6>2. id \in Pending'
              BY <3>3, <6>1 DEF Pending
            <6>3. QED
              BY <3>2, <6>1, <6>2
          <5>3. CASE Closes(r, s, P[1])
            <6>1. id \notin Pending' /\ P[1].stage = "closed"
              BY <3>5, <5>3 DEF Closes, Pending
            <6>2. QED
              BY <6>1
          <5>4. QED
            BY <4>1, <5>1, <5>2, <5>3 DEF Absorbs
        <4>3. QED
          BY <1>1, <1>2, <3>1, <4>2, ConsumeChain
      <3>6. QED
        BY <3>4, <3>5
    <2>13. ChainInv'
      BY <1>2, <2>12 DEF ChainInv
    <2>14. QED
      BY <1>3, <2>10, <2>11, <2>13 DEF TransportInv
  <1>9. QED
    BY <1>7, <1>8

-----------------------------------------------------------------------------
(* The room in the ring *)

Weights(rg) == [i \in DOMAIN rg |-> Weight(rg[i].record)]

LEMMA WeightLemma ==
    ASSUME NEW rec PROVE Weight(rec) \in Nat
  BY TransportAssumption DEF Weight

LEMMA WeightsLemma ==
    ASSUME NEW rg \in Seq(Slots)
    PROVE  /\ Weights(rg) \in Seq(Nat) /\ Len(Weights(rg)) = Len(rg)
           /\ \A i \in 1 .. Len(rg) : Weights(rg)[i] = Weight(rg[i].record)
  <1>1. Len(rg) \in Nat /\ DOMAIN rg = 1 .. Len(rg)
    OBVIOUS
  <1>2. Weights(rg) = [i \in 1 .. Len(rg) |-> Weight(rg[i].record)]
    BY <1>1 DEF Weights
  <1>3. \A i \in 1 .. Len(rg) : Weight(rg[i].record) \in Nat
    BY WeightLemma
  <1>4. Weights(rg) \in [1 .. Len(rg) -> Nat]
    BY <1>2, <1>3
  <1>5. QED
    BY <1>1, <1>2, <1>3, <1>4

\* A reservation takes its weight, settling it nothing, consuming it gives room.
LEMMA EffectRoom ==
    ASSUME ShapeInv, CpuInv, RingInv, Used <= RingSize, NEW c \in Cpus, Effect(c)
    PROVE  Used' <= RingSize
  <1>1. ring \in Seq(Slots) /\ ring' \in Seq(Slots)
    BY EffectRing DEF RingInv
  <1>2. Used = Total(Weights(ring)) /\ Used' = Total(Weights(ring'))
    BY DEF Used, Weights, Weight
  <1>3. /\ Weights(ring) \in Seq(Nat) /\ Len(Weights(ring)) = Len(ring)
        /\ \A i \in 1 .. Len(ring) : Weights(ring)[i] = Weight(ring[i].record)
    BY <1>1, WeightsLemma
  <1>4. /\ Weights(ring') \in Seq(Nat) /\ Len(Weights(ring')) = Len(ring')
        /\ \A i \in 1 .. Len(ring') : Weights(ring')[i] = Weight(ring'[i].record)
    BY <1>1, WeightsLemma
  <1>5. ASSUME NEW rec, NEW slot, slot.record = rec, ring' = Append(ring, slot), Fits(rec)
        PROVE  Used' <= RingSize
    <2>1. /\ Len(ring) \in Nat /\ Len(ring') = Len(ring) + 1
          /\ (\A i \in 1 .. Len(ring) : ring'[i] = ring[i]) /\ ring'[Len(ring) + 1] = slot
      BY <1>5, AppendFacts
    <2>2. /\ Weight(rec) \in Nat /\ Weights(ring')[Len(ring) + 1] = Weight(rec)
          /\ \A i \in 1 .. Len(ring) : Weights(ring')[i] = Weights(ring)[i]
      BY <1>3, <1>4, <1>5, <2>1, WeightLemma
    <2>3. Weights(ring') = Append(Weights(ring), Weight(rec))
      BY <1>3, <1>4, <2>1, <2>2
    <2>4. Total(Weights(ring')) = Total(Weights(ring)) + Weight(rec)
      BY <1>3, <2>2, <2>3, TotalLemma
    <2>5. QED
      BY <1>2, <1>5, <2>4 DEF Fits
  <1>6. ASSUME NEW state \in {"ready", "discarded"}, Settle(c, state)
        PROVE  Used' <= RingSize
    <2>1. /\ Len(ring) \in Nat /\ Len(ring') = Len(ring)
          /\ \A i \in 1 .. Len(ring) : ring'[i].record = ring[i].record
      BY <1>6, SettleFacts
    <2>2. Weights(ring') = Weights(ring)
      BY <1>3, <1>4, <2>1
    <2>3. QED
      BY <1>2, <2>2
  <1>7. CASE ring' = ring
    BY <1>2, <1>7
  <1>8. ASSUME NEW rec, NEW state, ring' = Append(ring, Slot(state, c, rec)), Fits(rec)
        PROVE  Used' <= RingSize
    BY <1>5, <1>8 DEF Slot
  <1>9. QED
    BY <1>6, <1>7, <1>8 DEF Effect, Sends

LEMMA ConsumeRoom ==
    ASSUME RingInv, RingInv', Used <= RingSize, ring # <<>>, ring' = Tail(ring)
    PROVE  Used' <= RingSize
  <1>1. ring \in Seq(Slots) /\ ring' \in Seq(Slots)
    BY DEF RingInv
  <1>2. Used = Total(Weights(ring)) /\ Used' = Total(Weights(ring'))
    BY DEF Used, Weights, Weight
  <1>3. /\ Weights(ring) \in Seq(Nat) /\ Len(Weights(ring)) = Len(ring)
        /\ \A i \in 1 .. Len(ring) : Weights(ring)[i] = Weight(ring[i].record)
    BY <1>1, WeightsLemma
  <1>4. /\ Weights(ring') \in Seq(Nat) /\ Len(Weights(ring')) = Len(ring')
        /\ \A i \in 1 .. Len(ring') : Weights(ring')[i] = Weight(ring'[i].record)
    BY <1>1, WeightsLemma
  <1>5. PICK n \in Nat : n = Len(ring)
    BY <1>1
  <1>6. n # 0 /\ Len(ring') = n - 1 /\ \A i \in 1 .. (n - 1) : ring'[i] = ring[i + 1]
    BY <1>5, TailFacts
  <1>7. \A i \in 1 .. (n - 1) : Weights(ring')[i] = Weights(ring)[i + 1]
    BY <1>3, <1>4, <1>5, <1>6
  <1> DEFINE w == Weights(ring)
             v == Weights(ring')
  <1>8. w \in Seq(Nat) /\ Len(w) = n /\ v \in Seq(Nat) /\ Len(v) = n - 1
        /\ \A i \in 1 .. (n - 1) : v[i] = w[i + 1]
    BY <1>3, <1>4, <1>5, <1>6, <1>7
  <1> HIDE DEF w, v
  <1>9. v = Tail(w) /\ w # <<>> /\ w[1] \in Nat
    <2>1. w # <<>> /\ w[1] \in Nat
      BY <1>5, <1>6, <1>8
    <2>2. /\ Tail(w) \in Seq(Nat) /\ Len(Tail(w)) = n - 1
          /\ \A i \in 1 .. (n - 1) : Tail(w)[i] = w[i + 1]
      BY <1>5, <1>6, <1>8, <2>1
    <2>3. v = Tail(w)
      <3>1. PICK u : u = Tail(w)
        OBVIOUS
      <3>2. u \in Seq(Nat) /\ Len(u) = Len(v) /\ \A i \in 1 .. Len(v) : u[i] = v[i]
        BY <1>8, <2>2, <3>1
      <3>3. u = v
        BY <1>8, <3>2
      <3>4. QED
        BY <3>1, <3>3
    <2>4. QED
      BY <2>1, <2>3
  <1>10. Total(w) = w[1] + Total(v) /\ Total(w) \in Nat /\ Total(v) \in Nat
    BY <1>8, <1>9, TotalLemma
  <1>11. RingSize \in Nat
    BY TransportAssumption
  <1>12. Used = Total(w) /\ Used' = Total(v)
    BY <1>2 DEF w, v
  <1>13. QED
    BY <1>9, <1>10, <1>11, <1>12

-----------------------------------------------------------------------------
(* Theorems *)

\* Initially nothing is sent, open or counted.
LEMMA InitInv == Init => TransportInv /\ Used <= RingSize
  <1> SUFFICES ASSUME Init PROVE TransportInv /\ Used <= RingSize
    OBVIOUS
  <1>1. /\ cpu = [c \in Cpus |-> Idle] /\ ring = <<>> /\ shape = <<>>
        /\ attempts = 0 /\ errors = 0
        /\ pending = [id \in Ids |-> None] /\ delivered = {} /\ failed = FALSE /\ begun = 0
        /\ reassembly = [complete |-> 0, incomplete |-> 0, orphan_records |-> 0,
                         kernel_losses |-> 0]
    BY DEF Init, ReassemblerInit
  <1>2. ShapeInv
    BY <1>1, TransportAssumption DEF ShapeInv
  <1>3. CpuInv
    BY <1>1 DEF CpuInv
  <1>4. RingInv
    BY <1>1 DEF RingInv
  <1>5. ChainInv
    BY <1>1 DEF ChainInv
  <1>6. Pending = {}
    BY <1>1 DEF Pending
  <1>7. EventInv
    BY <1>1, <1>6 DEF EventInv, OpenInv
  <1>8. StreamInv
    <2>1. IsFiniteSet(Pending)
      BY <1>6, FS_EmptySet
    <2>2. reassembly \in [CounterNames -> Nat] /\ reassembly.orphan_records = 0
      BY <1>1 DEF CounterNames
    <2>3. QED
      BY <1>1, <2>1, <2>2 DEF StreamInv, CounterTypes, AcceptedInv
  <1>9. Used <= RingSize
    <2>1. [i \in DOMAIN ring |-> Weight(ring[i].record)] = <<>>
      BY <1>1
    <2>2. QED
      BY <2>1, TotalLemma, TransportAssumption DEF Used
  <1>10. QED
    BY <1>2, <1>3, <1>4, <1>5, <1>7, <1>8, <1>9 DEF TransportInv

LEMMA NextInv == TransportInv /\ Used <= RingSize /\ [Next]_vars => (TransportInv /\ Used <= RingSize)'
  <1> SUFFICES ASSUME TransportInv, Used <= RingSize, [Next]_vars
               PROVE  TransportInv' /\ Used' <= RingSize
    BY TransportAssumption
  <1>1. ShapeInv /\ CpuInv /\ RingInv
    BY DEF TransportInv
  <1>2. CASE Consume
    <2>1. TransportInv' /\ ring # <<>> /\ ring' = Tail(ring)
      BY <1>2, ConsumeKeeps DEF Consume
    <2>2. RingInv'
      BY <2>1 DEF TransportInv
    <2>3. QED
      BY <1>1, <2>1, <2>2, ConsumeRoom
  <1>3. ASSUME NEW c \in Cpus, Start(c) PROVE TransportInv' /\ Used' <= RingSize
    <2>1. ring' = ring
      BY <1>3 DEF Start
    <2>2. Used' = Used
      BY <2>1 DEF Used, Weight
    <2>3. QED
      BY <1>3, <2>2, StartKeeps
  <1>4. ASSUME NEW c \in Cpus, EmitStep(c) PROVE TransportInv' /\ Used' <= RingSize
    BY <1>1, <1>4, EmitKeeps, EmitEffect, EffectRoom
  <1>5. CASE UNCHANGED vars
    <2>1. /\ cpu' = cpu /\ ring' = ring /\ shape' = shape /\ attempts' = attempts
          /\ errors' = errors /\ pending' = pending /\ reassembly' = reassembly
          /\ delivered' = delivered /\ failed' = failed /\ begun' = begun
      BY <1>5 DEF vars
    <2>2. Used' = Used /\ Pending' = Pending /\ Done' = Done
      BY <2>1 DEF Used, Weight, Pending, Done
    <2>3. ShapeInv' /\ CpuInv' /\ RingInv'
      BY <1>1, <2>1 DEF ShapeInv, CpuInv, RingInv, SlotInv
    <2>4. ASSUME NEW id, NEW P, Linked(id, P) PROVE Linked(id, P)'
      BY <2>1, <2>2, <2>4 DEF Linked, Runs
    <2>5. ChainInv'
      BY <2>1, <2>4 DEF TransportInv, ChainInv
    <2>6. EventInv'
      BY <2>1, <2>2 DEF TransportInv, EventInv, OpenInv
    <2>7. StreamInv'
      BY <2>1, <2>2 DEF TransportInv, StreamInv, CounterTypes, AcceptedInv
    <2>8. QED
      BY <2>2, <2>3, <2>5, <2>6, <2>7 DEF TransportInv
  <1>6. QED
    BY <1>2, <1>3, <1>4, <1>5 DEF Next

\* Whatever the CPUs do in between, every chain holds.
THEOREM InvCorrect == Spec => [](TransportInv /\ Used <= RingSize)
  BY InitInv, NextInv, PTL DEF Spec

\* The counters of emit() and of the ring stay in their ranges: a slot is busy only
\* while its CPU reads into it, the ring is never overrun, and segment_left and
\* remaining of copy_sg never go below zero.
THEOREM TypeCorrect == Spec => []TypeOK
  <1>1. TransportInv /\ Used <= RingSize => TypeOK
    <2> SUFFICES ASSUME TransportInv, Used <= RingSize PROVE TypeOK
      OBVIOUS
    <2>1. ASSUME NEW c \in Cpus, cpu[c] # Idle
          PROVE  /\ cpu[c].id \in DOMAIN shape
                 /\ cpu[c].copied \in Nat /\ cpu[c].remaining \in Nat
                 /\ cpu[c].segment_left \in Nat
                 /\ cpu[c].reason \in {COMPLETE, LOSS_RING, LOSS_READ,
                                       LOSS_UNSUPPORTED_BUFFER}
      BY <2>1 DEF TransportInv, CpuInv, ContextOK, ContextTypes
    <2>2. ASSUME NEW i \in DOMAIN ring
          PROVE  /\ ring[i].state \in {"busy", "ready", "discarded"}
                 /\ ring[i].state = "busy" => cpu[ring[i].cpu].pc \in {"read", "sg_read"}
      BY <2>2 DEF TransportInv, RingInv, SlotInv
    <2>3. attempts \in 0 .. MaxEvents /\ errors \in 0 .. MaxFaults
      BY TransportAssumption DEF TransportInv, ShapeInv
    <2>4. QED
      BY <2>1, <2>2, <2>3 DEF TypeOK
  <1>2. QED
    BY <1>1, InvCorrect, PTL

\* An event that the reassembler hands on has exactly the bytes and the descriptors
\* of its URB, from its own place in the buffer: chunks, frames and segments of
\* any size, any interleaving of CPUs, whatever was lost around it.
THEOREM DeliveredCorrect == Spec => []DeliveredExact
  <1>1. TransportInv => DeliveredExact
    BY DEF TransportInv, EventInv, DeliveredExact
  <1>2. QED
    BY <1>1, InvCorrect, PTL

\* The record that ends a capture is a sound Begin record at the limit.
LEMMA ConsumeAccepts ==
    ASSUME TransportInv, Consume, failed' # failed
    PROVE  OneTooMany(Head(ring).record)
  <1>1. RingInv /\ ChainInv /\ ring # <<>> /\ ring' = Tail(ring) /\ ~failed
    BY DEF TransportInv, Consume
  <1>2. Head(ring).state = "ready"
    BY DEF Consume, reassembler
  <1>3. PICK r : r = Head(ring).record
    OBVIOUS
  <1>4. r.id \in DOMAIN shape
    <2>1. 1 \in DOMAIN ring /\ Head(ring) = ring[1]
      BY <1>1, TailFacts
    <2>2. QED
      BY <1>1, <1>3, <2>1 DEF RingInv, SlotInv
  <1>5. PICK P : Linked(r.id, P)
    BY <1>1, <1>4 DEF ChainInv
  <1> DEFINE s == shape[r.id]
             a == P[0]
             b == P[1]
  <1>6. /\ r \in Records /\ s \in Shapes /\ Hears(r, s, a)
        /\ Told(s, a, r, b) /\ Absorbs(r, s, b)
    BY <1>2, <1>3, <1>5, HeadHeard
  <1> HIDE DEF s, a, b
  <1>7. r.kind = "begin" /\ Cardinality(Pending) >= MaxPending
    BY <1>6 DEF Absorbs, Fills, Closes
  <1>8. r.id \notin Pending /\ ValidMeta(r.meta)
    BY <1>6, <1>7, BeginSound
  <1>9. QED
    BY <1>3, <1>7, <1>8 DEF OneTooMany

\* push() never fails on a chunk, a descriptor, an End record or metadata of emit()
\* and never meets a record without its event, for any number of CPUs and any
\* losses: the only step that ends a capture takes a sound Begin record while
\* MAX_PENDING_EVENTS events are open.
THEOREM StreamCorrect == Spec => StreamIsAccepted
  <1>1. TransportInv /\ TransportInv' /\ [Next]_vars =>
           [/\ reassembly'.orphan_records = reassembly.orphan_records
            /\ failed' # failed => OneTooMany(Head(ring).record)]_vars
    <2> SUFFICES ASSUME TransportInv, TransportInv', [Next]_vars
                 PROVE  /\ reassembly'.orphan_records = reassembly.orphan_records
                        /\ failed' # failed => OneTooMany(Head(ring).record)
      OBVIOUS
    <2>1. reassembly.orphan_records = 0 /\ reassembly'.orphan_records = 0
      BY DEF TransportInv, StreamInv, AcceptedInv
    <2>2. ASSUME failed' # failed PROVE Consume
      <3>1. ASSUME NEW c \in Cpus, Start(c) \/ EmitStep(c) PROVE failed' = failed
        BY <3>1 DEF Start, EmitStep, Begin, IsoFrame, CopyCallback, SgStart, SgDone,
                    SgNext, SgChunk, ReadChunk, ReadChunkFails, End, reassembler
      <3>2. QED
        BY <2>2, <3>1 DEF Next, vars
    <2>3. QED
      BY <2>1, <2>2, ConsumeAccepts
  <1>2. QED
    BY <1>1, InvCorrect, PTL DEF Spec, StreamIsAccepted
=============================================================================
