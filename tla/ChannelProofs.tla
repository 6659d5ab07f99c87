---------------------------- MODULE ChannelProofs ----------------------------
(***************************************************************************)
(* Proofs that the probes, the ring and the reassembler (Transport)         *)
(* implement the event channel (EventChannel), that every loss is counted   *)
(* and that each has a cause, for any CPUs, ring, shapes and failures.      *)
(***************************************************************************)
EXTENDS TransportProofs

-----------------------------------------------------------------------------
(* The channel's state *)

Offered == [id \in DOMAIN shape |-> Image(shape[id])]
Given == {[id |-> e.id, content |-> Said(e)] : e \in delivered}
Lost == {id \in DOMAIN shape : ~Alive(id) /\ ~\E e \in delivered : e.id = id}
Refused == attempts - Len(shape)

\* Events that are lost and may still be counted again: their End record is due.
Doomed == {id \in DOMAIN shape : \E c \in Cpus : Runs(c, id) /\ cpu[c].reason # COMPLETE}

LossFields == {"ring_losses", "read_errors", "unsupported_buffers"}

StatsInv == stats \in [LossFields \cup {"sg_events"} -> Nat]

\* Each lost event has been counted once, or twice if its emit() is over.
CountInv ==
    /\ StatsInv
    /\ reassembly.complete = Cardinality(Done)
    /\ Refused + Cardinality(Lost) <= KernelLosses
    /\ KernelLosses + Cardinality(Doomed) <= Refused + 2 * Cardinality(Lost)

-----------------------------------------------------------------------------
(* The steps of the channel *)

\* An event that is neither delivered nor lost is open.
LEMMA UndecidedIsOpen ==
    ASSUME NEW id \in DOMAIN shape, id \notin Lost, id \notin Done
    PROVE  id \in Channel!Open
  <1>1. \A e \in delivered : e.id # id
    BY DEF Done
  <1>2. QED
    BY <1>1 DEF Channel!Open, Lost

\* The channel counts as the transport does.
LEMMA SameCardinality == \A S : Channel!Cardinality(S) = Cardinality(S)
  BY DEF Cardinality, Channel!Cardinality

LEMMA StutterStep ==
    ASSUME UNCHANGED <<Offered, Given, Lost, Refused, KernelLosses>>
    PROVE  UNCHANGED Channel!channel
  BY DEF Channel!channel, Offered, Given, Lost, Refused

LEMMA RefuseStep ==
    ASSUME Refused' = Refused + 1, KernelLosses' = KernelLosses + 1,
           UNCHANGED <<Offered, Given, Lost>>
    PROVE  Channel!Next
  BY DEF Channel!Next, Channel!Refuse, Offered, Given, Lost, Refused

LEMMA OfferStep ==
    ASSUME NEW s \in Shapes, Offered' = Append(Offered, Image(s)),
           UNCHANGED <<Given, Lost, Refused, KernelLosses>>
    PROVE  Channel!Next
  <1>1. Channel!Offer(Image(s))
    BY DEF Channel!Offer, Offered, Given, Lost, Refused
  <1>2. QED
    BY <1>1 DEF Channel!Next

LEMMA OfferInVainStep ==
    ASSUME NEW s \in Shapes, Offered' = Append(Offered, Image(s)),
           Lost' = Lost \cup {Len(Offered) + 1}, KernelLosses' = KernelLosses + 1,
           UNCHANGED <<Given, Refused>>
    PROVE  Channel!Next
  <1>1. Channel!OfferInVain(Image(s))
    BY DEF Channel!OfferInVain, Offered, Given, Lost, Refused
  <1>2. QED
    BY <1>1 DEF Channel!Next

LEMMA DeliverStep ==
    ASSUME NEW id \in DOMAIN shape, id \notin Lost, id \notin Done,
           Given' = Given \cup {[id |-> id, content |-> Image(shape[id])]},
           UNCHANGED <<Offered, Lost, Refused, KernelLosses>>
    PROVE  Channel!Next
  <1>1. id \in Channel!Open
    BY UndecidedIsOpen
  <1>2. Offered[id] = Image(shape[id])
    BY DEF Offered
  <1>3. Channel!Deliver(id)
    BY <1>1, <1>2 DEF Channel!Deliver, Offered, Given, Lost, Refused
  <1>4. QED
    BY <1>1, <1>3 DEF Channel!Next

LEMMA LoseStep ==
    ASSUME NEW id \in DOMAIN shape, id \notin Lost, id \notin Done,
           Lost' = Lost \cup {id}, KernelLosses' = KernelLosses + 1,
           UNCHANGED <<Offered, Given, Refused>>
    PROVE  Channel!Next
  <1>1. id \in Channel!Open
    BY UndecidedIsOpen
  <1>2. Channel!Lose(id)
    BY <1>1 DEF Channel!Lose, Offered, Given, Lost, Refused
  <1>3. QED
    BY <1>1, <1>2 DEF Channel!Next

LEMMA CountAgainStep ==
    ASSUME KernelLosses < Refused + 2 * Cardinality(Lost),
           KernelLosses' = KernelLosses + 1,
           UNCHANGED <<Offered, Given, Lost, Refused>>
    PROVE  Channel!Next
  <1>1. Channel!Cardinality(Lost) = Cardinality(Lost)
    BY SameCardinality
  <1>2. Channel!CountAgain
    BY <1>1 DEF Channel!CountAgain, Offered, Given, Lost, Refused
  <1>3. QED
    BY <1>2 DEF Channel!Next

-----------------------------------------------------------------------------
(* Counters *)

\* One loss more in the sum, whichever of its counters is raised.
LEMMA CountLemma ==
    ASSUME StatsInv
    PROVE  /\ KernelLosses \in Nat
           /\ \A f \in LossFields :
                 \/ stats' = Count(f)
                 \/ stats' = [stats EXCEPT !["sg_events"] = @ + 1, ![f] = @ + 1]
                 => StatsInv' /\ KernelLosses' = KernelLosses + 1
           /\ stats' = stats \/ stats' = Count("sg_events") =>
                 StatsInv' /\ KernelLosses' = KernelLosses
  <1>1. /\ stats.ring_losses \in Nat /\ stats.read_errors \in Nat
        /\ stats.unsupported_buffers \in Nat /\ stats.sg_events \in Nat
        /\ DOMAIN stats = LossFields \cup {"sg_events"}
    BY DEF StatsInv, LossFields
  <1>2. ASSUME NEW f \in LossFields,
               \/ stats' = Count(f)
               \/ stats' = [stats EXCEPT !["sg_events"] = @ + 1, ![f] = @ + 1]
        PROVE  StatsInv' /\ KernelLosses' = KernelLosses + 1
    <2>1. CASE stats' = Count(f)
      <3>1. StatsInv'
        BY <1>1, <2>1 DEF StatsInv, LossFields, Count
      <3>2. KernelLosses' = KernelLosses + 1
        BY <1>1, <2>1 DEF KernelLosses, LossFields, Count
      <3>3. QED
        BY <3>1, <3>2
    <2>2. CASE stats' = [stats EXCEPT !["sg_events"] = @ + 1, ![f] = @ + 1]
      <3>1. StatsInv'
        BY <1>1, <2>2 DEF StatsInv, LossFields
      <3>2. KernelLosses' = KernelLosses + 1
        BY <1>1, <2>2 DEF KernelLosses, LossFields
      <3>3. QED
        BY <3>1, <3>2
    <2>3. QED
      BY <1>2, <2>1, <2>2
  <1>3. ASSUME stats' = stats \/ stats' = Count("sg_events")
        PROVE  StatsInv' /\ KernelLosses' = KernelLosses
    <2>1. StatsInv'
      BY <1>1, <1>3 DEF StatsInv, LossFields, Count
    <2>2. KernelLosses' = KernelLosses
      BY <1>1, <1>3 DEF KernelLosses, LossFields, Count
    <2>3. QED
      BY <2>1, <2>2
  <1>4. QED
    BY <1>1, <1>2, <1>3 DEF KernelLosses

-----------------------------------------------------------------------------
(* What a step of an emit() means for its event *)

\* No End record enters the ring.
Quiet(c) ==
    \/ ring' = ring
    \/ \E state, rec : ring' = Append(ring, Slot(state, c, rec)) /\ rec.kind # "end"
    \/ \E state \in {"ready", "discarded"} : Settle(c, state)

\* Nothing is lost, and the emit() runs on.
GoesOn(c) ==
    /\ Quiet(c) /\ KernelLosses' = KernelLosses
    /\ cpu'[c] # Idle /\ cpu'[c].reason = cpu[c].reason

\* The event is spoilt, and counted; its End record, which says so, is due.
Spoils(c) ==
    /\ Quiet(c) /\ KernelLosses' = KernelLosses + 1
    /\ cpu[c].reason = COMPLETE /\ cpu'[c] # Idle /\ cpu'[c].reason # COMPLETE

\* The emit() returns for want of room in the ring, and counts that.
GivesUp(c) ==
    Quiet(c) /\ KernelLosses' = KernelLosses + 1 /\ cpu'[c] = Idle

\* The End record is out.
Finishes(c) ==
    /\ KernelLosses' = KernelLosses /\ cpu'[c] = Idle
    /\ \E rec : /\ ring' = Append(ring, Slot("ready", c, rec))
                /\ rec.kind = "end" /\ rec.id = cpu[c].id /\ rec.reason = cpu[c].reason

Fate(c) == StatsInv' /\ (GoesOn(c) \/ Spoils(c) \/ GivesUp(c) \/ Finishes(c))

LEMMA GoingOn ==
    ASSUME StatsInv, NEW c \in Cpus, Quiet(c), stats' = stats \/ stats' = Count("sg_events"),
           cpu'[c].pc # "idle", cpu'[c].reason = cpu[c].reason
    PROVE  Fate(c)
  <1>1. cpu'[c] # Idle
    BY DEF Idle
  <1>2. StatsInv' /\ KernelLosses' = KernelLosses
    BY CountLemma
  <1>3. QED
    BY <1>1, <1>2 DEF Fate, GoesOn

\* A step that ends the copying with a loss counts it in one of the counters.
LEMMA Spoiling ==
    ASSUME ShapeInv, CpuInv, StatsInv, NEW c \in Cpus, Quiet(c),
           cpu[c].pc \notin {"idle", "end"},
           NEW R \in {LOSS_RING, LOSS_READ, LOSS_UNSUPPORTED_BUFFER}, NEW n,
           \/ cpu' = [cpu EXCEPT ![c].pc = "end", ![c].reason = R]
           \/ cpu' = [cpu EXCEPT ![c].pc = "end", ![c].reason = R, ![c].copied = @ + n],
           NEW f \in LossFields,
           \/ stats' = Count(f)
           \/ stats' = [stats EXCEPT !["sg_events"] = @ + 1, ![f] = @ + 1]
    PROVE  Fate(c)
  <1>1. /\ ContextOK(cpu[c], shape[cpu[c].id]) /\ DOMAIN cpu = Cpus
        /\ DOMAIN cpu[c] = ContextFields
    BY Running DEF ContextOK, ContextTypes
  <1>2. cpu[c].reason = COMPLETE
    BY <1>1 DEF ContextOK
  <1>3. cpu'[c].pc = "end" /\ cpu'[c].reason = R
    BY <1>1 DEF ContextFields
  <1>4. cpu'[c] # Idle /\ cpu'[c].reason # COMPLETE
    BY <1>3 DEF Idle, COMPLETE, LOSS_RING, LOSS_READ, LOSS_UNSUPPORTED_BUFFER
  <1>5. StatsInv' /\ KernelLosses' = KernelLosses + 1
    BY CountLemma
  <1>6. QED
    BY <1>2, <1>4, <1>5 DEF Fate, Spoils

LEMMA BeginFate ==
    ASSUME ShapeInv, CpuInv, StatsInv, NEW c \in Cpus, Begin(c)
    PROVE  Fate(c)
  <1> DEFINE s == shape[cpu[c].id]
             rec == [kind |-> "begin", id |-> cpu[c].id, meta |-> MetaOf(s)]
  <1>1. /\ cpu[c].pc = "begin" /\ s \in Shapes /\ DOMAIN cpu = Cpus
        /\ DOMAIN cpu[c] = ContextFields
    BY Running DEF Begin, ContextOK, ContextTypes
  <1>2. CASE ~Fits(rec)
    <2>1. stats' = Count("ring_losses") /\ cpu' = [cpu EXCEPT ![c] = Idle] /\ ring' = ring
      BY <1>2 DEF Begin, BeginLost, ShapeOn
    <2>2. StatsInv' /\ KernelLosses' = KernelLosses + 1
      BY <2>1, CountLemma DEF LossFields
    <2>3. QED
      BY <1>1, <2>1, <2>2 DEF Fate, GivesUp, Quiet
  <1>3. CASE Fits(rec)
    <2>1. ring' = Append(ring, Slot("ready", c, rec)) /\ rec.kind = "begin"
      BY <1>3 DEF Begin, Publish, ShapeOn
    <2>2. Quiet(c)
      BY <2>1 DEF Quiet
    <2>3. CASE Route(s) = "unsupported"
      <3>1. /\ stats' = Count("unsupported_buffers")
            /\ cpu' = [cpu EXCEPT ![c].pc = "end", ![c].reason = LOSS_UNSUPPORTED_BUFFER]
        BY <1>3, <2>3 DEF Begin, ShapeOn
      <3>2. QED
        BY <1>1, <2>2, <3>1, Spoiling DEF LossFields
    <2>4. CASE Route(s) = "too_long"
      <3>1. /\ stats' = Count("read_errors")
            /\ cpu' = [cpu EXCEPT ![c].pc = "end", ![c].reason = LOSS_READ]
        BY <1>3, <2>4 DEF Begin, ShapeOn
      <3>2. QED
        BY <1>1, <2>2, <3>1, Spoiling DEF LossFields
    <2>5. CASE Route(s) \in {"iso", "end", "sg_start", "copy"}
      <3>1. stats' = stats /\ cpu' = [cpu EXCEPT ![c].pc = Route(s)]
        BY <1>3, <2>5 DEF Begin, ShapeOn
      <3>2. cpu'[c].pc # "idle" /\ cpu'[c].reason = cpu[c].reason
        BY <1>1, <2>5, <3>1 DEF ContextFields
      <3>3. QED
        BY <2>2, <3>1, <3>2, GoingOn
    <2>6. QED
      BY <1>1, <2>3, <2>4, <2>5, ShapeTypes DEF Route
  <1>4. QED
    BY <1>2, <1>3

LEMMA IsoFate ==
    ASSUME ShapeInv, CpuInv, StatsInv, NEW c \in Cpus, IsoFrame(c)
    PROVE  Fate(c)
  <1> DEFINE s == shape[cpu[c].id]
             i == cpu[c].descriptors
             d == Descriptor(s, i + 1)
             rec == [kind |-> "iso", id |-> cpu[c].id, offset |-> i, descriptor |-> d]
  <1>1. /\ cpu[c].pc = "iso" /\ DOMAIN cpu = Cpus /\ DOMAIN cpu[c] = ContextFields
    BY Running DEF IsoFrame, ContextOK, ContextTypes
  <1>2. CASE cpu' = [cpu EXCEPT ![c].pc = "end"] /\ ring' = ring /\ stats' = stats
    <2>1. cpu'[c].pc # "idle" /\ cpu'[c].reason = cpu[c].reason
      BY <1>1, <1>2 DEF ContextFields
    <2>2. QED
      BY <1>2, <2>1, GoingOn DEF Quiet
  <1>3. ASSUME NEW R \in {LOSS_RING, LOSS_READ}, NEW f \in LossFields, ring' = ring,
               cpu' = [cpu EXCEPT ![c].pc = "end", ![c].reason = R], stats' = Count(f)
        PROVE  Fate(c)
    BY <1>1, <1>3, Spoiling DEF Quiet
  <1>4. CASE /\ Publish(c, rec) /\ stats' = stats
             /\ cpu' = IF DataPhase(s) /\ d.length # 0
                       THEN [cpu EXCEPT ![c] = FrameCopy(@, d)]
                       ELSE [cpu EXCEPT ![c].descriptors = i + 1]
    <2>1. rec.kind = "iso"
      OBVIOUS
    <2>2. Quiet(c)
      BY <1>4, <2>1 DEF Quiet, Publish
    <2>3. cpu'[c].pc # "idle" /\ cpu'[c].reason = cpu[c].reason
      BY <1>1, <1>4 DEF ContextFields, FrameCopy
    <2>4. QED
      BY <1>4, <2>2, <2>3, GoingOn
  <1>5. CASE /\ Publish(c, rec) /\ stats' = Count("read_errors")
             /\ cpu' = [cpu EXCEPT ![c].descriptors = i + 1,
                           ![c].pc = "end", ![c].reason = LOSS_READ]
    <2>1. Quiet(c)
      BY <1>5 DEF Quiet, Publish
    <2>2. cpu[c].reason = COMPLETE
      BY <1>1, Running DEF ContextOK
    <2>3. cpu'[c].pc = "end" /\ cpu'[c].reason = LOSS_READ
      BY <1>1, <1>5 DEF ContextFields
    <2>4. cpu'[c] # Idle /\ cpu'[c].reason # COMPLETE
      BY <2>3 DEF Idle, COMPLETE, LOSS_READ
    <2>5. StatsInv' /\ KernelLosses' = KernelLosses + 1
      BY <1>5, CountLemma DEF LossFields
    <2>6. QED
      BY <2>1, <2>2, <2>4, <2>5 DEF Fate, Spoils
  <1>6. QED
    BY <1>2, <1>3, <1>4, <1>5 DEF IsoFrame, ShapeOn, LossFields

LEMMA CopyFate ==
    ASSUME ShapeInv, CpuInv, StatsInv, NEW c \in Cpus, CopyCallback(c)
    PROVE  Fate(c)
  <1> DEFINE x == cpu[c]
             offset == x.index * CHUNK_SIZE
             length == Min({x.total - offset, CHUNK_SIZE})
             rec == [kind |-> "data", id |-> x.id, offset |-> x.destination + offset,
                     body |-> [j \in 1 .. length |-> x.source + offset + j - 1]]
  <1>1. x.pc = "copy" /\ DOMAIN cpu = Cpus /\ DOMAIN x = ContextFields
    BY Running DEF CopyCallback, ContextOK, ContextTypes
  <1>2. CASE offset >= x.total
    <2>1. /\ cpu' = [cpu EXCEPT ![c].copied = @ + x.done, ![c].done = 0,
                        ![c].pc = IF ShapeOn(c).iso THEN "iso" ELSE "end"]
          /\ ring' = ring /\ stats' = stats
      BY <1>2 DEF CopyCallback
    <2>2. cpu'[c].pc # "idle" /\ cpu'[c].reason = x.reason
      BY <1>1, <2>1 DEF ContextFields
    <2>3. QED
      BY <2>1, <2>2, GoingOn DEF Quiet
  <1>3. CASE ~(offset >= x.total)
    <2>1. ReserveChunk(c, offset, length)
      BY <1>3 DEF CopyCallback
    <2>2. rec.kind = "data"
      OBVIOUS
    <2>3. CASE Fits(rec)
      <3>1. /\ ring' = Append(ring, Slot("busy", c, rec)) /\ stats' = stats
            /\ cpu' = [cpu EXCEPT ![c].pc = "read", ![c].length = length]
        BY <2>1, <2>3 DEF ReserveChunk
      <3> HIDE DEF rec, length
      <3>2. cpu'[c].pc # "idle" /\ cpu'[c].reason = x.reason
        BY <1>1, <3>1 DEF ContextFields
      <3>3. Quiet(c)
        BY <2>2, <3>1 DEF Quiet
      <3>4. QED
        BY <3>1, <3>2, <3>3, GoingOn
    <2>4. CASE ~Fits(rec)
      <3>1. /\ stats' = Count("ring_losses") /\ ring' = ring
            /\ cpu' = [cpu EXCEPT ![c].pc = "end", ![c].reason = LOSS_RING,
                          ![c].copied = @ + x.done]
        BY <2>1, <2>4 DEF ReserveChunk
      <3>2. QED
        BY <1>1, <3>1, Spoiling DEF Quiet, LossFields
    <2>5. QED
      BY <2>3, <2>4
  <1>4. QED
    BY <1>2, <1>3

LEMMA SgStartFate ==
    ASSUME ShapeInv, CpuInv, StatsInv, NEW c \in Cpus, SgStart(c)
    PROVE  Fate(c)
  <1>1. /\ cpu[c].pc = "sg_start" /\ DOMAIN cpu = Cpus /\ DOMAIN cpu[c] = ContextFields
        /\ ring' = ring
    BY Running DEF SgStart, ContextOK, ContextTypes
  <1>2. ASSUME NEW R \in {LOSS_READ, LOSS_UNSUPPORTED_BUFFER}, NEW f \in LossFields,
               cpu' = [cpu EXCEPT ![c].pc = "end", ![c].reason = R],
               stats' = [stats EXCEPT !["sg_events"] = @ + 1, ![f] = @ + 1]
        PROVE  Fate(c)
    BY <1>1, <1>2, Spoiling DEF Quiet
  <1>3. CASE cpu' = [cpu EXCEPT ![c].pc = "sg"] /\ stats' = Count("sg_events")
    <2>1. cpu'[c].pc # "idle" /\ cpu'[c].reason = cpu[c].reason
      BY <1>1, <1>3 DEF ContextFields
    <2>2. QED
      BY <1>1, <1>3, <2>1, GoingOn DEF Quiet
  <1>4. QED
    BY <1>2, <1>3 DEF SgStart, LossFields

LEMMA SgDoneFate ==
    ASSUME ShapeInv, CpuInv, StatsInv, NEW c \in Cpus, SgDone(c)
    PROVE  Fate(c)
  <1>1. /\ cpu[c].pc = "sg" /\ DOMAIN cpu = Cpus /\ DOMAIN cpu[c] = ContextFields
        /\ ring' = ring
    BY Running DEF SgDone, ContextOK, ContextTypes
  <1>2. CASE cpu[c].remaining # 0
    <2>1. /\ cpu' = [cpu EXCEPT ![c].pc = "end", ![c].reason = LOSS_READ]
          /\ stats' = Count("read_errors")
      BY <1>2 DEF SgDone
    <2>2. QED
      BY <1>1, <2>1, Spoiling DEF Quiet, LossFields
  <1>3. CASE cpu[c].remaining = 0
    <2>1. cpu' = [cpu EXCEPT ![c].pc = "end"] /\ stats' = stats
      BY <1>3 DEF SgDone
    <2>2. cpu'[c].pc # "idle" /\ cpu'[c].reason = cpu[c].reason
      BY <1>1, <2>1 DEF ContextFields
    <2>3. QED
      BY <1>1, <2>1, <2>2, GoingOn DEF Quiet
  <1>4. QED
    BY <1>2, <1>3

LEMMA SgNextFate ==
    ASSUME ShapeInv, CpuInv, StatsInv, NEW c \in Cpus, SgNext(c)
    PROVE  Fate(c)
  <1> DEFINE x == cpu[c]
             s == shape[x.id]
             left == Min({s.sg[x.next].length, x.remaining})
  <1>1. /\ x.pc = "sg" /\ DOMAIN cpu = Cpus /\ DOMAIN x = ContextFields /\ ring' = ring
    BY Running DEF SgNext, ContextOK, ContextTypes
  <1>2. CASE stats' = Count("read_errors")
             /\ cpu' = [cpu EXCEPT ![c].pc = "end", ![c].reason = LOSS_READ]
    BY <1>1, <1>2, Spoiling DEF Quiet, LossFields
  <1>3. CASE /\ stats' = stats
             /\ cpu' = [cpu EXCEPT
                        ![c].next = SgSuccessor(s, @),
                        ![c].segments_left = @ - 1,
                        ![c].segment_left = left,
                        ![c].source = s.sg[x.next].start,
                        ![c].pc = IF left = 0 THEN "sg" ELSE "sg_chunk",
                        ![c].iteration = IF left = 0 THEN @ + 1 ELSE @]
    <2> HIDE DEF left, s
    <2>1. cpu'[c].pc # "idle" /\ cpu'[c].reason = x.reason
      BY <1>1, <1>3 DEF ContextFields
    <2>2. QED
      BY <1>1, <1>3, <2>1, GoingOn DEF Quiet
  <1>4. QED
    BY <1>2, <1>3 DEF SgNext, ShapeOn

LEMMA SgChunkFate ==
    ASSUME ShapeInv, CpuInv, StatsInv, NEW c \in Cpus, SgChunk(c)
    PROVE  Fate(c)
  <1> DEFINE x == cpu[c]
             length == Min({x.segment_left, CHUNK_SIZE})
             rec == [kind |-> "data", id |-> x.id, offset |-> x.copied,
                     body |-> [j \in 1 .. length |-> x.source + j - 1]]
  <1>1. x.pc \in {"sg", "sg_chunk"} /\ DOMAIN cpu = Cpus /\ DOMAIN x = ContextFields
    BY Running DEF SgChunk, ContextOK, ContextTypes
  <1>2. rec.kind = "data"
    OBVIOUS
  <1>3. CASE Fits(rec)
    <2>1. /\ ring' = Append(ring, Slot("busy", c, rec)) /\ stats' = stats
          /\ cpu' = [cpu EXCEPT ![c].pc = "sg_read", ![c].length = length]
      BY <1>3 DEF SgChunk
    <2> HIDE DEF rec, length
    <2>2. cpu'[c].pc # "idle" /\ cpu'[c].reason = x.reason
      BY <1>1, <2>1 DEF ContextFields
    <2>3. Quiet(c)
      BY <1>2, <2>1 DEF Quiet
    <2>4. QED
      BY <2>1, <2>2, <2>3, GoingOn
  <1>4. CASE ~Fits(rec)
    <2>1. /\ stats' = Count("ring_losses") /\ ring' = ring
          /\ cpu' = [cpu EXCEPT ![c].pc = "end", ![c].reason = LOSS_RING]
      BY <1>4 DEF SgChunk
    <2>2. QED
      BY <1>1, <2>1, Spoiling DEF Quiet, LossFields
  <1>5. QED
    BY <1>3, <1>4

LEMMA ReadFate ==
    ASSUME ShapeInv, CpuInv, StatsInv, NEW c \in Cpus, ReadChunk(c)
    PROVE  Fate(c)
  <1> DEFINE x == cpu[c]
  <1>1. /\ x.pc \in {"read", "sg_read"} /\ DOMAIN cpu = Cpus /\ DOMAIN x = ContextFields
        /\ stats' = stats
    BY Running DEF ReadChunk, ContextOK, ContextTypes
  <1>2. Quiet(c)
    BY DEF ReadChunk, Quiet
  <1>3. \/ cpu' = [cpu EXCEPT ![c].pc = "copy", ![c].done = @ + x.length, ![c].index = @ + 1]
        \/ cpu' = [cpu EXCEPT ![c].pc = "sg", ![c].copied = @ + x.length,
                      ![c].source = @ + x.length, ![c].segment_left = @ - x.length,
                      ![c].remaining = @ - x.length, ![c].iteration = @ + 1]
    BY DEF ReadChunk
  <1>4. cpu'[c].pc # "idle" /\ cpu'[c].reason = x.reason
    BY <1>1, <1>3 DEF ContextFields
  <1>5. QED
    BY <1>1, <1>2, <1>4, GoingOn

LEMMA ReadFailsFate ==
    ASSUME ShapeInv, CpuInv, StatsInv, NEW c \in Cpus, ReadChunkFails(c)
    PROVE  Fate(c)
  <1>1. cpu[c].pc \in {"read", "sg_read"} /\ stats' = Count("read_errors")
    BY DEF ReadChunkFails
  <1>2. Quiet(c)
    BY DEF ReadChunkFails, DiscardChunk, Quiet
  <1>3. cpu' = [cpu EXCEPT ![c].pc = "end", ![c].reason = LOSS_READ,
                   ![c].copied = @ + cpu[c].done]
    BY DEF ReadChunkFails
  <1>4. QED
    BY <1>1, <1>2, <1>3, Spoiling DEF LossFields

LEMMA EndFate ==
    ASSUME ShapeInv, CpuInv, StatsInv, NEW c \in Cpus, End(c)
    PROVE  Fate(c)
  <1> DEFINE x == cpu[c]
             rec == [kind |-> "end", id |-> x.id, copied |-> x.copied,
                     descriptors |-> x.descriptors, reason |-> x.reason]
  <1>1. x.pc = "end" /\ cpu' = [cpu EXCEPT ![c] = Idle]
    BY DEF End
  <1>2. cpu'[c] = Idle
    BY <1>1 DEF CpuInv
  <1>3. CASE Fits(rec)
    <2>1. ring' = Append(ring, Slot("ready", c, rec)) /\ stats' = stats
      BY <1>3 DEF End, Publish
    <2>2. rec.kind = "end" /\ rec.id = x.id /\ rec.reason = x.reason
      OBVIOUS
    <2>3. StatsInv' /\ KernelLosses' = KernelLosses
      BY <2>1, CountLemma
    <2> HIDE DEF rec
    <2>4. QED
      BY <1>2, <2>1, <2>2, <2>3 DEF Fate, Finishes
  <1>4. CASE ~Fits(rec)
    <2>1. ring' = ring /\ stats' = Count("ring_losses")
      BY <1>4 DEF End, EndLost
    <2>2. StatsInv' /\ KernelLosses' = KernelLosses + 1
      BY <2>1, CountLemma DEF LossFields
    <2>3. QED
      BY <1>2, <2>1, <2>2 DEF Fate, GivesUp, Quiet
  <1>5. QED
    BY <1>3, <1>4

\* Every step of an emit().
LEMMA EmitFate ==
    ASSUME ShapeInv, CpuInv, StatsInv, NEW c \in Cpus, EmitStep(c)
    PROVE  Fate(c)
  BY BeginFate, IsoFate, CopyFate, SgStartFate, SgDoneFate, SgNextFate, SgChunkFate,
     ReadFate, ReadFailsFate, EndFate DEF EmitStep

-----------------------------------------------------------------------------
(* Which events are alive *)

\* A complete End record of the event is in the ring.
Ended(id) ==
    \E i \in DOMAIN ring : /\ ring[i].record.kind = "end" /\ ring[i].record.id = id
                           /\ ring[i].record.reason = COMPLETE

Sound(id) == \E c \in Cpus : Runs(c, id) /\ cpu[c].reason = COMPLETE

LEMMA AliveLemma == \A id : Alive(id) <=> Sound(id) \/ Ended(id)
  BY DEF Alive, Sound, Ended, Runs

LEMMA LostLemma ==
    /\ Lost \subseteq DOMAIN shape /\ Doomed \subseteq DOMAIN shape
    /\ \A id : id \in Lost <=> id \in DOMAIN shape /\ ~Sound(id) /\ ~Ended(id) /\ id \notin Done
    /\ \A id : id \in Doomed <=>
          id \in DOMAIN shape /\ \E c \in Cpus : Runs(c, id) /\ cpu[c].reason # COMPLETE
  BY AliveLemma DEF Lost, Doomed, Done

\* While an emit() runs, its event has not ended, in the ring or behind it.
LEMMA OwnEvent ==
    ASSUME TransportInv, NEW c \in Cpus, cpu[c] # Idle
    PROVE  /\ cpu[c].id \in DOMAIN shape /\ ~Ended(cpu[c].id) /\ cpu[c].id \notin Done
           /\ \A d \in Cpus : Runs(d, cpu[c].id) <=> d = c
  <1> DEFINE id == cpu[c].id
  <1>1. ShapeInv /\ CpuInv /\ RingInv /\ ChainInv
    BY DEF TransportInv
  <1>2. id \in DOMAIN shape /\ \A d \in Cpus : Runs(d, id) <=> d = c
    BY <1>1 DEF CpuInv, Runs
  <1>3. PICK P : Linked(id, P)
    BY <1>1, <1>2 DEF ChainInv
  <1>4. PICK n \in Nat : n = Len(ring)
    BY <1>1 DEF RingInv
  <1>5. /\ \A i \in 1 .. n : Link(id, shape[id], P[i - 1], ring[i], P[i])
        /\ \A i, j \in 0 .. n : i <= j /\ P[i].stage = "closed" => P[j].stage = "closed"
    BY <1>1, <1>3, <1>4, LinkedFacts
  <1>6. Agrees(P[n], cpu[c])
    BY <1>2, <1>3, <1>4 DEF Linked
  <1>7. P[n].stage # "closed"
    BY <1>6 DEF Agrees, New, Stage
  <1>8. id \notin Done
    <2>1. id \in Done => P[0].stage = "closed"
      BY <1>3 DEF Linked
    <2>2. QED
      BY <1>4, <1>5, <1>7, <2>1
  <1>9. ~Ended(id)
    <2>1. SUFFICES ASSUME NEW i \in DOMAIN ring, ring[i].record.kind = "end",
                          ring[i].record.id = id
                   PROVE  FALSE
      BY DEF Ended
    <2>2. i \in 1 .. n /\ SlotInv(ring[i])
      BY <1>1, <1>4 DEF RingInv
    <2>3. ring[i].state # "discarded"
      BY <2>1, <2>2 DEF SlotInv
    <2>4. Told(shape[id], P[i - 1], ring[i].record, P[i])
      BY <1>5, <2>1, <2>2, <2>3 DEF Link
    <2>5. P[i].stage = "closed"
      BY <2>1, <2>4 DEF Told
    <2>6. QED
      BY <1>4, <1>5, <1>7, <2>2, <2>5
  <1>10. QED
    BY <1>2, <1>8, <1>9

\* Only an End record says of an event that it ended.
LEMMA QuietLemma ==
    ASSUME RingInv, NEW c \in Cpus, Quiet(c)
    PROVE  \A id : Ended(id)' <=> Ended(id)
  <1>1. CASE ring' = ring
    BY <1>1 DEF Ended
  <1>2. CASE \E state, rec : ring' = Append(ring, Slot(state, c, rec)) /\ rec.kind # "end"
    <2>1. PICK state, rec : ring' = Append(ring, Slot(state, c, rec)) /\ rec.kind # "end"
      BY <1>2
    <2> DEFINE slot == Slot(state, c, rec)
    <2>2. slot.record = rec /\ ring' = Append(ring, slot)
      BY <2>1 DEF Slot
    <2> HIDE DEF slot
    <2>3. /\ Len(ring) \in Nat /\ DOMAIN ring = 1 .. Len(ring)
          /\ DOMAIN ring' = 1 .. (Len(ring) + 1)
          /\ (\A i \in 1 .. Len(ring) : ring'[i] = ring[i]) /\ ring'[Len(ring) + 1] = slot
      BY <2>2, AppendFacts
    <2>4. QED
      BY <2>1, <2>2, <2>3 DEF Ended
  <1>3. CASE \E state \in {"ready", "discarded"} : Settle(c, state)
    <2>1. PICK state \in {"ready", "discarded"} : Settle(c, state)
      BY <1>3
    <2>2. /\ DOMAIN ring = 1 .. Len(ring) /\ DOMAIN ring' = 1 .. Len(ring)
          /\ \A i \in 1 .. Len(ring) : ring'[i].record = ring[i].record
      BY <2>1, SettleFacts
    <2>3. QED
      BY <2>2 DEF Ended
  <1>4. QED
    BY <1>1, <1>2, <1>3 DEF Quiet

LEMMA FinishLemma ==
    ASSUME RingInv, NEW c, NEW rec, ring' = Append(ring, Slot("ready", c, rec)),
           rec.kind = "end"
    PROVE  \A id : Ended(id)' <=> Ended(id) \/ (id = rec.id /\ rec.reason = COMPLETE)
  <1> DEFINE slot == Slot("ready", c, rec)
  <1>1. slot.record = rec /\ ring' = Append(ring, slot)
    BY DEF Slot
  <1> HIDE DEF slot
  <1>2. /\ Len(ring) \in Nat /\ DOMAIN ring = 1 .. Len(ring)
        /\ DOMAIN ring' = 1 .. (Len(ring) + 1)
        /\ (\A i \in 1 .. Len(ring) : ring'[i] = ring[i]) /\ ring'[Len(ring) + 1] = slot
    BY <1>1, AppendFacts
  <1>3. QED
    BY <1>1, <1>2 DEF Ended

\* A step of an emit() decides nothing about the events of others.
LEMMA OneEvent ==
    ASSUME TransportInv, NEW c \in Cpus, Effect(c), NEW own, own = cpu[c].id
    PROVE  /\ shape' = shape /\ attempts' = attempts /\ delivered' = delivered
           /\ reassembly' = reassembly /\ Done' = Done /\ cpu[c] # Idle
           /\ \A id : id # own =>
                 /\ Sound(id)' <=> Sound(id)
                 /\ id \in Doomed' <=> id \in Doomed
           /\ \A d \in Cpus : Runs(d, own)' <=> d = c /\ cpu'[c] # Idle
  <1>1. /\ \A d \in Cpus : d # c => cpu'[d] = cpu[d]
        /\ cpu[c] # Idle /\ (cpu'[c] # Idle => cpu'[c].id = own)
        /\ shape' = shape /\ attempts' = attempts /\ delivered' = delivered
        /\ reassembly' = reassembly
    BY DEF Effect, Follows, reassembler
  <1>2. Done' = Done
    BY <1>1 DEF Done
  <1>3. \A d \in Cpus : Runs(d, own) <=> d = c
    BY <1>1, OwnEvent
  <1>4. ASSUME NEW id, id # own, NEW d \in Cpus
        PROVE  /\ Runs(d, id)' <=> Runs(d, id)
               /\ Runs(d, id) => cpu'[d] = cpu[d]
    BY <1>1, <1>4 DEF Runs
  <1>5. ASSUME NEW d \in Cpus
        PROVE  Runs(d, own)' <=> d = c /\ cpu'[c] # Idle
    <2>1. CASE d = c
      BY <1>1, <2>1 DEF Runs
    <2>2. CASE d # c
      BY <1>1, <1>3, <2>2 DEF Runs
    <2>3. QED
      BY <2>1, <2>2
  <1>6. ASSUME NEW id, id # own PROVE Sound(id)' <=> Sound(id)
    BY <1>4, <1>6 DEF Sound
  <1>7. ASSUME NEW id, id # own PROVE id \in Doomed' <=> id \in Doomed
    BY <1>1, <1>4, <1>7 DEF Doomed
  <1>8. QED
    BY <1>1, <1>2, <1>5, <1>6, <1>7

\* The sets that the channel is made of are finite.
LEMMA FiniteLemma ==
    ASSUME TransportInv
    PROVE  /\ Len(shape) \in Nat /\ DOMAIN shape = 1 .. Len(shape) /\ Refused \in Nat
           /\ IsFiniteSet(Lost) /\ IsFiniteSet(Doomed) /\ IsFiniteSet(Done)
           /\ Cardinality(Lost) \in Nat /\ Cardinality(Doomed) \in Nat
           /\ Done \subseteq DOMAIN shape
  <1>1. ShapeInv /\ EventInv
    BY DEF TransportInv
  <1>2. /\ Len(shape) \in Nat /\ DOMAIN shape = 1 .. Len(shape) /\ attempts \in Nat
        /\ Len(shape) <= attempts
    BY <1>1 DEF ShapeInv
  <1>3. Done \subseteq DOMAIN shape
    BY <1>1 DEF EventInv, Done
  <1>4. IsFiniteSet(DOMAIN shape)
    BY <1>2, FS_Interval
  <1>5. IsFiniteSet(Lost) /\ IsFiniteSet(Doomed) /\ IsFiniteSet(Done)
    BY <1>3, <1>4, FS_Subset, LostLemma
  <1>6. Cardinality(Lost) \in Nat /\ Cardinality(Doomed) \in Nat
    BY <1>5, FS_CardinalityType
  <1>7. QED
    BY <1>2, <1>3, <1>5, <1>6 DEF Refused

-----------------------------------------------------------------------------
(* Every step of an emit() is a step of the channel *)

Refines == CountInv' /\ [Channel!Next]_(Channel!channel)

LEMMA EmitRefines ==
    ASSUME TransportInv, CountInv, NEW c \in Cpus, EmitStep(c)
    PROVE  Refines
  <1> DEFINE x == cpu[c]
             y == cpu'[c]
  <1>1. ShapeInv /\ CpuInv /\ RingInv /\ StatsInv
    BY DEF TransportInv, CountInv
  <1>2. Effect(c) /\ Fate(c)
    BY <1>1, EmitEffect, EmitFate
  <1> PICK own : own = x.id
    OBVIOUS
  <1>3. /\ shape' = shape /\ attempts' = attempts /\ delivered' = delivered
        /\ reassembly' = reassembly /\ Done' = Done
        /\ x # Idle /\ \A d \in Cpus : Runs(d, own)' <=> d = c /\ y # Idle
    BY <1>2, OneEvent
  <1>4. \A id : id # own => (Sound(id)' <=> Sound(id)) /\ (id \in Doomed' <=> id \in Doomed)
    BY <1>2, OneEvent
  <1>5. /\ own \in DOMAIN shape /\ ~Ended(own) /\ own \notin Done
        /\ \A d \in Cpus : Runs(d, own) <=> d = c
    BY <1>3, OwnEvent
  <1>6. /\ Sound(own) <=> x.reason = COMPLETE
        /\ Sound(own)' <=> y # Idle /\ y.reason = COMPLETE
        /\ own \in Doomed <=> x.reason # COMPLETE
        /\ own \in Doomed' <=> y # Idle /\ y.reason # COMPLETE
    BY <1>3, <1>5 DEF Sound, Doomed
  <1>7. own \in Lost <=> x.reason # COMPLETE
    BY <1>5, <1>6, LostLemma
  <1>8. Offered' = Offered /\ Given' = Given /\ Refused' = Refused
    BY <1>3 DEF Offered, Given, Refused, Said
  <1>9. /\ IsFiniteSet(Lost) /\ IsFiniteSet(Doomed) /\ Refused \in Nat /\ KernelLosses \in Nat
        /\ Cardinality(Lost) \in Nat /\ Cardinality(Doomed) \in Nat
    BY <1>1, FiniteLemma, CountLemma
  <1>10. ASSUME NEW L, NEW D, Lost' = L, Doomed' = D, StatsInv',
                Refused + Cardinality(L) <= KernelLosses',
                KernelLosses' + Cardinality(D) <= Refused + 2 * Cardinality(L)
         PROVE  CountInv'
    BY <1>3, <1>8, <1>10 DEF CountInv
  <1>11. /\ reassembly.complete = Cardinality(Done)
         /\ Refused + Cardinality(Lost) <= KernelLosses
         /\ KernelLosses + Cardinality(Doomed) <= Refused + 2 * Cardinality(Lost)
    BY DEF CountInv
  <1>12. \A id : id \in Lost' <=>
            id \in DOMAIN shape /\ ~Sound(id)' /\ ~Ended(id)' /\ id \notin Done
    BY <1>3 DEF Lost, Done, Alive, Sound, Ended, Runs
  <1>13. ASSUME Quiet(c)
         PROVE  \A id : id # own => (id \in Lost' <=> id \in Lost)
    BY <1>1, <1>4, <1>12, <1>13, QuietLemma, LostLemma
  <1>14. CASE GoesOn(c)
    <2>1. /\ Quiet(c) /\ KernelLosses' = KernelLosses /\ y # Idle /\ y.reason = x.reason
          /\ StatsInv'
      BY <1>2, <1>14 DEF GoesOn, Fate
    <2>2. ~Ended(own)'
      BY <1>1, <1>5, <2>1, QuietLemma
    <2>3. own \in Lost' <=> own \in Lost
      BY <1>5, <1>6, <1>7, <1>12, <2>1, <2>2
    <2>4. Lost' = Lost
      BY <1>13, <2>1, <2>3
    <2>5. Doomed' = Doomed
      BY <1>4, <1>6, <2>1
    <2>6. UNCHANGED Channel!channel
      BY <1>8, <2>1, <2>4, StutterStep
    <2>7. CountInv'
      BY <1>10, <1>11, <2>1, <2>4, <2>5
    <2>8. QED
      BY <2>6, <2>7 DEF Refines
  <1>15. CASE Spoils(c)
    <2>1. /\ Quiet(c) /\ KernelLosses' = KernelLosses + 1 /\ x.reason = COMPLETE
          /\ y # Idle /\ y.reason # COMPLETE /\ StatsInv'
      BY <1>2, <1>15 DEF Spoils, Fate
    <2>2. ~Ended(own)'
      BY <1>1, <1>5, <2>1, QuietLemma
    <2>3. own \in Lost' /\ own \notin Lost
      BY <1>5, <1>6, <1>7, <1>12, <2>1, <2>2
    <2>4. Lost' = Lost \cup {own}
      BY <1>13, <2>1, <2>3
    <2>5. Doomed' = Doomed \cup {own} /\ own \notin Doomed
      BY <1>4, <1>6, <2>1
    <2>6. Channel!Next
      BY <1>5, <1>8, <2>1, <2>3, <2>4, LoseStep
    <2>7. /\ Cardinality(Lost \cup {own}) = Cardinality(Lost) + 1
          /\ Cardinality(Doomed \cup {own}) = Cardinality(Doomed) + 1
      BY <1>9, <2>3, <2>5, FS_AddElement
    <2>8. CountInv'
      BY <1>9, <1>10, <1>11, <2>1, <2>4, <2>5, <2>7
    <2>9. QED
      BY <2>6, <2>8 DEF Refines
  <1>16. CASE GivesUp(c)
    <2>1. Quiet(c) /\ KernelLosses' = KernelLosses + 1 /\ y = Idle /\ StatsInv'
      BY <1>2, <1>16 DEF GivesUp, Fate
    <2>2. ~Ended(own)'
      BY <1>1, <1>5, <2>1, QuietLemma
    <2>3. own \in Lost'
      BY <1>5, <1>6, <1>12, <2>1, <2>2
    <2>4. Lost' = Lost \cup {own} /\ Doomed' = Doomed \ {own}
      BY <1>4, <1>6, <1>13, <2>1, <2>3
    <2>5. CASE x.reason = COMPLETE
      <3>1. own \notin Lost /\ own \notin Doomed
        BY <1>6, <1>7, <2>5
      <3>2. Doomed' = Doomed
        BY <2>4, <3>1
      <3>3. Cardinality(Lost \cup {own}) = Cardinality(Lost) + 1
        BY <1>9, <3>1, FS_AddElement
      <3>4. Channel!Next
        BY <1>5, <1>8, <2>1, <2>4, <3>1, LoseStep
      <3>5. CountInv'
        BY <1>9, <1>10, <1>11, <2>1, <2>4, <3>2, <3>3
      <3>6. QED
        BY <3>4, <3>5 DEF Refines
    <2>6. CASE x.reason # COMPLETE
      <3>1. own \in Lost /\ own \in Doomed
        BY <1>6, <1>7, <2>6
      <3>2. Lost' = Lost
        BY <2>4, <3>1
      <3>3. Cardinality(Doomed \ {own}) = Cardinality(Doomed) - 1
        BY <1>9, <3>1, FS_RemoveElement
      <3>4. Cardinality(Doomed) # 0
        BY <1>9, <3>1, FS_EmptySet
      <3>5. KernelLosses < Refused + 2 * Cardinality(Lost)
        <4>1. PICK k \in Nat, l \in Nat : k = Cardinality(Doomed) /\ l = Cardinality(Lost)
          BY <1>9
        <4>2. k # 0 /\ KernelLosses + k <= Refused + 2 * l
          BY <1>11, <3>4, <4>1
        <4>3. QED
          BY <1>9, <4>1, <4>2
      <3>6. Channel!Next
        BY <1>8, <2>1, <3>2, <3>5, CountAgainStep
      <3>7. CountInv'
        BY <1>9, <1>10, <1>11, <2>1, <2>4, <3>2, <3>3
      <3>8. QED
        BY <3>6, <3>7 DEF Refines
    <2>7. QED
      BY <2>5, <2>6
  <1>17. CASE Finishes(c)
    <2>1. KernelLosses' = KernelLosses /\ y = Idle /\ StatsInv'
      BY <1>2, <1>17 DEF Finishes, Fate
    <2>2. PICK rec : /\ ring' = Append(ring, Slot("ready", c, rec))
                     /\ rec.kind = "end" /\ rec.id = own /\ rec.reason = x.reason
      BY <1>17 DEF Finishes
    <2>3. \A id : Ended(id)' <=> Ended(id) \/ (id = own /\ x.reason = COMPLETE)
      BY <1>1, <2>2, FinishLemma
    <2>4. \A id : id \in Lost' <=> id \in Lost
      BY <1>4, <1>5, <1>6, <1>7, <1>12, <2>1, <2>3, LostLemma
    <2>5. Lost' = Lost
      BY <2>4
    <2>6. Doomed' = Doomed \ {own}
      BY <1>4, <1>6, <2>1
    <2>7. Cardinality(Doomed \ {own}) <= Cardinality(Doomed)
          /\ Cardinality(Doomed \ {own}) \in Nat
      <3>1. /\ IsFiniteSet(Doomed \ {own})
            /\ Cardinality(Doomed \ {own}) = IF own \in Doomed THEN Cardinality(Doomed) - 1
                                               ELSE Cardinality(Doomed)
        BY <1>9, FS_RemoveElement
      <3>2. Cardinality(Doomed \ {own}) \in Nat
        BY <3>1, FS_CardinalityType
      <3>3. QED
        BY <1>9, <3>1, <3>2
    <2>8. UNCHANGED Channel!channel
      BY <1>8, <2>1, <2>5, StutterStep
    <2>9. CountInv'
      BY <1>9, <1>10, <1>11, <2>1, <2>5, <2>6, <2>7
    <2>10. QED
      BY <2>8, <2>9 DEF Refines
  <1>18. QED
    BY <1>2, <1>14, <1>15, <1>16, <1>17 DEF Fate

-----------------------------------------------------------------------------
(* Every other step is a step of the channel *)

\* A call of emit() is refused, in vain, or taken up.
LEMMA StartKinds ==
    ASSUME CpuInv, StatsInv, NEW c \in Cpus, Start(c)
    PROVE  /\ StatsInv'
           /\ \/ shape' = shape /\ cpu'[c] = Idle /\ KernelLosses' = KernelLosses + 1
              \/ \E s \in Shapes :
                    /\ shape' = Append(shape, s)
                    /\ \/ cpu'[c] = Idle /\ KernelLosses' = KernelLosses + 1
                       \/ /\ Measurable(s) /\ cpu'[c] = Context(s, Len(shape) + 1)
                          /\ KernelLosses' = KernelLosses
  <1>1. DOMAIN cpu = Cpus /\ cpu[c] = Idle
    BY StartEnters DEF CpuInv, Enters
  <1>2. PICK s \in Shapes :
          \/ stats' = Count("read_errors") /\ cpu' = cpu /\ shape' = shape
          \/ /\ shape' = Append(shape, s)
             /\ \/ /\ Measurable(s) /\ stats' = stats
                   /\ cpu' = [cpu EXCEPT ![c] = Context(s, Len(shape) + 1)]
                \/ stats' = Count("read_errors") /\ cpu' = cpu
    BY DEF Start
  <1>3. CASE stats' = Count("read_errors") /\ cpu' = cpu
    <2>1. StatsInv' /\ KernelLosses' = KernelLosses + 1
      BY <1>3, CountLemma DEF LossFields
    <2>2. shape' = shape \/ shape' = Append(shape, s)
      BY <1>2
    <2>3. QED
      BY <1>1, <1>3, <2>1, <2>2
  <1>4. CASE /\ shape' = Append(shape, s) /\ Measurable(s) /\ stats' = stats
             /\ cpu' = [cpu EXCEPT ![c] = Context(s, Len(shape) + 1)]
    <2>1. StatsInv' /\ KernelLosses' = KernelLosses
      BY <1>4, CountLemma
    <2>2. cpu'[c] = Context(s, Len(shape) + 1)
      BY <1>1, <1>4
    <2>3. QED
      BY <1>4, <2>1, <2>2
  <1>5. QED
    BY <1>2, <1>3, <1>4

LEMMA StartRefines ==
    ASSUME TransportInv, CountInv, NEW c \in Cpus, Start(c)
    PROVE  Refines
  <1>1. ShapeInv /\ CpuInv /\ RingInv /\ EventInv /\ StatsInv
    BY DEF TransportInv, CountInv
  <1>2. /\ cpu[c] = Idle /\ (\A d \in Cpus : d # c => cpu'[d] = cpu[d])
        /\ attempts' = attempts + 1 /\ ring' = ring /\ delivered' = delivered
        /\ reassembly' = reassembly
    BY <1>1, StartEnters DEF Enters, reassembler
  <1>3. PICK n \in Nat : n = Len(shape)
    BY <1>1 DEF ShapeInv
  <1>4. /\ DOMAIN shape = 1 .. n /\ shape \in Seq(Shapes) /\ attempts \in Nat
    BY <1>1, <1>3 DEF ShapeInv
  <1>5. Done' = Done /\ Given' = Given
    BY <1>2 DEF Done, Given, Said
  <1>6. \A id : Ended(id)' <=> Ended(id)
    BY <1>2 DEF Ended
  <1>7. ~Ended(n + 1) /\ n + 1 \notin Done /\ \A d \in Cpus : ~Runs(d, n + 1)
    <2>1. n + 1 \notin DOMAIN shape
      BY <1>4
    <2>2. \A i \in DOMAIN ring : ring[i].record.id \in DOMAIN shape
      BY <1>1 DEF RingInv, SlotInv
    <2>3. \A e \in delivered : e.id \in DOMAIN shape
      BY <1>1 DEF EventInv
    <2>4. \A d \in Cpus : cpu[d] # Idle => cpu[d].id \in DOMAIN shape
      BY <1>1 DEF CpuInv
    <2>5. QED
      BY <2>1, <2>2, <2>3, <2>4 DEF Ended, Done, Runs
  <1>8. /\ IsFiniteSet(Lost) /\ Refused \in Nat /\ KernelLosses \in Nat
        /\ Cardinality(Lost) \in Nat /\ Cardinality(Doomed) \in Nat
    BY <1>1, FiniteLemma, CountLemma
  <1>9. /\ reassembly.complete = Cardinality(Done)
        /\ Refused + Cardinality(Lost) <= KernelLosses
        /\ KernelLosses + Cardinality(Doomed) <= Refused + 2 * Cardinality(Lost)
    BY DEF CountInv
  <1>10. /\ \A id : id \in Lost' <=>
               id \in DOMAIN shape' /\ ~Sound(id)' /\ ~Ended(id) /\ id \notin Done
         /\ \A id : id \in Doomed' <=>
               id \in DOMAIN shape' /\ \E d \in Cpus : Runs(d, id)' /\ cpu'[d].reason # COMPLETE
    <2>1. \A id : id \in Lost' <=>
               id \in DOMAIN shape' /\ ~Sound(id)' /\ ~Ended(id)' /\ id \notin Done'
      BY DEF Lost, Done, Alive, Sound, Ended, Runs
    <2>2. \A id : id \in Doomed' <=>
               id \in DOMAIN shape' /\ \E d \in Cpus : Runs(d, id)' /\ cpu'[d].reason # COMPLETE
      BY DEF Doomed
    <2>3. QED
      BY <1>5, <1>6, <2>1, <2>2
  <1>11. CASE shape' = shape /\ cpu'[c] = Idle /\ KernelLosses' = KernelLosses + 1 /\ StatsInv'
    <2>1. \A d \in Cpus : cpu'[d] = cpu[d]
      BY <1>2, <1>11
    <2>2. \A id : /\ Sound(id)' <=> Sound(id)
                  /\ \A d \in Cpus : Runs(d, id)' <=> Runs(d, id)
      BY <2>1 DEF Sound, Runs
    <2>3. Lost' = Lost /\ Doomed' = Doomed
      BY <1>10, <1>11, <2>1, <2>2, LostLemma
    <2>4. Offered' = Offered
      BY <1>11 DEF Offered
    <2>5. Refused' = Refused + 1
      BY <1>2, <1>3, <1>4, <1>11 DEF Refused
    <2>6. Channel!Next
      BY <1>5, <1>11, <2>3, <2>4, <2>5, RefuseStep
    <2>7. CountInv'
      BY <1>2, <1>5, <1>8, <1>9, <1>11, <2>3, <2>5 DEF CountInv
    <2>8. QED
      BY <2>6, <2>7 DEF Refines
  <1>12. ASSUME NEW s \in Shapes, shape' = Append(shape, s), StatsInv',
                \/ cpu'[c] = Idle /\ KernelLosses' = KernelLosses + 1
                \/ /\ Measurable(s) /\ cpu'[c] = Context(s, n + 1)
                   /\ KernelLosses' = KernelLosses
         PROVE  Refines
    <2>1. /\ Len(shape') = n + 1 /\ DOMAIN shape' = 1 .. (n + 1)
          /\ (\A id \in 1 .. n : shape'[id] = shape[id]) /\ shape'[n + 1] = s
      BY <1>3, <1>4, <1>12
    <2>2. Refused' = Refused
      BY <1>2, <1>3, <1>4, <2>1 DEF Refused
    <2>3. Offered' = Append(Offered, Image(s)) /\ Len(Offered) = n
      <3>1. /\ Offered = [id \in 1 .. n |-> Image(shape[id])]
            /\ Offered' = [id \in 1 .. (n + 1) |-> Image(shape'[id])]
        BY <1>4, <2>1 DEF Offered, Image
      <3>2. Len(Offered) = n /\ DOMAIN Offered = 1 .. n
        BY <3>1
      <3>3. Append(Offered, Image(s)) =
               [id \in 1 .. (n + 1) |-> IF id <= n THEN Offered[id] ELSE Image(s)]
        BY <3>1, <3>2
      <3>4. QED
        BY <2>1, <3>1, <3>2, <3>3
    <2>4. CASE cpu'[c] = Idle /\ KernelLosses' = KernelLosses + 1
      <3>1. \A d \in Cpus : cpu'[d] = cpu[d]
        BY <1>2, <2>4
      <3>2. \A id : /\ Sound(id)' <=> Sound(id)
                    /\ \A d \in Cpus : Runs(d, id)' <=> Runs(d, id)
        BY <3>1 DEF Sound, Runs
      <3>3. ~Sound(n + 1)
        BY <1>7 DEF Sound
      <3>4. Lost' = Lost \cup {n + 1}
        BY <1>3, <1>4, <1>7, <1>10, <2>1, <3>2, <3>3, LostLemma
      <3>5. Doomed' = Doomed
        <4>1. n + 1 \notin Doomed' /\ n + 1 \notin Doomed
          BY <1>7, <1>10, <3>2, LostLemma
        <4>2. \A id : id # n + 1 => (id \in DOMAIN shape' <=> id \in DOMAIN shape)
          BY <1>4, <2>1
        <4>3. \A id : id # n + 1 => (id \in Doomed' <=> id \in Doomed)
          BY <1>10, <3>1, <3>2, <4>2, LostLemma
        <4>4. QED
          BY <4>1, <4>3
      <3>6. n + 1 \notin Lost
        BY <1>4, LostLemma
      <3>7. Cardinality(Lost \cup {n + 1}) = Cardinality(Lost) + 1
        BY <1>8, <3>6, FS_AddElement
      <3>8. Channel!Next
        BY <1>5, <2>2, <2>3, <2>4, <3>4, OfferInVainStep
      <3>9. CountInv'
        <4>1. PICK l \in Nat, k \in Nat : l = Cardinality(Lost) /\ k = Cardinality(Doomed)
          BY <1>8
        <4>2. Refused + l <= KernelLosses /\ KernelLosses + k <= Refused + 2 * l
          BY <1>9, <4>1
        <4>3. /\ Refused + (l + 1) <= KernelLosses + 1
              /\ (KernelLosses + 1) + k <= Refused + 2 * (l + 1)
          BY <1>8, <4>2
        <4>4. Cardinality(Lost)' = l + 1 /\ Cardinality(Doomed)' = k
          BY <3>4, <3>5, <3>7, <4>1
        <4>5. reassembly'.complete = Cardinality(Done')
          BY <1>2, <1>5, <1>9
        <4>6. QED
          BY <1>12, <2>2, <2>4, <4>3, <4>4, <4>5 DEF CountInv
      <3>10. QED
        BY <3>8, <3>9 DEF Refines
    <2>5. CASE /\ Measurable(s) /\ cpu'[c] = Context(s, n + 1)
               /\ KernelLosses' = KernelLosses
      <3>1. cpu'[c] # Idle /\ cpu'[c].id = n + 1 /\ cpu'[c].reason = COMPLETE
        <4>1. Context(s, n + 1).reason = COMPLETE
          BY DEF Context
        <4>2. QED
          BY <2>5, <4>1, ContextLemma
      <3>2. \A id : id # n + 1 =>
               \A d \in Cpus : (Runs(d, id)' <=> Runs(d, id)) /\ (Runs(d, id) => d # c)
        BY <1>2, <3>1 DEF Runs
      <3>3. \A id : id # n + 1 => (Sound(id)' <=> Sound(id))
        BY <1>2, <3>2 DEF Sound
      <3>4. Sound(n + 1)' /\ \A d \in Cpus : Runs(d, n + 1)' => d = c
        BY <1>2, <1>3, <1>7, <3>1 DEF Sound, Runs
      <3>5. n + 1 \notin Lost' /\ n + 1 \notin Doomed'
        BY <1>10, <3>1, <3>4
      <3>6. n + 1 \notin Lost /\ n + 1 \notin Doomed
        BY <1>4, LostLemma
      <3>7. \A id : id # n + 1 => (id \in DOMAIN shape' <=> id \in DOMAIN shape)
        BY <1>4, <2>1
      <3>8. \A id : id # n + 1 => (id \in Lost' <=> id \in Lost)
        BY <1>10, <3>3, <3>7, LostLemma
      <3>9. \A id : id # n + 1 => (id \in Doomed' <=> id \in Doomed)
        BY <1>2, <1>10, <3>2, <3>7, LostLemma
      <3>10. Lost' = Lost /\ Doomed' = Doomed
        BY <3>5, <3>6, <3>8, <3>9
      <3>11. Channel!Next
        BY <1>5, <2>2, <2>3, <2>5, <3>10, OfferStep
      <3>12. CountInv'
        BY <1>2, <1>5, <1>8, <1>9, <1>12, <2>2, <2>5, <3>10 DEF CountInv
      <3>13. QED
        BY <3>11, <3>12 DEF Refines
    <2>6. QED
      BY <1>12, <2>4, <2>5
  <1>13. QED
    BY <1>1, <1>3, <1>11, <1>12, StartKinds

\* A slot that leaves the ring takes its record along.
LEMMA TakeLemma ==
    ASSUME RingInv, ring # <<>>, ring' = Tail(ring), NEW r, r = Head(ring).record
    PROVE  \A id : Ended(id) <=>
              Ended(id)' \/ (r.kind = "end" /\ r.id = id /\ r.reason = COMPLETE)
  <1>1. PICK n \in Nat : n = Len(ring)
    BY DEF RingInv
  <1>2. /\ n # 0 /\ DOMAIN ring = 1 .. n /\ Head(ring) = ring[1]
        /\ DOMAIN ring' = 1 .. (n - 1) /\ \A i \in 1 .. (n - 1) : ring'[i] = ring[i + 1]
    BY <1>1, TailFacts
  <1>3. r = ring[1].record
    BY <1>2
  <1>4. ASSUME NEW id, Ended(id)'
        PROVE  Ended(id)
    <2>1. PICK i \in 1 .. (n - 1) : /\ ring'[i].record.kind = "end" /\ ring'[i].record.id = id
                                    /\ ring'[i].record.reason = COMPLETE
      BY <1>2, <1>4 DEF Ended
    <2>2. i + 1 \in DOMAIN ring /\ ring[i + 1] = ring'[i]
      BY <1>1, <1>2
    <2>3. QED
      BY <2>1, <2>2 DEF Ended
  <1>5. ASSUME NEW id, r.kind = "end", r.id = id, r.reason = COMPLETE
        PROVE  Ended(id)
    <2>1. 1 \in DOMAIN ring
      BY <1>1, <1>2
    <2>2. QED
      BY <1>3, <1>5, <2>1 DEF Ended
  <1>6. ASSUME NEW id, Ended(id), ~(r.kind = "end" /\ r.id = id /\ r.reason = COMPLETE)
        PROVE  Ended(id)'
    <2>1. PICK i \in 1 .. n : /\ ring[i].record.kind = "end" /\ ring[i].record.id = id
                              /\ ring[i].record.reason = COMPLETE
      BY <1>2, <1>6 DEF Ended
    <2>2. i # 1
      BY <1>3, <1>6, <2>1
    <2>3. i - 1 \in 1 .. (n - 1) /\ (i - 1) + 1 = i
      BY <1>1, <2>2
    <2>4. i - 1 \in DOMAIN ring' /\ ring'[i - 1] = ring[i]
      BY <1>2, <2>3
    <2>5. QED
      BY <2>1, <2>4 DEF Ended
  <1>7. QED
    BY <1>4, <1>5, <1>6

LEMMA ConsumeRefines ==
    ASSUME TransportInv, CountInv, Consume
    PROVE  Refines
  <1>1. RingInv /\ ChainInv /\ StreamInv /\ StatsInv
    BY DEF TransportInv, CountInv
  <1>2. /\ ring # <<>> /\ ring' = Tail(ring) /\ cpu' = cpu /\ shape' = shape
        /\ attempts' = attempts /\ stats' = stats /\ Head(ring).state # "busy"
    BY DEF Consume, emission
  <1>3. PICK r : r = Head(ring).record
    OBVIOUS
  <1>4. \A id : Ended(id) <=>
           Ended(id)' \/ (r.kind = "end" /\ r.id = id /\ r.reason = COMPLETE)
    BY <1>1, <1>2, <1>3, TakeLemma
  <1>5. /\ Doomed' = Doomed /\ Offered' = Offered /\ Refused' = Refused
        /\ KernelLosses' = KernelLosses /\ StatsInv'
        /\ \A id : Sound(id)' <=> Sound(id)
    <2>1. Doomed' = Doomed /\ \A id : Sound(id)' <=> Sound(id)
      BY <1>2 DEF Doomed, Sound, Runs
    <2>2. Offered' = Offered /\ Refused' = Refused
      BY <1>2 DEF Offered, Refused
    <2>3. KernelLosses' = KernelLosses /\ StatsInv'
      BY <1>1, <1>2 DEF KernelLosses, StatsInv
    <2>4. QED
      BY <2>1, <2>2, <2>3
  <1>6. \A id : id \in Lost' <=>
           id \in DOMAIN shape /\ ~Sound(id) /\ ~Ended(id)' /\ id \notin Done'
    <2>1. \A id : id \in Lost' <=>
             id \in DOMAIN shape' /\ ~Sound(id)' /\ ~Ended(id)' /\ id \notin Done'
      BY DEF Lost, Done, Alive, Sound, Ended, Runs
    <2>2. QED
      BY <1>2, <1>5, <2>1
  <1>7. /\ reassembly.complete = Cardinality(Done)
        /\ Refused + Cardinality(Lost) <= KernelLosses
        /\ KernelLosses + Cardinality(Doomed) <= Refused + 2 * Cardinality(Lost)
    BY DEF CountInv
  <1>8. ASSUME delivered' = delivered, reassembly'.complete = reassembly.complete,
               ~(r.kind = "end" /\ r.reason = COMPLETE)
        PROVE  Refines
    <2>1. Done' = Done /\ Given' = Given
      BY <1>8 DEF Done, Given, Said
    <2>2. Lost' = Lost
      BY <1>4, <1>6, <1>8, <2>1, LostLemma
    <2>3. UNCHANGED Channel!channel
      BY <1>5, <2>1, <2>2, StutterStep
    <2>4. CountInv'
      BY <1>5, <1>7, <1>8, <2>1, <2>2 DEF CountInv
    <2>5. QED
      BY <2>3, <2>4 DEF Refines
  <1>9. 1 \in DOMAIN ring /\ Head(ring) = ring[1]
    BY <1>1, <1>2, TailFacts
  <1>10. SlotInv(ring[1]) /\ r = ring[1].record
    BY <1>1, <1>3, <1>9 DEF RingInv
  <1>11. CASE Head(ring).state # "ready"
    <2>1. delivered' = delivered /\ reassembly' = reassembly
      BY <1>11 DEF Consume, reassembler
    <2>2. r.kind = "data"
      BY <1>9, <1>10, <1>11 DEF SlotInv
    <2>3. QED
      BY <1>8, <2>1, <2>2
  <1>12. CASE Head(ring).state = "ready"
    <2>1. r.id \in DOMAIN shape
      BY <1>10 DEF SlotInv
    <2>2. PICK P : Linked(r.id, P)
      BY <1>1, <2>1 DEF ChainInv
    <2> DEFINE s == shape[r.id]
    <2>3. Absorbs(r, s, P[1]) /\ Told(s, P[0], r, P[1])
      BY <1>3, <1>12, <2>2, HeadHeard
    <2>4. CASE Fail /\ r.kind = "begin"
      BY <1>8, <2>4 DEF Fail
    <2>5. CASE Fills(r, s, P[1])
      BY <1>8, <2>5 DEF Fills
    <2>6. ASSUME Closes(r, s, P[1]), r.reason # COMPLETE
          PROVE  Refines
      <3>1. /\ delivered' = delivered
            /\ reassembly' = [reassembly EXCEPT !.incomplete = @ + 1]
        BY <2>6 DEF Closes
      <3>2. reassembly'.complete = reassembly.complete
        BY <3>1
      <3>3. QED
        BY <1>8, <2>6, <3>1, <3>2
    <2>7. ASSUME Closes(r, s, P[1]), r.reason = COMPLETE
          PROVE  Refines
      <3>1. /\ r.kind = "end" /\ delivered' = delivered \cup {Event(r.id, s)}
            /\ reassembly' = [reassembly EXCEPT !.complete = @ + 1]
        BY <2>7 DEF Closes
      <3>2. Event(r.id, s).id = r.id /\ Said(Event(r.id, s)) = Image(s)
        BY DEF Event, Said, Image
      <3>3. Done' = Done \cup {r.id}
        BY <3>1, <3>2 DEF Done
      <3>4. Given' = Given \cup {[id |-> r.id, content |-> Image(s)]}
        <4>1. Given' = {[id |-> e.id, content |-> Said(e)] : e \in delivered'}
          BY DEF Given, Said
        <4>2. QED
          BY <3>1, <3>2, <4>1 DEF Given
      <3>5. r.id \notin Done
        <4>1. P[0].stage = "open"
          BY <2>3, <3>1 DEF Told
        <4>2. QED
          BY <2>2, <4>1 DEF Linked
      <3>6. r.id \notin Lost /\ r.id \notin Lost'
        BY <1>4, <1>6, <2>7, <3>1, <3>3, LostLemma
      <3>7. \A id : id # r.id => (id \in Lost' <=> id \in Lost)
        BY <1>4, <1>6, <3>3, LostLemma
      <3>8. Lost' = Lost
        BY <3>6, <3>7
      <3>9. Channel!Next
        BY <1>5, <2>1, <3>4, <3>5, <3>6, <3>8, DeliverStep
      <3>10. Cardinality(Done \cup {r.id}) = Cardinality(Done) + 1
        BY <3>5, FiniteLemma, FS_AddElement
      <3>11. reassembly'.complete = reassembly.complete + 1
        <4>1. reassembly \in [CounterNames -> Nat]
          BY <1>1 DEF StreamInv, CounterTypes
        <4>2. "complete" \in DOMAIN reassembly
          BY <4>1 DEF CounterNames
        <4>3. QED
          BY <3>1, <4>2
      <3>12. CountInv'
        BY <1>5, <1>7, <3>3, <3>8, <3>10, <3>11 DEF CountInv
      <3>13. QED
        BY <3>9, <3>12 DEF Refines
    <2>8. QED
      BY <2>3, <2>4, <2>5, <2>6, <2>7 DEF Absorbs
  <1>13. QED
    BY <1>11, <1>12

LEMMA KeepsRefines ==
    ASSUME CountInv, UNCHANGED vars
    PROVE  Refines
  <1>1. /\ cpu' = cpu /\ ring' = ring /\ shape' = shape /\ attempts' = attempts
        /\ stats' = stats /\ delivered' = delivered /\ reassembly' = reassembly
    BY DEF vars
  <1>2. Offered' = Offered /\ Refused' = Refused /\ Done' = Done /\ Given' = Given
    BY <1>1 DEF Offered, Refused, Done, Given, Said
  <1>3. Lost' = Lost /\ Doomed' = Doomed
    BY <1>1 DEF Lost, Doomed, Alive, Runs
  <1>4. KernelLosses' = KernelLosses /\ StatsInv'
    BY <1>1 DEF CountInv, KernelLosses, StatsInv
  <1>5. UNCHANGED Channel!channel
    BY <1>2, <1>3, <1>4, StutterStep
  <1>6. CountInv'
    BY <1>1, <1>2, <1>3, <1>4 DEF CountInv
  <1>7. QED
    BY <1>5, <1>6 DEF Refines

-----------------------------------------------------------------------------
(* A list of segments *)

\* How many segments copy_sg has taken up.
Taken(x, s) == s.num_sgs - x.segments_left

\* They are the first of the list, and hold the bytes up to the end of the current one.
Found(x, s) ==
    LET n == Taken(x, s) IN
    IF n = 0 THEN x.next = SgFirst(s) /\ x.copied = 0 /\ x.segment_left = 0
    ELSE \E walk \in [1 .. n -> DOMAIN s.sg] :
            /\ IsWalk(s, walk, n) /\ HoldsFirst(s, walk, n, x.copied + x.segment_left)
            /\ x.next = SgSuccessor(s, walk[n])

\* They are the first of any walk, which is at an end no sooner than the copy.
OnEachWalk(x, s) ==
    \A n \in 1 .. s.num_sgs : \A walk \in [1 .. n -> DOMAIN s.sg] :
       IsWalk(s, walk, n) =>
          /\ Taken(x, s) < n => x.next = walk[Taken(x, s) + 1]
          /\ \A k \in 1 .. n : k <= Taken(x, s) =>
                \/ x.segment_left = x.remaining
                \/ s.sg[walk[k]].start + s.sg[walk[k]].length <= x.copied + x.segment_left

\* Each round but one per segment has copied a whole chunk.
RoundsUsed(x, s) ==
    x.iteration * CHUNK_SIZE + (IF x.segment_left = 0 THEN 0 ELSE CHUNK_SIZE)
       <= x.copied + Taken(x, s) * CHUNK_SIZE

SgWay(x, s) ==
    /\ x.segments_left <= s.num_sgs /\ Found(x, s) /\ OnEachWalk(x, s) /\ RoundsUsed(x, s)
    /\ x.pc = "sg_read" => x.length \in {x.segment_left, CHUNK_SIZE}
    /\ x.pc # "sg_start" => sg_supported /\ SgIterations(s) <= MaxLoops

LEMMA SgTypes ==
    ASSUME NEW s \in Shapes
    PROVE  /\ s.num_sgs \in Nat /\ Consecutive(s) /\ DOMAIN s.sg \subseteq Nat \ {0}
           /\ \A k \in DOMAIN s.sg : /\ s.sg[k].start \in Nat /\ s.sg[k].length \in Nat
                                     /\ s.sg[k].last \in BOOLEAN /\ s.sg[k].chain \in Nat
  <1> DEFINE E == [start : Nat, length : Nat, last : BOOLEAN, chain : Nat]
  <1>1. s.sg \in Seq(E) /\ Consecutive(s) /\ s.num_sgs \in Nat
    BY ShapesAssumption
  <1> HIDE DEF E
  <1>2. /\ Len(s.sg) \in Nat /\ DOMAIN s.sg = 1 .. Len(s.sg)
        /\ (\A k \in DOMAIN s.sg : s.sg[k] \in E)
    BY <1>1
  <1>3. \A k \in DOMAIN s.sg : /\ s.sg[k].start \in Nat /\ s.sg[k].length \in Nat
                               /\ s.sg[k].last \in BOOLEAN /\ s.sg[k].chain \in Nat
    BY <1>2 DEF E
  <1>4. QED
    BY <1>1, <1>2, <1>3

\* A chunk more than the whole ones holds the rest.
LEMMA ChunksLemma ==
    ASSUME NEW n \in Nat
    PROVE  /\ Chunks(n) \in Nat /\ n <= Chunks(n) * CHUNK_SIZE
           /\ CHUNK_SIZE \in Nat /\ 1 <= CHUNK_SIZE
  <1>1. CHUNK_SIZE \in Nat /\ 1 <= CHUNK_SIZE
    BY TransportAssumption
  <1> PICK C \in Nat : C = CHUNK_SIZE /\ 1 <= C
    BY <1>1
  <1> DEFINE q == (n + C - 1) \div C
             r == (n + C - 1) % C
  <1>2. n + C - 1 = C * q + r /\ q \in Nat /\ r \in 0 .. (C - 1)
    OBVIOUS
  <1>3. C * q = q * C
    BY <1>2
  <1> HIDE DEF q, r
  <1>4. q * C \in Nat /\ n <= q * C
    BY <1>2, <1>3
  <1>5. QED
    BY <1>1, <1>2, <1>4 DEF Chunks, q

LEMMA Times ==
    ASSUME NEW a \in Nat, NEW b \in Nat
    PROVE  /\ a * CHUNK_SIZE \in Nat
           /\ (a + b) * CHUNK_SIZE = a * CHUNK_SIZE + b * CHUNK_SIZE
           /\ (a + 1) * CHUNK_SIZE = a * CHUNK_SIZE + CHUNK_SIZE
           /\ a <= b => a * CHUNK_SIZE <= b * CHUNK_SIZE
           /\ 0 * CHUNK_SIZE = 0
  <1> PICK C \in Nat : C = CHUNK_SIZE
    BY TransportAssumption
  <1>1. a * C \in Nat /\ (a + b) * C = a * C + b * C /\ (a + 1) * C = a * C + C /\ 0 * C = 0
    OBVIOUS
  <1>2. ASSUME a <= b PROVE a * C <= b * C
    <2>1. PICK d \in Nat : b = a + d
      <3>1. b - a \in Nat /\ b = a + (b - a)
        BY <1>2
      <3>2. QED
        BY <3>1
    <2>2. b * C = a * C + d * C /\ d * C \in Nat /\ a * C \in Nat
      BY <2>1
    <2>3. QED
      BY <2>2
  <1>3. QED
    BY <1>1, <1>2

\* Before the first segment.
LEMMA WayBegins ==
    ASSUME NEW s \in Shapes, NEW x, x.pc = "sg_start", x.segments_left = s.num_sgs,
           x.next = SgFirst(s), x.copied = 0, x.segment_left = 0, x.iteration = 0
    PROVE  SgWay(x, s)
  <1>1. Taken(x, s) = 0 /\ s.num_sgs \in Nat
    BY SgTypes DEF Taken
  <1>2. Found(x, s)
    BY <1>1 DEF Found
  <1>3. OnEachWalk(x, s)
    <2>1. ASSUME NEW n \in 1 .. s.num_sgs, NEW walk \in [1 .. n -> DOMAIN s.sg],
                 IsWalk(s, walk, n)
          PROVE  x.next = walk[1]
      <3>1. walk[1] \in DOMAIN s.sg /\ walk[1] = 1
        BY <1>1, <2>1 DEF IsWalk
      <3>2. s.sg # <<>>
        BY <3>1
      <3>3. QED
        BY <3>1, <3>2 DEF SgFirst
    <2>2. QED
      BY <1>1, <2>1 DEF OnEachWalk
  <1>4. RoundsUsed(x, s)
    BY <1>1, Times DEF RoundsUsed
  <1>5. QED
    BY <1>1, <1>2, <1>3, <1>4 DEF SgWay

\* The granted rounds suffice.
LEMMA RoundsSuffice ==
    ASSUME NEW s \in Shapes, NEW x, ContextTypes(x), Measurable(s), SgContext(x, s), SgWay(x, s),
           x.remaining # 0
    PROVE  x.iteration < SgIterations(s)
  <1>1. /\ x.iteration \in Nat /\ x.copied \in Nat /\ x.remaining \in Nat
        /\ x.segments_left \in Nat /\ x.segments_left <= s.num_sgs
        /\ x.copied + x.remaining = PayloadLen(s) /\ RoundsUsed(x, s)
    BY DEF ContextTypes, SgContext, SgWay
  <1>2. s.num_sgs \in Nat /\ PayloadLen(s) \in Nat
    BY SgTypes, MeasureLemma
  <1> DEFINE t == Taken(x, s)
             q == Chunks(PayloadLen(s))
  <1>3. t \in Nat /\ t <= s.num_sgs
    BY <1>1, <1>2 DEF Taken
  <1>4. q \in Nat /\ PayloadLen(s) <= q * CHUNK_SIZE /\ CHUNK_SIZE \in Nat
    BY <1>2, ChunksLemma
  <1>5. SgIterations(s) = s.num_sgs + q
    BY DEF SgIterations
  <1>6. x.iteration * CHUNK_SIZE <= x.copied + t * CHUNK_SIZE
    <2>1. x.iteration * CHUNK_SIZE \in Nat /\ t * CHUNK_SIZE \in Nat
      BY <1>1, <1>3, Times
    <2>2. QED
      BY <1>1, <1>4, <2>1 DEF RoundsUsed
  <1> HIDE DEF t, q
  <1>7. SUFFICES ASSUME s.num_sgs + q <= x.iteration PROVE FALSE
    BY <1>1, <1>2, <1>4, <1>5
  <1>8. (s.num_sgs + q) * CHUNK_SIZE <= x.iteration * CHUNK_SIZE
    BY <1>1, <1>2, <1>4, <1>7, Times
  <1>9. (s.num_sgs + q) * CHUNK_SIZE = s.num_sgs * CHUNK_SIZE + q * CHUNK_SIZE
    BY <1>2, <1>4, Times
  <1>10. t * CHUNK_SIZE <= s.num_sgs * CHUNK_SIZE
    BY <1>2, <1>3, Times
  <1>11. /\ t * CHUNK_SIZE \in Nat /\ s.num_sgs * CHUNK_SIZE \in Nat
         /\ q * CHUNK_SIZE \in Nat /\ x.iteration * CHUNK_SIZE \in Nat
    BY <1>1, <1>2, <1>3, <1>4, Times
  <1>12. QED
    BY <1>1, <1>2, <1>4, <1>6, <1>8, <1>9, <1>10, <1>11

\* All bytes are out: the segments taken up hold the payload.
LEMMA WayEnds ==
    ASSUME NEW s \in Shapes, NEW x, ContextTypes(x), Measurable(s), SgContext(x, s), SgWay(x, s),
           x.pc # "sg_start", x.remaining = 0
    PROVE  Addressable(s)
  <1>1. /\ x.copied \in Nat /\ x.segments_left \in Nat /\ x.segments_left <= s.num_sgs
        /\ x.segment_left = 0 /\ x.copied = PayloadLen(s) /\ ~s.iso /\ s.num_sgs # 0
        /\ PayloadLen(s) # 0 /\ sg_supported /\ SgIterations(s) <= MaxLoops /\ Found(x, s)
    BY DEF ContextTypes, SgContext, SgWay
  <1> DEFINE n == Taken(x, s)
  <1>2. n \in 0 .. s.num_sgs /\ s.num_sgs \in Nat
    BY <1>1, SgTypes DEF Taken
  <1>3. n # 0
    BY <1>1 DEF Found
  <1>4. PICK walk \in [1 .. n -> DOMAIN s.sg] :
           IsWalk(s, walk, n) /\ HoldsFirst(s, walk, n, x.copied + x.segment_left)
    BY <1>1, <1>3 DEF Found
  <1>5. x.copied + x.segment_left = PayloadLen(s)
    BY <1>1
  <1>6. n \in 1 .. s.num_sgs
    BY <1>2, <1>3
  <1> HIDE DEF n
  <1>7. HoldsFirst(s, walk, n, PayloadLen(s))
    BY <1>4, <1>5
  <1>8. QED
    BY <1>1, <1>4, <1>6, <1>7 DEF Addressable

\* As long as a byte is missing there is a segment to go on with, if there is for the payload.
LEMMA WayGoesOn ==
    ASSUME NEW s \in Shapes, NEW x, ContextTypes(x), Measurable(s), SgContext(x, s), SgWay(x, s),
           x.remaining # 0, x.segment_left = 0, Addressable(s)
    PROVE  HasSegment(x, s)
  <1>1. /\ x.copied \in Nat /\ x.segments_left \in Nat /\ x.segments_left <= s.num_sgs
        /\ x.copied + x.remaining = PayloadLen(s) /\ x.remaining \in Nat /\ s.num_sgs # 0
        /\ PayloadLen(s) # 0 /\ OnEachWalk(x, s)
    BY DEF ContextTypes, SgContext, SgWay
  <1>w. PICK n \in 1 .. s.num_sgs : \E walk \in [1 .. n -> DOMAIN s.sg] :
           IsWalk(s, walk, n) /\ HoldsFirst(s, walk, n, PayloadLen(s))
    BY <1>1 DEF Addressable
  <1>2. PICK walk \in [1 .. n -> DOMAIN s.sg] :
           IsWalk(s, walk, n) /\ HoldsFirst(s, walk, n, PayloadLen(s))
    BY <1>w
  <1>3. PayloadLen(s) \in Nat /\ s.num_sgs \in Nat
    BY MeasureLemma, SgTypes
  <1>4. PayloadLen(s) - 1 \in 0 .. (PayloadLen(s) - 1)
    BY <1>1, <1>3
  <1>5. PICK k \in 1 .. n :
           PayloadLen(s) - 1 \in s.sg[walk[k]].start
                                   .. (s.sg[walk[k]].start + s.sg[walk[k]].length - 1)
    BY <1>2, <1>4 DEF HoldsFirst
  <1>6. walk[k] \in DOMAIN s.sg /\ s.sg[walk[k]].start \in Nat /\ s.sg[walk[k]].length \in Nat
    BY SgTypes
  <1>7. PayloadLen(s) <= s.sg[walk[k]].start + s.sg[walk[k]].length
    BY <1>3, <1>5, <1>6
  <1> DEFINE t == Taken(x, s)
  <1>8. t \in Nat /\ t = s.num_sgs - x.segments_left
    BY <1>1, <1>3 DEF Taken
  <1>9. /\ t < n => x.next = walk[t + 1]
        /\ k <= t => \/ x.segment_left = x.remaining
                     \/ s.sg[walk[k]].start + s.sg[walk[k]].length <= x.copied + x.segment_left
    BY <1>1, <1>2 DEF OnEachWalk
  <1> HIDE DEF t
  <1>10. ~(k <= t)
    BY <1>1, <1>3, <1>6, <1>7, <1>9
  <1>11. t < n /\ t + 1 \in 1 .. n
    BY <1>8, <1>10
  <1>12. x.next = walk[t + 1] /\ s.sg[walk[t + 1]].chain = 0 /\ walk[t + 1] \in DOMAIN s.sg
    BY <1>2, <1>9, <1>11 DEF IsWalk
  <1>13. x.next # 0
    BY <1>12, SgTypes
  <1>14. x.segments_left # 0
    BY <1>1, <1>3, <1>8, <1>11
  <1>15. QED
    BY <1>12, <1>13, <1>14 DEF HasSegment

\* The next segment is taken up.
LEMMA WayTakes ==
    ASSUME NEW s \in Shapes, NEW x, NEW y, ContextTypes(x), SgContext(x, s), SgWay(x, s),
           x.pc = "sg", x.remaining # 0, x.segment_left = 0, HasSegment(x, s),
           NEW left \in Nat,
           left = IF s.sg[x.next].length <= x.remaining THEN s.sg[x.next].length ELSE x.remaining,
           y.next = SgSuccessor(s, x.next), y.segments_left = x.segments_left - 1,
           y.segment_left = left, y.copied = x.copied, y.remaining = x.remaining,
           y.iteration = IF left = 0 THEN x.iteration + 1 ELSE x.iteration,
           y.pc \in {"sg", "sg_chunk"}
    PROVE  SgWay(y, s)
  <1>1. /\ x.copied \in Nat /\ x.segments_left \in Nat /\ x.segments_left <= s.num_sgs
        /\ x.remaining \in Nat /\ x.iteration \in Nat
        /\ Found(x, s) /\ OnEachWalk(x, s) /\ RoundsUsed(x, s)
        /\ sg_supported /\ SgIterations(s) <= MaxLoops
    BY DEF ContextTypes, SgWay
  <1>2. PICK g : g = s.sg[x.next]
    OBVIOUS
  <1>3. /\ x.next \in DOMAIN s.sg /\ g.chain = 0 /\ g.start = x.copied
        /\ x.segments_left # 0 /\ g.length \in Nat
    <2>1. x.next # 0 /\ x.segments_left # 0 /\ g.chain = 0
      BY <1>2 DEF HasSegment
    <2>2. x.next \in DOMAIN s.sg /\ g.start = x.copied + x.segment_left
      BY <1>2, <2>1 DEF SgContext
    <2>3. QED
      BY <1>1, <1>2, <2>1, <2>2, SgTypes
  <1>4. PICK t \in Nat : t = Taken(x, s)
    BY <1>1, SgTypes DEF Taken
  <1>5. Taken(y, s) = t + 1 /\ s.num_sgs \in Nat /\ t + 1 <= s.num_sgs
    BY <1>1, <1>3, <1>4, SgTypes DEF Taken
  <1>6. y.segments_left <= s.num_sgs
    BY <1>1, <1>3, <1>5
  <1>7. Found(y, s)
    <2>1. ASSUME NEW walk, t # 0 => walk \in [1 .. t -> DOMAIN s.sg],
                 t # 0 => IsWalk(s, walk, t) /\ HoldsFirst(s, walk, t, x.copied),
                 t # 0 => x.next = SgSuccessor(s, walk[t]),
                 t = 0 => x.next = SgFirst(s) /\ x.copied = 0
          PROVE  Found(y, s)
      <3> DEFINE w == [k \in 1 .. (t + 1) |-> IF k <= t THEN walk[k] ELSE x.next]
      <3>1. w \in [1 .. (t + 1) -> DOMAIN s.sg]
        BY <1>3, <2>1
      <3>2. (\A k \in 1 .. t : w[k] = walk[k]) /\ w[t + 1] = x.next
        OBVIOUS
      <3> HIDE DEF w
      <3>3. IsWalk(s, w, t + 1)
        <4>1. w[1] = 1
          <5>1. CASE t = 0
            BY <2>1, <3>2, <5>1 DEF HasSegment, SgFirst
          <5>2. CASE t # 0
            BY <2>1, <3>2, <5>2 DEF IsWalk
          <5>3. QED
            BY <5>1, <5>2
        <4>2. ASSUME NEW k \in 1 .. (t + 1) PROVE s.sg[w[k]].chain = 0
          <5>1. CASE k = t + 1
            BY <1>2, <1>3, <3>2, <5>1
          <5>2. CASE k # t + 1
            <6>1. k \in 1 .. t /\ t # 0
              BY <5>2
            <6>2. QED
              BY <2>1, <3>2, <6>1 DEF IsWalk
          <5>3. QED
            BY <5>1, <5>2
        <4>3. ASSUME NEW k \in 1 .. ((t + 1) - 1) PROVE w[k + 1] = SgSuccessor(s, w[k])
          <5>1. CASE k = t
            BY <2>1, <3>2, <5>1
          <5>2. CASE k # t
            <6>1. k \in 1 .. (t - 1) /\ k \in 1 .. t /\ k + 1 \in 1 .. t /\ t # 0
              BY <5>2
            <6>2. QED
              BY <2>1, <3>2, <6>1 DEF IsWalk
          <5>3. QED
            BY <5>1, <5>2
        <4>4. QED
          BY <4>1, <4>2, <4>3 DEF IsWalk
      <3>4. HoldsFirst(s, w, t + 1, x.copied + left)
        <4>1. ASSUME NEW p \in 0 .. ((x.copied + left) - 1)
              PROVE  \E k \in 1 .. (t + 1) :
                        p \in s.sg[w[k]].start .. (s.sg[w[k]].start + s.sg[w[k]].length - 1)
          <5>1. CASE p < x.copied
            <6>1. t # 0 /\ p \in 0 .. (x.copied - 1)
              BY <1>1, <2>1, <5>1
            <6>2. PICK k \in 1 .. t :
                     p \in s.sg[walk[k]].start .. (s.sg[walk[k]].start + s.sg[walk[k]].length - 1)
              BY <2>1, <6>1 DEF HoldsFirst
            <6>3. k \in 1 .. (t + 1) /\ w[k] = walk[k]
              BY <3>2
            <6>4. QED
              BY <6>2, <6>3
          <5>2. CASE ~(p < x.copied)
            <6>1. p \in g.start .. (g.start + g.length - 1)
              BY <1>1, <1>2, <1>3, <5>2
            <6>2. t + 1 \in 1 .. (t + 1) /\ s.sg[w[t + 1]] = g
              BY <1>2, <3>2
            <6>3. QED
              BY <6>1, <6>2
          <5>3. QED
            BY <5>1, <5>2
        <4>2. QED
          BY <4>1 DEF HoldsFirst
      <3>5. QED
        BY <1>5, <3>1, <3>2, <3>3, <3>4 DEF Found
    <2>2. CASE t = 0
      BY <1>1, <1>4, <2>1, <2>2 DEF Found
    <2>3. CASE t # 0
      <3>1. PICK walk \in [1 .. t -> DOMAIN s.sg] :
               /\ IsWalk(s, walk, t) /\ HoldsFirst(s, walk, t, x.copied + x.segment_left)
               /\ x.next = SgSuccessor(s, walk[t])
        BY <1>1, <1>4, <2>3 DEF Found
      <3>2. x.copied + x.segment_left = x.copied
        BY <1>1
      <3>3. HoldsFirst(s, walk, t, x.copied)
        BY <3>1, <3>2
      <3>4. QED
        BY <2>1, <2>3, <3>1, <3>3
    <2>4. QED
      BY <2>2, <2>3
  <1>8. OnEachWalk(y, s)
    <2>1. SUFFICES ASSUME NEW n \in 1 .. s.num_sgs, NEW walk \in [1 .. n -> DOMAIN s.sg],
                          IsWalk(s, walk, n)
                   PROVE  /\ t + 1 < n => y.next = walk[(t + 1) + 1]
                          /\ \A k \in 1 .. n : k <= t + 1 =>
                                \/ left = x.remaining
                                \/ s.sg[walk[k]].start + s.sg[walk[k]].length <= x.copied + left
      BY <1>5 DEF OnEachWalk
    <2>2. /\ t < n => x.next = walk[t + 1]
          /\ \A k \in 1 .. n : k <= t =>
                \/ x.segment_left = x.remaining
                \/ s.sg[walk[k]].start + s.sg[walk[k]].length <= x.copied + x.segment_left
      BY <1>1, <1>4, <2>1 DEF OnEachWalk
    <2>3. ASSUME t + 1 < n PROVE y.next = walk[(t + 1) + 1]
      <3>1. t + 1 \in 1 .. (n - 1) /\ t < n
        BY <2>3
      <3>2. walk[(t + 1) + 1] = SgSuccessor(s, walk[t + 1])
        BY <2>1, <3>1 DEF IsWalk
      <3>3. QED
        BY <2>2, <3>1, <3>2
    <2>4. ASSUME NEW k \in 1 .. n, k <= t + 1
          PROVE  \/ left = x.remaining
                 \/ s.sg[walk[k]].start + s.sg[walk[k]].length <= x.copied + left
      <3>1. /\ walk[k] \in DOMAIN s.sg /\ s.sg[walk[k]].start \in Nat
            /\ s.sg[walk[k]].length \in Nat
        BY SgTypes
      <3>2. CASE k = t + 1
        <4>1. s.sg[walk[k]] = g
          BY <1>2, <2>2, <3>2
        <4>2. QED
          BY <1>1, <1>2, <1>3, <4>1
      <3>3. CASE k # t + 1
        <4>1. k <= t
          BY <2>4, <3>3
        <4>2. s.sg[walk[k]].start + s.sg[walk[k]].length <= x.copied + x.segment_left
          BY <2>2, <4>1
        <4>3. PICK b \in Nat : b = s.sg[walk[k]].start + s.sg[walk[k]].length
          BY <3>1
        <4>4. PICK a \in Nat : a = x.copied
          BY <1>1
        <4>5. b <= a + x.segment_left
          BY <4>2, <4>3, <4>4
        <4>6. b <= a + left
          BY <4>5
        <4>7. QED
          BY <4>3, <4>4, <4>6
      <3>4. QED
        BY <3>2, <3>3
    <2>5. QED
      BY <2>3, <2>4
  <1>9. RoundsUsed(y, s)
    <2>1. /\ x.iteration * CHUNK_SIZE \in Nat /\ t * CHUNK_SIZE \in Nat
          /\ (x.iteration + 1) * CHUNK_SIZE = x.iteration * CHUNK_SIZE + CHUNK_SIZE
          /\ (t + 1) * CHUNK_SIZE = t * CHUNK_SIZE + CHUNK_SIZE
          /\ CHUNK_SIZE \in Nat
      BY <1>1, Times, TransportAssumption
    <2>2. x.iteration * CHUNK_SIZE <= x.copied + t * CHUNK_SIZE
      BY <1>1, <1>4, <2>1 DEF RoundsUsed
    <2>3. CASE left = 0
      BY <1>1, <1>5, <2>1, <2>2, <2>3 DEF RoundsUsed
    <2>4. CASE left # 0
      BY <1>1, <1>5, <2>1, <2>2, <2>4 DEF RoundsUsed
    <2>5. QED
      BY <2>3, <2>4
  <1>10. QED
    BY <1>1, <1>6, <1>7, <1>8, <1>9 DEF SgWay

\* A chunk has been copied.
LEMMA WayReads ==
    ASSUME NEW s \in Shapes, NEW x, NEW y, ContextTypes(x), SgContext(x, s), SgWay(x, s),
           x.pc = "sg_read", y.pc = "sg", y.copied = x.copied + x.length,
           y.segment_left = x.segment_left - x.length,
           y.remaining = x.remaining - x.length, y.iteration = x.iteration + 1,
           y.next = x.next, y.segments_left = x.segments_left
    PROVE  SgWay(y, s)
  <1>1. /\ x.copied \in Nat /\ x.segments_left \in Nat /\ x.segments_left <= s.num_sgs
        /\ x.remaining \in Nat /\ x.iteration \in Nat /\ x.segment_left \in Nat
        /\ x.length \in Nat /\ x.length # 0 /\ x.length <= x.segment_left
        /\ x.length \in {x.segment_left, CHUNK_SIZE}
        /\ x.segment_left <= x.remaining
        /\ Found(x, s) /\ OnEachWalk(x, s) /\ RoundsUsed(x, s)
        /\ sg_supported /\ SgIterations(s) <= MaxLoops
    BY DEF ContextTypes, SgWay, SgContext
  <1>2. Taken(y, s) = Taken(x, s) /\ Taken(x, s) \in Nat
    BY <1>1, SgTypes DEF Taken
  <1>3. y.copied + y.segment_left = x.copied + x.segment_left
    BY <1>1
  <1>4. y.segment_left = y.remaining <=> x.segment_left = x.remaining
    BY <1>1
  <1>5. Taken(x, s) # 0
    BY <1>1 DEF Found
  <1>6. Found(y, s)
    BY <1>1, <1>2, <1>3, <1>5 DEF Found
  <1>7. OnEachWalk(y, s)
    BY <1>1, <1>2, <1>3, <1>4 DEF OnEachWalk
  <1>8. RoundsUsed(y, s)
    <2> PICK t \in Nat : t = Taken(x, s)
      BY <1>2
    <2>1. /\ x.iteration * CHUNK_SIZE \in Nat /\ t * CHUNK_SIZE \in Nat
          /\ (x.iteration + 1) * CHUNK_SIZE = x.iteration * CHUNK_SIZE + CHUNK_SIZE
          /\ CHUNK_SIZE \in Nat
      BY <1>1, Times, TransportAssumption
    <2>2. x.iteration * CHUNK_SIZE + CHUNK_SIZE <= x.copied + t * CHUNK_SIZE
      BY <1>1, <2>1 DEF RoundsUsed
    <2>3. CASE y.segment_left = 0
      BY <1>1, <1>2, <2>1, <2>2, <2>3 DEF RoundsUsed
    <2>4. CASE y.segment_left # 0
      <3>1. x.length = CHUNK_SIZE
        BY <1>1, <2>4
      <3>2. QED
        BY <1>1, <1>2, <2>1, <2>2, <2>4, <3>1 DEF RoundsUsed
    <2>5. QED
      BY <2>3, <2>4
  <1>9. QED
    BY <1>1, <1>6, <1>7, <1>8 DEF SgWay

\* Only the place in the program changes.
LEMMA WayKeeps ==
    ASSUME NEW s, NEW x, NEW y, SgWay(x, s),
           y.copied = x.copied, y.segment_left = x.segment_left,
           y.remaining = x.remaining, y.iteration = x.iteration,
           y.next = x.next, y.segments_left = x.segments_left,
           y.pc = "sg_read" => y.length \in {y.segment_left, CHUNK_SIZE},
           y.pc # "sg_start" => sg_supported /\ SgIterations(s) <= MaxLoops
    PROVE  SgWay(y, s)
  <1>1. Taken(y, s) = Taken(x, s)
    BY DEF Taken
  <1>2. Found(y, s) /\ OnEachWalk(y, s) /\ RoundsUsed(y, s)
    <2>1. Found(y, s)
      BY <1>1 DEF Found, SgWay
    <2>2. OnEachWalk(y, s)
      BY <1>1 DEF OnEachWalk, SgWay
    <2>3. RoundsUsed(y, s)
      BY <1>1 DEF RoundsUsed, SgWay
    <2>4. QED
      BY <2>1, <2>2, <2>3
  <1>3. QED
    BY <1>2 DEF SgWay

-----------------------------------------------------------------------------
(* An emit() that has met no loss *)

\* All frames so far can be copied.
IsoWay(x, s) ==
    /\ s.iso /\ (PayloadLen(s) # 0 => s.num_sgs = 0 /\ s.buffer)
    /\ DataPhase(s) =>
          \A k \in 1 .. x.descriptors : Chunks(Descriptor(s, k).length) <= MaxLoops

OnWay(x, s) ==
    /\ x.pc = "iso" => IsoWay(x, s)
    /\ x.pc \in {"copy", "read"} => IF s.iso THEN IsoWay(x, s) ELSE Addressable(s)
    /\ x.pc \in SgPcs => SgWay(x, s)
    /\ x.pc = "end" => Addressable(s)

WayInv ==
    \A c \in Cpus : cpu[c] # Idle /\ cpu[c].reason = COMPLETE => OnWay(cpu[c], shape[cpu[c].id])

\* A step of an emit() loses its event for a cause only: no room, a failing read, or
\* memory that it has no route to.
Caused(c) ==
    LET x == cpu[c]
        y == cpu'[c]
        s == shape[x.id]
    IN  /\ stats'.ring_losses = 0 => stats.ring_losses = 0
        /\ y # Idle /\ y.reason = COMPLETE => OnWay(y, s)
        /\ y # Idle /\ y.reason # COMPLETE /\ x.reason = COMPLETE =>
              errors' # 0 \/ stats'.ring_losses # 0 \/ ~Addressable(s)
        /\ y = Idle =>
              \/ ring' = ring /\ stats'.ring_losses # 0
              \/ /\ x.pc = "end"
                 /\ \E rec : /\ ring' = Append(ring, Slot("ready", c, rec))
                             /\ rec.kind = "end" /\ rec.id = x.id /\ rec.reason = x.reason

\* A loss in the ring is counted as such, and no counter goes back.
LEMMA RingCount ==
    ASSUME StatsInv
    PROVE  /\ stats' = Count("ring_losses") => stats'.ring_losses # 0
           /\ \A f \in LossFields \cup {"sg_events"} :
                 stats' = Count(f) => (stats'.ring_losses = 0 => stats.ring_losses = 0)
           /\ \A f \in LossFields :
                 stats' = [stats EXCEPT !["sg_events"] = @ + 1, ![f] = @ + 1] =>
                    (stats'.ring_losses = 0 => stats.ring_losses = 0)
  <1>1. stats.ring_losses \in Nat /\ DOMAIN stats = LossFields \cup {"sg_events"}
    BY DEF StatsInv, LossFields
  <1>2. stats' = Count("ring_losses") => stats'.ring_losses # 0
    BY <1>1 DEF Count, LossFields
  <1>3. ASSUME NEW f \in LossFields \cup {"sg_events"}, stats' = Count(f), stats'.ring_losses = 0
        PROVE  stats.ring_losses = 0
    BY <1>1, <1>3 DEF Count, LossFields
  <1>4. ASSUME NEW f \in LossFields,
               stats' = [stats EXCEPT !["sg_events"] = @ + 1, ![f] = @ + 1],
               stats'.ring_losses = 0
        PROVE  stats.ring_losses = 0
    BY <1>1, <1>4 DEF LossFields
  <1>5. QED
    BY <1>2, <1>3, <1>4

LEMMA GoingCause ==
    ASSUME StatsInv, NEW c \in Cpus, stats' = stats \/ stats' = Count("sg_events"),
           cpu'[c].pc # "idle", OnWay(cpu'[c], shape[cpu[c].id]), cpu'[c].reason = COMPLETE
    PROVE  Caused(c)
  <1>1. cpu'[c] # Idle
    BY DEF Idle
  <1>2. stats'.ring_losses = 0 => stats.ring_losses = 0
    BY RingCount
  <1>3. QED
    BY <1>1, <1>2 DEF Caused

LEMMA LosingCause ==
    ASSUME ShapeInv, CpuInv, StatsInv, NEW c \in Cpus, cpu[c].pc # "idle",
           NEW R \in {LOSS_RING, LOSS_READ, LOSS_UNSUPPORTED_BUFFER},
           cpu'[c].pc = "end", cpu'[c].reason = R,
           NEW f \in LossFields,
           \/ stats' = Count(f)
           \/ stats' = [stats EXCEPT !["sg_events"] = @ + 1, ![f] = @ + 1],
           \/ stats' = Count("ring_losses")
           \/ errors' # 0
           \/ ~Addressable(shape[cpu[c].id])
    PROVE  Caused(c)
  <1>1. cpu'[c] # Idle /\ cpu'[c].reason # COMPLETE
    BY DEF Idle, COMPLETE, LOSS_RING, LOSS_READ, LOSS_UNSUPPORTED_BUFFER
  <1>2. /\ stats'.ring_losses = 0 => stats.ring_losses = 0
        /\ stats' = Count("ring_losses") => stats'.ring_losses # 0
    BY RingCount
  <1>3. QED
    BY <1>1, <1>2 DEF Caused

\* What is known of an emit() that has met no loss.
LEMMA RunningOnWay ==
    ASSUME ShapeInv, CpuInv, WayInv, NEW c \in Cpus, cpu[c].pc \notin {"idle", "end"}
    PROVE  LET x == cpu[c]
               s == shape[x.id]
           IN  /\ x # Idle /\ s \in Shapes /\ ContextOK(x, s) /\ ContextTypes(x)
               /\ Measurable(s) /\ DOMAIN cpu = Cpus /\ DOMAIN x = ContextFields
               /\ x.reason = COMPLETE /\ OnWay(x, s) /\ PayloadLen(s) \in Nat
  <1>1. /\ cpu[c] # Idle /\ shape[cpu[c].id] \in Shapes
        /\ ContextOK(cpu[c], shape[cpu[c].id]) /\ DOMAIN cpu = Cpus
    BY Running
  <1>2. /\ ContextTypes(cpu[c]) /\ Measurable(shape[cpu[c].id]) /\ cpu[c].reason = COMPLETE
        /\ DOMAIN cpu[c] = ContextFields
    BY <1>1 DEF ContextOK, ContextTypes
  <1>3. OnWay(cpu[c], shape[cpu[c].id])
    BY <1>1, <1>2 DEF WayInv
  <1>4. PayloadLen(shape[cpu[c].id]) \in Nat
    BY <1>1, <1>2, MeasureLemma
  <1>5. QED
    BY <1>1, <1>2, <1>3, <1>4

LEMMA BeginCause ==
    ASSUME ShapeInv, CpuInv, StatsInv, WayInv, NEW c \in Cpus, Begin(c)
    PROVE  Caused(c)
  <1> DEFINE x == cpu[c]
             y == cpu'[c]
             s == shape[x.id]
             rec == [kind |-> "begin", id |-> cpu[c].id, meta |-> MetaOf(s)]
  <1>1. x.pc = "begin"
    BY DEF Begin
  <1>2. /\ x # Idle /\ s \in Shapes /\ ContextOK(x, s) /\ Measurable(s)
        /\ DOMAIN cpu = Cpus /\ DOMAIN x = ContextFields
        /\ x.reason = COMPLETE /\ PayloadLen(s) \in Nat
    BY <1>1, RunningOnWay
  <1>3. CASE ~Fits(rec)
    <2>1. ring' = ring /\ stats' = Count("ring_losses") /\ cpu' = [cpu EXCEPT ![c] = Idle]
      BY <1>3 DEF Begin, BeginLost, ShapeOn
    <2>2. y = Idle
      BY <1>2, <2>1
    <2>3. stats'.ring_losses # 0 /\ (stats'.ring_losses = 0 => stats.ring_losses = 0)
      BY <2>1, RingCount
    <2>4. QED
      BY <2>1, <2>2, <2>3 DEF Caused
  <1>4. CASE Fits(rec)
    <2>1. CASE Route(s) = "unsupported"
      <3>1. /\ stats' = Count("unsupported_buffers")
            /\ cpu' = [cpu EXCEPT ![c].pc = "end", ![c].reason = LOSS_UNSUPPORTED_BUFFER]
        BY <1>4, <2>1 DEF Begin, ShapeOn
      <3>2. y.pc = "end" /\ y.reason = LOSS_UNSUPPORTED_BUFFER
        BY <1>2, <3>1 DEF ContextFields
      <3>3. ~Addressable(s)
        BY <1>2, <2>1, ShapeTypes DEF Route, Addressable
      <3>4. QED
        BY <1>1, <3>1, <3>2, <3>3, LosingCause DEF LossFields
    <2>2. CASE Route(s) = "too_long"
      <3>1. /\ stats' = Count("read_errors")
            /\ cpu' = [cpu EXCEPT ![c].pc = "end", ![c].reason = LOSS_READ]
        BY <1>4, <2>2 DEF Begin, ShapeOn
      <3>2. y.pc = "end" /\ y.reason = LOSS_READ
        BY <1>2, <3>1 DEF ContextFields
      <3>3. ~Addressable(s)
        <4>1. Chunks(PayloadLen(s)) \in Nat /\ MaxLoops \in Nat
          BY <1>2, ChunksLemma, TransportAssumption
        <4>2. QED
          BY <1>2, <2>2, <4>1, ShapeTypes DEF Route, Addressable
      <3>4. QED
        BY <1>1, <3>1, <3>2, <3>3, LosingCause DEF LossFields
    <2>3. CASE Route(s) \in {"iso", "end", "sg_start", "copy"}
      <3>1. stats' = stats /\ cpu' = [cpu EXCEPT ![c].pc = Route(s)]
        BY <1>4, <2>3 DEF Begin, ShapeOn
      <3>2. Same(y, x, {"pc"}) /\ y.pc = Route(s)
        BY <1>2, <3>1 DEF Same, ContextFields
      <3>3. x = Context(s, x.id)
        BY <1>1, <1>2 DEF ContextOK
      <3>4. /\ y.reason = COMPLETE /\ y.descriptors = 0 /\ y.segments_left = s.num_sgs
            /\ y.next = SgFirst(s) /\ y.copied = 0 /\ y.segment_left = 0 /\ y.iteration = 0
        <4>1. /\ x.descriptors = 0 /\ x.segments_left = s.num_sgs
              /\ x.next = SgFirst(s) /\ x.copied = 0 /\ x.segment_left = 0 /\ x.iteration = 0
          <5>1. PICK id : x = Context(s, id)
            BY <3>3
          <5> HIDE DEF x, s
          <5>2. QED
            BY <5>1 DEF Context
        <4>2. QED
          BY <1>2, <3>2, <4>1 DEF Same
      <3> HIDE DEF y
      <3>5. OnWay(y, s)
        <4>1. CASE Route(s) = "iso"
          <5>1. IsoWay(y, s)
            BY <3>4, <4>1, ShapeTypes DEF IsoWay, Route
          <5>2. QED
            BY <3>2, <4>1, <5>1 DEF OnWay, SgPcs
        <4>2. CASE Route(s) = "end"
          <5>1. Addressable(s)
            BY <1>2, <4>2, ShapeTypes DEF Addressable, Route
          <5>2. QED
            BY <3>2, <4>2, <5>1 DEF OnWay, SgPcs
        <4>3. CASE Route(s) = "sg_start"
          <5>1. SgWay(y, s)
            BY <1>2, <3>2, <3>4, <4>3, WayBegins
          <5>2. QED
            BY <3>2, <4>3, <5>1 DEF OnWay, SgPcs
        <4>4. CASE Route(s) = "copy"
          <5>1. Addressable(s) /\ ~s.iso
            <6>1. Chunks(PayloadLen(s)) \in Nat /\ MaxLoops \in Nat
              BY <1>2, ChunksLemma, TransportAssumption
            <6>2. QED
              BY <1>2, <4>4, <6>1, ShapeTypes DEF Addressable, Route
          <5>2. QED
            BY <3>2, <4>4, <5>1 DEF OnWay, SgPcs
        <4>5. QED
          BY <2>3, <4>1, <4>2, <4>3, <4>4
      <3>6. y.pc # "idle"
        BY <2>3, <3>2
      <3>7. QED
        BY <3>1, <3>4, <3>5, <3>6, GoingCause DEF y
    <2>4. QED
      BY <1>2, <2>1, <2>2, <2>3, ShapeTypes DEF Route
  <1>5. QED
    BY <1>3, <1>4

LEMMA IsoCause ==
    ASSUME ShapeInv, CpuInv, StatsInv, WayInv, NEW c \in Cpus, IsoFrame(c)
    PROVE  Caused(c)
  <1> DEFINE x == cpu[c]
             y == cpu'[c]
             s == shape[x.id]
             i == x.descriptors
             d == Descriptor(s, i + 1)
  <1>1. x.pc = "iso"
    BY DEF IsoFrame
  <1>2. /\ s \in Shapes /\ ContextOK(x, s) /\ Measurable(s) /\ i \in Nat
        /\ DOMAIN cpu = Cpus /\ DOMAIN x = ContextFields
        /\ x.reason = COMPLETE /\ OnWay(x, s) /\ PayloadLen(s) \in Nat /\ errors \in Nat
    BY <1>1, RunningOnWay DEF ContextTypes, ShapeInv
  <1>3. IsoWay(x, s)
    BY <1>1, <1>2 DEF OnWay
  <1>4. CASE /\ i = Len(s.frames) /\ cpu' = [cpu EXCEPT ![c].pc = "end"] /\ stats' = stats
    <2>1. y.pc = "end" /\ y.reason = COMPLETE
      BY <1>2, <1>4 DEF ContextFields
    <2>2. Addressable(s)
      <3>1. ASSUME PayloadLen(s) # 0, NEW e \in Range(Descriptors(s))
            PROVE  Chunks(e.length) <= MaxLoops
        <4>1. DataPhase(s)
          BY <1>2, <3>1, MeasureLemma
        <4>2. PICK k \in 1 .. Len(s.frames) : e = Descriptor(s, k)
          BY <1>2, <3>1, ShapeTypes
        <4>3. QED
          BY <1>3, <1>4, <4>1, <4>2 DEF IsoWay
      <3>2. QED
        BY <1>2, <1>3, <3>1 DEF Addressable, IsoWay
    <2>3. OnWay(y, s)
      BY <2>1, <2>2 DEF OnWay, SgPcs
    <2>4. QED
      BY <1>4, <2>1, <2>3, GoingCause
  <1>5. CASE /\ cpu' = [cpu EXCEPT ![c].pc = "end", ![c].reason = LOSS_READ]
             /\ Faulty("iso_read") /\ stats' = Count("read_errors")
    <2>1. y.pc = "end" /\ y.reason = LOSS_READ
      BY <1>2, <1>5 DEF ContextFields
    <2>2. errors' # 0
      BY <1>2, <1>5 DEF Faulty
    <2>3. QED
      BY <1>1, <1>5, <2>1, <2>2, LosingCause DEF LossFields
  <1>6. CASE /\ cpu' = [cpu EXCEPT ![c].pc = "end", ![c].reason = LOSS_RING]
             /\ stats' = Count("ring_losses")
    <2>1. y.pc = "end" /\ y.reason = LOSS_RING
      BY <1>2, <1>6 DEF ContextFields
    <2>2. QED
      BY <1>1, <1>6, <2>1, LosingCause DEF LossFields
  <1>7. ASSUME i < Len(s.frames)
        PROVE  /\ i + 1 \in 1 .. Len(s.frames) /\ d.length \in Nat
               /\ Chunks(d.length) \in Nat /\ MaxLoops \in Nat
               /\ DataPhase(s) /\ d.length # 0 => PayloadLen(s) # 0
               /\ d \in Range(Descriptors(s))
    <2>1. i + 1 \in 1 .. Len(s.frames)
      BY <1>2, <1>7, ShapeTypes
    <2>2. d.length \in Nat /\ d \in Range(Descriptors(s))
      BY <1>2, <2>1, ShapeTypes
    <2>3. DataPhase(s) /\ d.length # 0 => PayloadLen(s) # 0
      BY <1>2, <1>3, <2>1, MeasureLemma DEF IsoWay
    <2>4. QED
      BY <2>1, <2>2, <2>3, ChunksLemma, TransportAssumption
  <1>8. CASE /\ i < Len(s.frames) /\ DataPhase(s) /\ Chunks(d.length) > MaxLoops
             /\ stats' = Count("read_errors")
             /\ cpu' = [cpu EXCEPT ![c].descriptors = i + 1,
                           ![c].pc = "end", ![c].reason = LOSS_READ]
    <2>1. y.pc = "end" /\ y.reason = LOSS_READ
      BY <1>2, <1>8 DEF ContextFields
    <2>2. ~Addressable(s)
      <3>1. d.length # 0
        <4>1. PICK C \in Nat : C = CHUNK_SIZE /\ 1 <= C
          BY TransportAssumption
        <4>2. (0 + C - 1) \div C = 0
          BY <4>1
        <4>3. Chunks(0) = 0
          BY <4>1, <4>2 DEF Chunks
        <4>4. QED
          BY <1>7, <1>8, <4>3
      <3>2. PayloadLen(s) # 0
        BY <1>7, <1>8, <3>1
      <3> HIDE DEF d
      <3>3. QED
        BY <1>3, <1>7, <1>8, <3>2 DEF Addressable, IsoWay
    <2>3. QED
      BY <1>1, <1>8, <2>1, <2>2, LosingCause DEF LossFields
  <1>9. CASE /\ i < Len(s.frames) /\ ~(DataPhase(s) /\ Chunks(d.length) > MaxLoops)
             /\ stats' = stats
             /\ cpu' = IF DataPhase(s) /\ d.length # 0
                       THEN [cpu EXCEPT ![c] = FrameCopy(@, d)]
                       ELSE [cpu EXCEPT ![c].descriptors = i + 1]
    <2>1. /\ y.pc \in {"iso", "copy"} /\ y.reason = COMPLETE /\ y.descriptors = i + 1
      <3>1. CASE cpu' = [cpu EXCEPT ![c] = FrameCopy(@, d)]
        BY <1>2, <3>1 DEF ContextFields, FrameCopy
      <3>2. CASE cpu' = [cpu EXCEPT ![c].descriptors = i + 1]
        BY <1>1, <1>2, <3>2 DEF ContextFields
      <3>3. QED
        BY <1>9, <3>1, <3>2
    <2> HIDE DEF y
    <2>2. ASSUME DataPhase(s), NEW k \in 1 .. (i + 1)
          PROVE  Chunks(Descriptor(s, k).length) <= MaxLoops
      <3>1. CASE k = i + 1
        BY <1>7, <1>9, <2>2, <3>1
      <3>2. CASE k # i + 1
        <4>1. k \in 1 .. i
          BY <1>2, <3>2
        <4>2. QED
          BY <1>3, <2>2, <4>1 DEF IsoWay
      <3>3. QED
        BY <3>1, <3>2
    <2>3. IsoWay(y, s)
      BY <1>3, <2>1, <2>2 DEF IsoWay
    <2>4. OnWay(y, s)
      BY <2>1, <2>3 DEF OnWay, SgPcs, IsoWay
    <2>5. y.pc # "idle"
      BY <2>1
    <2>6. QED
      BY <1>9, <2>1, <2>4, <2>5, GoingCause DEF y
  <1>10. QED
    BY <1>4, <1>5, <1>6, <1>8, <1>9 DEF IsoFrame, ShapeOn

LEMMA CopyCause ==
    ASSUME ShapeInv, CpuInv, StatsInv, WayInv, NEW c \in Cpus, CopyCallback(c)
    PROVE  Caused(c)
  <1> DEFINE x == cpu[c]
             y == cpu'[c]
             s == shape[x.id]
             offset == x.index * CHUNK_SIZE
             length == Min({x.total - offset, CHUNK_SIZE})
             rec == [kind |-> "data", id |-> x.id, offset |-> x.destination + offset,
                     body |-> [j \in 1 .. length |-> x.source + offset + j - 1]]
  <1>1. x.pc = "copy"
    BY DEF CopyCallback
  <1>2. /\ s \in Shapes /\ DOMAIN cpu = Cpus /\ DOMAIN x = ContextFields
        /\ x.reason = COMPLETE /\ OnWay(x, s) /\ s.iso \in BOOLEAN
    BY <1>1, RunningOnWay, ShapeTypes
  <1>3. CASE offset >= x.total
    <2>1. /\ cpu' = [cpu EXCEPT ![c].copied = @ + x.done, ![c].done = 0,
                        ![c].pc = IF s.iso THEN "iso" ELSE "end"]
          /\ stats' = stats
      BY <1>3 DEF CopyCallback, ShapeOn
    <2>2. /\ y.pc = (IF s.iso THEN "iso" ELSE "end") /\ y.reason = COMPLETE
          /\ y.descriptors = x.descriptors
      BY <1>2, <2>1 DEF ContextFields
    <2> HIDE DEF y
    <2>3. OnWay(y, s)
      BY <1>1, <1>2, <2>2 DEF OnWay, IsoWay, SgPcs
    <2>4. y.pc # "idle"
      BY <2>2
    <2>5. QED
      BY <2>1, <2>2, <2>3, <2>4, GoingCause DEF y
  <1>4. CASE ~(offset >= x.total)
    <2>1. ReserveChunk(c, offset, length)
      BY <1>4 DEF CopyCallback
    <2>2. CASE Fits(rec)
      <3>1. /\ stats' = stats
            /\ cpu' = [cpu EXCEPT ![c].pc = "read", ![c].length = length]
        BY <2>1, <2>2 DEF ReserveChunk
      <3> HIDE DEF rec, length
      <3>2. y.pc = "read" /\ y.reason = COMPLETE /\ y.descriptors = x.descriptors
        BY <1>2, <3>1 DEF ContextFields
      <3> HIDE DEF y
      <3>3. OnWay(y, s)
        BY <1>1, <1>2, <3>2 DEF OnWay, IsoWay, SgPcs
      <3>4. QED
        BY <3>1, <3>2, <3>3, GoingCause DEF y
    <2>3. CASE ~Fits(rec)
      <3>1. /\ stats' = Count("ring_losses")
            /\ cpu' = [cpu EXCEPT ![c].pc = "end", ![c].reason = LOSS_RING,
                          ![c].copied = @ + x.done]
        BY <2>1, <2>3 DEF ReserveChunk
      <3>2. y.pc = "end" /\ y.reason = LOSS_RING
        BY <1>2, <3>1 DEF ContextFields
      <3>3. QED
        BY <1>1, <3>1, <3>2, LosingCause DEF LossFields
    <2>4. QED
      BY <2>2, <2>3
  <1>5. QED
    BY <1>3, <1>4

LEMMA SgCauseFacts ==
    ASSUME ShapeInv, CpuInv, WayInv, NEW c \in Cpus, cpu[c].pc \in SgPcs
    PROVE  LET x == cpu[c]
               s == shape[x.id]
           IN  /\ s \in Shapes /\ ContextTypes(x) /\ Measurable(s) /\ DOMAIN cpu = Cpus
               /\ DOMAIN x = ContextFields /\ x.reason = COMPLETE /\ x.pc # "idle"
               /\ SgContext(x, s) /\ SgWay(x, s) /\ errors \in Nat
  <1>1. cpu[c].pc \notin {"idle", "end"}
    BY DEF SgPcs
  <1>2. /\ shape[cpu[c].id] \in Shapes /\ ContextTypes(cpu[c]) /\ Measurable(shape[cpu[c].id])
        /\ DOMAIN cpu = Cpus /\ DOMAIN cpu[c] = ContextFields /\ cpu[c].reason = COMPLETE
        /\ OnWay(cpu[c], shape[cpu[c].id])
    BY <1>1, RunningOnWay
  <1>3. SgContext(cpu[c], shape[cpu[c].id])
    BY SgFacts
  <1>4. QED
    BY <1>1, <1>2, <1>3 DEF OnWay, ShapeInv

LEMMA SgStartCause ==
    ASSUME ShapeInv, CpuInv, StatsInv, WayInv, NEW c \in Cpus, SgStart(c)
    PROVE  Caused(c)
  <1> DEFINE x == cpu[c]
             y == cpu'[c]
             s == shape[x.id]
  <1>1. x.pc = "sg_start" /\ x.pc \in SgPcs
    BY DEF SgStart, SgPcs
  <1>2. /\ s \in Shapes /\ ContextTypes(x) /\ Measurable(s) /\ DOMAIN cpu = Cpus
        /\ DOMAIN x = ContextFields /\ x.reason = COMPLETE /\ x.pc # "idle"
        /\ SgContext(x, s) /\ SgWay(x, s) /\ errors \in Nat
    BY <1>1, SgCauseFacts
  <1>3. PayloadLen(s) # 0 /\ s.num_sgs # 0
    BY <1>2 DEF SgContext
  <1>4. SgIterations(s) \in Nat /\ MaxLoops \in Nat
    <2>1. PayloadLen(s) \in Nat /\ s.num_sgs \in Nat
      BY <1>2, MeasureLemma, SgTypes
    <2>2. Chunks(PayloadLen(s)) \in Nat
      BY <2>1, ChunksLemma
    <2>3. QED
      BY <2>1, <2>2, TransportAssumption DEF SgIterations
  <1>5. ASSUME NEW R \in {LOSS_READ, LOSS_UNSUPPORTED_BUFFER}, NEW f \in LossFields,
               cpu' = [cpu EXCEPT ![c].pc = "end", ![c].reason = R],
               stats' = [stats EXCEPT !["sg_events"] = @ + 1, ![f] = @ + 1],
               ~Addressable(s) \/ errors' # 0
        PROVE  Caused(c)
    <2>1. y.pc = "end" /\ y.reason = R
      BY <1>2, <1>5 DEF ContextFields
    <2>2. QED
      BY <1>2, <1>5, <2>1, LosingCause
  <1>6. CASE /\ ~sg_supported
             /\ cpu' = [cpu EXCEPT ![c].pc = "end", ![c].reason = LOSS_UNSUPPORTED_BUFFER]
             /\ stats' = [stats EXCEPT !["sg_events"] = @ + 1, !["unsupported_buffers"] = @ + 1]
    <2>1. ~Addressable(s)
      BY <1>3, <1>6 DEF Addressable
    <2>2. QED
      BY <1>5, <1>6, <2>1 DEF LossFields
  <1>7. CASE /\ Faulty("sg_read") \/ SgIterations(s) > MaxLoops
             /\ cpu' = [cpu EXCEPT ![c].pc = "end", ![c].reason = LOSS_READ]
             /\ stats' = [stats EXCEPT !["sg_events"] = @ + 1, !["read_errors"] = @ + 1]
    <2>1. Faulty("sg_read") => errors' # 0
      BY <1>2 DEF Faulty
    <2>2. SgIterations(s) > MaxLoops => ~Addressable(s)
      BY <1>3, <1>4 DEF Addressable
    <2>3. QED
      BY <1>5, <1>7, <2>1, <2>2 DEF LossFields
  <1>8. CASE /\ sg_supported /\ SgIterations(s) <= MaxLoops
             /\ cpu' = [cpu EXCEPT ![c].pc = "sg"] /\ stats' = Count("sg_events")
    <2>1. Same(y, x, {"pc"}) /\ y.pc = "sg"
      BY <1>2, <1>8 DEF Same, ContextFields
    <2> HIDE DEF y
    <2>2. SgWay(y, s) /\ y.reason = COMPLETE
      BY <1>2, <1>8, <2>1, WayKeeps DEF Same
    <2>3. OnWay(y, s)
      BY <2>1, <2>2 DEF OnWay
    <2>4. QED
      BY <1>8, <2>1, <2>2, <2>3, GoingCause DEF y
  <1>9. QED
    BY <1>6, <1>7, <1>8 DEF SgStart, ShapeOn

LEMMA SgDoneCause ==
    ASSUME ShapeInv, CpuInv, StatsInv, WayInv, NEW c \in Cpus, SgDone(c)
    PROVE  Caused(c)
  <1> DEFINE x == cpu[c]
             y == cpu'[c]
             s == shape[x.id]
  <1>1. x.pc = "sg" /\ x.pc \in SgPcs
    BY DEF SgDone, SgPcs
  <1>2. /\ s \in Shapes /\ ContextTypes(x) /\ Measurable(s) /\ DOMAIN cpu = Cpus
        /\ DOMAIN x = ContextFields /\ x.reason = COMPLETE /\ x.pc # "idle"
        /\ SgContext(x, s) /\ SgWay(x, s)
    BY <1>1, SgCauseFacts
  <1>3. x.remaining = 0
    <2>1. SUFFICES ASSUME x.remaining # 0 PROVE FALSE
      OBVIOUS
    <2>2. x.iteration = SgIterations(s)
      BY <2>1 DEF SgDone, ShapeOn
    <2>3. x.iteration < SgIterations(s) /\ x.iteration \in Nat
      BY <1>2, <2>1, RoundsSuffice DEF ContextTypes
    <2>4. QED
      BY <2>2, <2>3
  <1>4. cpu' = [cpu EXCEPT ![c].pc = "end"] /\ stats' = stats
    BY <1>3 DEF SgDone
  <1>5. y.pc = "end" /\ y.reason = COMPLETE
    BY <1>2, <1>4 DEF ContextFields
  <1>6. Addressable(s)
    BY <1>1, <1>2, <1>3, WayEnds
  <1>7. OnWay(y, s)
    BY <1>5, <1>6 DEF OnWay, SgPcs
  <1>8. QED
    BY <1>4, <1>5, <1>7, GoingCause

LEMMA SgNextCause ==
    ASSUME ShapeInv, CpuInv, StatsInv, WayInv, NEW c \in Cpus, SgNext(c)
    PROVE  Caused(c)
  <1> DEFINE x == cpu[c]
             y == cpu'[c]
             s == shape[x.id]
             left == Min({s.sg[x.next].length, x.remaining})
  <1>1. x.pc = "sg" /\ x.pc \in SgPcs /\ x.remaining # 0 /\ x.segment_left = 0
    BY DEF SgNext, SgPcs
  <1>2. /\ s \in Shapes /\ ContextTypes(x) /\ Measurable(s) /\ DOMAIN cpu = Cpus
        /\ DOMAIN x = ContextFields /\ x.reason = COMPLETE /\ x.pc # "idle"
        /\ SgContext(x, s) /\ SgWay(x, s) /\ errors \in Nat
    BY <1>1, SgCauseFacts
  <1>3. CASE /\ ~HasSegment(x, s) \/ Faulty("sg_read")
             /\ stats' = Count("read_errors")
             /\ cpu' = [cpu EXCEPT ![c].pc = "end", ![c].reason = LOSS_READ]
    <2>1. y.pc = "end" /\ y.reason = LOSS_READ
      BY <1>2, <1>3 DEF ContextFields
    <2>2. Faulty("sg_read") => errors' # 0
      BY <1>2 DEF Faulty
    <2>3. ~HasSegment(x, s) => ~Addressable(s)
      BY <1>1, <1>2, WayGoesOn
    <2>4. QED
      BY <1>2, <1>3, <2>1, <2>2, <2>3, LosingCause DEF LossFields
  <1>4. CASE /\ HasSegment(x, s) /\ stats' = stats
             /\ cpu' = [cpu EXCEPT
                   ![c].next = SgSuccessor(s, @), ![c].segments_left = @ - 1,
                   ![c].segment_left = left, ![c].source = s.sg[x.next].start,
                   ![c].pc = IF left = 0 THEN "sg" ELSE "sg_chunk",
                   ![c].iteration = IF left = 0 THEN @ + 1 ELSE @]
    <2> DEFINE len == s.sg[x.next].length
    <2>1. len \in Nat /\ x.remaining \in Nat
      <3>1. x.next \in DOMAIN s.sg
        BY <1>2, <1>4 DEF SgContext, HasSegment
      <3>2. QED
        BY <1>2, <3>1, SgTypes DEF ContextTypes
    <2>2. left = (IF len <= x.remaining THEN len ELSE x.remaining) /\ left \in Nat
      <3>1. PICK l \in Nat, m \in Nat : l = len /\ m = x.remaining
        BY <2>1
      <3>2. Min({l, m}) = IF l <= m THEN l ELSE m
        BY PairLemma
      <3>3. left = Min({l, m})
        BY <3>1
      <3> HIDE DEF left, len
      <3>4. QED
        BY <3>1, <3>2, <3>3
    <2> HIDE DEF left
    <2>3. /\ y.next = SgSuccessor(s, x.next) /\ y.segments_left = x.segments_left - 1
          /\ y.segment_left = left
      BY <1>2, <1>4 DEF ContextFields
    <2>4. /\ y.pc = IF left = 0 THEN "sg" ELSE "sg_chunk"
          /\ y.iteration = IF left = 0 THEN x.iteration + 1 ELSE x.iteration
      BY <1>2, <1>4 DEF ContextFields
    <2>5. y.copied = x.copied /\ y.remaining = x.remaining /\ y.reason = x.reason
      BY <1>2, <1>4 DEF ContextFields
    <2> HIDE DEF y
    <2>6. y.pc \in {"sg", "sg_chunk"} /\ y.pc # "idle"
      BY <2>4
    <2>7. SgWay(y, s)
      BY <1>1, <1>2, <1>4, <2>2, <2>3, <2>4, <2>5, <2>6, WayTakes
    <2>8. OnWay(y, s)
      BY <2>6, <2>7 DEF OnWay
    <2>9. QED
      BY <1>2, <1>4, <2>5, <2>6, <2>8, GoingCause DEF y
  <1>5. QED
    BY <1>3, <1>4 DEF SgNext, ShapeOn

LEMMA SgChunkCause ==
    ASSUME ShapeInv, CpuInv, StatsInv, WayInv, NEW c \in Cpus, SgChunk(c)
    PROVE  Caused(c)
  <1> DEFINE x == cpu[c]
             y == cpu'[c]
             s == shape[x.id]
             length == Min({x.segment_left, CHUNK_SIZE})
             rec == [kind |-> "data", id |-> x.id, offset |-> x.copied,
                     body |-> [j \in 1 .. length |-> x.source + j - 1]]
  <1>1. x.pc \in {"sg", "sg_chunk"} /\ x.pc \in SgPcs
    BY DEF SgChunk, SgPcs
  <1>2. /\ s \in Shapes /\ ContextTypes(x) /\ Measurable(s) /\ DOMAIN cpu = Cpus
        /\ DOMAIN x = ContextFields /\ x.reason = COMPLETE /\ x.pc # "idle"
        /\ SgContext(x, s) /\ SgWay(x, s)
    BY <1>1, SgCauseFacts
  <1>3. length \in {x.segment_left, CHUNK_SIZE}
    <2>1. PICK l \in Nat, m \in Nat : l = x.segment_left /\ m = CHUNK_SIZE
      BY <1>2, TransportAssumption DEF ContextTypes
    <2>2. Min({l, m}) = IF l <= m THEN l ELSE m
      BY PairLemma
    <2>3. length = Min({l, m})
      BY <2>1
    <2> HIDE DEF length
    <2>4. QED
      BY <2>1, <2>2, <2>3
  <1> HIDE DEF length
  <1>4. CASE Fits(rec)
    <2>1. /\ stats' = stats
          /\ cpu' = [cpu EXCEPT ![c].pc = "sg_read", ![c].length = length]
      BY <1>4 DEF SgChunk, length
    <2>2. Same(y, x, {"pc", "length"}) /\ y.pc = "sg_read" /\ y.length = length
      BY <1>2, <2>1 DEF Same, ContextFields
    <2> HIDE DEF y
    <2>3. SgWay(y, s) /\ y.reason = COMPLETE
      <3>1. sg_supported /\ SgIterations(s) <= MaxLoops
        BY <1>1, <1>2 DEF SgWay
      <3>2. QED
        BY <1>2, <1>3, <2>2, <3>1, WayKeeps DEF Same
    <2>4. OnWay(y, s)
      BY <2>2, <2>3 DEF OnWay
    <2>5. QED
      BY <2>1, <2>2, <2>3, <2>4, GoingCause DEF y
  <1>5. CASE ~Fits(rec)
    <2>1. /\ stats' = Count("ring_losses")
          /\ cpu' = [cpu EXCEPT ![c].pc = "end", ![c].reason = LOSS_RING]
      BY <1>5 DEF SgChunk, length
    <2>2. y.pc = "end" /\ y.reason = LOSS_RING
      BY <1>2, <2>1 DEF ContextFields
    <2>3. QED
      BY <1>2, <2>1, <2>2, LosingCause DEF LossFields
  <1>6. QED
    BY <1>4, <1>5

LEMMA ReadCause ==
    ASSUME ShapeInv, CpuInv, StatsInv, WayInv, NEW c \in Cpus, ReadChunk(c)
    PROVE  Caused(c)
  <1> DEFINE x == cpu[c]
             y == cpu'[c]
             s == shape[x.id]
  <1>1. x.pc \in {"read", "sg_read"} /\ stats' = stats
    BY DEF ReadChunk
  <1>2. /\ s \in Shapes /\ ContextTypes(x) /\ DOMAIN cpu = Cpus
        /\ DOMAIN x = ContextFields /\ x.reason = COMPLETE /\ OnWay(x, s)
    BY <1>1, RunningOnWay
  <1>3. CASE x.pc = "read"
    <2>1. cpu' = [cpu EXCEPT ![c].pc = "copy", ![c].done = @ + x.length, ![c].index = @ + 1]
      BY <1>3 DEF ReadChunk
    <2>2. y.pc = "copy" /\ y.reason = COMPLETE /\ y.descriptors = x.descriptors
      BY <1>2, <2>1 DEF ContextFields
    <2> HIDE DEF y
    <2>3. OnWay(y, s)
      BY <1>2, <1>3, <2>2 DEF OnWay, IsoWay, SgPcs
    <2>4. QED
      BY <1>1, <2>2, <2>3, GoingCause DEF y
  <1>4. CASE x.pc = "sg_read"
    <2>1. cpu' = [cpu EXCEPT ![c].pc = "sg", ![c].copied = @ + x.length,
                     ![c].source = @ + x.length, ![c].segment_left = @ - x.length,
                     ![c].remaining = @ - x.length, ![c].iteration = @ + 1]
      BY <1>4 DEF ReadChunk
    <2>2. /\ y.pc = "sg" /\ y.copied = x.copied + x.length /\ y.reason = COMPLETE
          /\ y.segment_left = x.segment_left - x.length
      BY <1>2, <2>1 DEF ContextFields
    <2>3. /\ y.remaining = x.remaining - x.length /\ y.iteration = x.iteration + 1
          /\ y.next = x.next /\ y.segments_left = x.segments_left
      BY <1>2, <2>1 DEF ContextFields
    <2>4. SgContext(x, s) /\ SgWay(x, s)
      BY <1>4, SgCauseFacts DEF SgPcs
    <2> HIDE DEF y
    <2>5. SgWay(y, s)
      BY <1>2, <1>4, <2>2, <2>3, <2>4, WayReads
    <2>6. OnWay(y, s)
      BY <2>2, <2>5 DEF OnWay
    <2>7. QED
      BY <1>1, <2>2, <2>6, GoingCause DEF y
  <1>5. QED
    BY <1>1, <1>3, <1>4

LEMMA ReadFailsCause ==
    ASSUME ShapeInv, CpuInv, StatsInv, WayInv, NEW c \in Cpus, ReadChunkFails(c)
    PROVE  Caused(c)
  <1>1. /\ cpu[c].pc \in {"read", "sg_read"} /\ stats' = Count("read_errors")
        /\ cpu' = [cpu EXCEPT ![c].pc = "end", ![c].reason = LOSS_READ,
                      ![c].copied = @ + cpu[c].done]
        /\ errors' = errors + 1
    BY DEF ReadChunkFails, Faulty
  <1>2. DOMAIN cpu = Cpus /\ DOMAIN cpu[c] = ContextFields
    BY <1>1, RunningOnWay
  <1>3. cpu'[c].pc = "end" /\ cpu'[c].reason = LOSS_READ
    BY <1>1, <1>2 DEF ContextFields
  <1>4. errors' # 0
    BY <1>1 DEF ShapeInv
  <1>5. QED
    BY <1>1, <1>3, <1>4, LosingCause DEF LossFields

LEMMA EndCause ==
    ASSUME ShapeInv, CpuInv, StatsInv, NEW c \in Cpus, End(c)
    PROVE  Caused(c)
  <1> DEFINE x == cpu[c]
             rec == [kind |-> "end", id |-> x.id, copied |-> x.copied,
                     descriptors |-> x.descriptors, reason |-> x.reason]
  <1>1. x.pc = "end" /\ cpu' = [cpu EXCEPT ![c] = Idle]
    BY DEF End
  <1>2. cpu'[c] = Idle
    BY <1>1 DEF CpuInv
  <1>3. CASE Fits(rec)
    <2>1. ring' = Append(ring, Slot("ready", c, rec)) /\ stats' = stats
      BY <1>3 DEF End, Publish
    <2>2. rec.kind = "end" /\ rec.id = x.id /\ rec.reason = x.reason
      OBVIOUS
    <2> HIDE DEF rec
    <2>3. QED
      BY <1>1, <1>2, <2>1, <2>2 DEF Caused
  <1>4. CASE ~Fits(rec)
    <2>1. ring' = ring /\ stats' = Count("ring_losses")
      BY <1>4 DEF End, EndLost
    <2>2. stats'.ring_losses # 0 /\ (stats'.ring_losses = 0 => stats.ring_losses = 0)
      BY <2>1, RingCount
    <2>3. QED
      BY <1>2, <2>1, <2>2 DEF Caused
  <1>5. QED
    BY <1>3, <1>4

\* Every step of an emit().
LEMMA EmitCause ==
    ASSUME ShapeInv, CpuInv, StatsInv, WayInv, NEW c \in Cpus, EmitStep(c)
    PROVE  Caused(c)
  BY BeginCause, IsoCause, CopyCause, SgStartCause, SgDoneCause, SgNextCause, SgChunkCause,
     ReadCause, ReadFailsCause, EndCause DEF EmitStep

-----------------------------------------------------------------------------
(* Losses and their causes *)

\* An event that ended well could be reached; without a full ring or a failing read,
\* one that is lost could not.
CauseInv ==
    /\ WayInv
    /\ \A id \in DOMAIN shape : Ended(id) \/ id \in Done => Addressable(shape[id])
    /\ errors = 0 /\ stats.ring_losses = 0 => \A id \in Lost : ~Addressable(shape[id])

\* The way is the same for as long as the configuration is.
LEMMA WayStable ==
    ASSUME sg_supported' = sg_supported
    PROVE  /\ WayInv' <=>
                 \A c \in Cpus : cpu'[c] # Idle /\ cpu'[c].reason = COMPLETE =>
                    OnWay(cpu'[c], shape'[cpu'[c].id])
           /\ CauseInv' <=>
                 /\ WayInv'
                 /\ \A id \in DOMAIN shape' : Ended(id)' \/ id \in Done' => Addressable(shape'[id])
                 /\ errors' = 0 /\ stats'.ring_losses = 0 =>
                       \A id \in Lost' : ~Addressable(shape'[id])
  <1>1. WayInv' <=>
           \A c \in Cpus : cpu'[c] # Idle /\ cpu'[c].reason = COMPLETE =>
              OnWay(cpu'[c], shape'[cpu'[c].id])
    BY DEF WayInv, OnWay, SgWay, Addressable
  <1>2. CauseInv' <=>
           /\ WayInv'
           /\ \A id \in DOMAIN shape' : Ended(id)' \/ id \in Done' => Addressable(shape'[id])
           /\ errors' = 0 /\ stats'.ring_losses = 0 =>
                 \A id \in Lost' : ~Addressable(shape'[id])
    BY DEF CauseInv, Addressable
  <1>3. QED
    BY <1>1, <1>2

LEMMA EmitCauses ==
    ASSUME TransportInv, StatsInv, CauseInv, NEW c \in Cpus, EmitStep(c)
    PROVE  CauseInv'
  <1> DEFINE x == cpu[c]
             y == cpu'[c]
             s == shape[x.id]
  <1>1. ShapeInv /\ CpuInv /\ RingInv /\ WayInv
    BY DEF TransportInv, CauseInv
  <1>2. Effect(c) /\ Fate(c) /\ Caused(c)
    BY <1>1, EmitEffect, EmitFate, EmitCause
  <1> PICK own : own = x.id
    OBVIOUS
  <1>3. /\ shape' = shape /\ Done' = Done /\ x # Idle
        /\ \A d \in Cpus : Runs(d, own)' <=> d = c /\ y # Idle
    BY <1>2, OneEvent
  <1>4. \A id : id # own => (Sound(id)' <=> Sound(id))
    BY <1>2, OneEvent
  <1>5. /\ own \in DOMAIN shape /\ ~Ended(own) /\ own \notin Done
        /\ \A d \in Cpus : Runs(d, own) <=> d = c
    BY <1>3, OwnEvent
  <1>6. /\ Sound(own) <=> x.reason = COMPLETE
        /\ Sound(own)' <=> y # Idle /\ y.reason = COMPLETE
    BY <1>3, <1>5 DEF Sound
  <1>7. own \in Lost <=> x.reason # COMPLETE
    BY <1>5, <1>6, LostLemma
  <1>8. \A id : id \in Lost' <=>
           id \in DOMAIN shape /\ ~Sound(id)' /\ ~Ended(id)' /\ id \notin Done
    BY <1>3 DEF Lost, Done, Alive, Sound, Ended, Runs
  <1>9. /\ sg_supported' = sg_supported /\ (\A d \in Cpus : d # c => cpu'[d] = cpu[d])
        /\ errors \in Nat /\ (errors' = errors \/ errors' = errors + 1)
        /\ y = Idle \/ y.id = own
    BY <1>1, <1>2 DEF Effect, Follows, ShapeInv
  <1>10. /\ stats'.ring_losses = 0 => stats.ring_losses = 0
         /\ errors' = 0 => errors = 0
    BY <1>2, <1>9 DEF Caused
  <1>11. WayInv'
    <2>1. ASSUME NEW d \in Cpus, cpu'[d] # Idle, cpu'[d].reason = COMPLETE
          PROVE  OnWay(cpu'[d], shape'[cpu'[d].id])
      <3>1. CASE d = c
        BY <1>2, <1>3, <1>9, <2>1, <3>1 DEF Caused
      <3>2. CASE d # c
        BY <1>1, <1>3, <1>9, <2>1, <3>2 DEF WayInv
      <3>3. QED
        BY <3>1, <3>2
    <2>2. QED
      BY <1>9, <2>1, WayStable
  <1>12. /\ \A id : id # own => (Ended(id)' <=> Ended(id))
         /\ Ended(own)' => y = Idle /\ x.pc = "end" /\ x.reason = COMPLETE
         /\ y = Idle /\ stats'.ring_losses = 0 /\ x.reason = COMPLETE => Ended(own)'
    <2>1. ASSUME NEW rec, ring' = Append(ring, Slot("ready", c, rec)), rec.kind = "end",
                 rec.id = own, rec.reason = x.reason
          PROVE  \A id : Ended(id)' <=> Ended(id) \/ (id = own /\ x.reason = COMPLETE)
      BY <1>1, <2>1, FinishLemma
    <2>2. CASE y # Idle \/ ring' = ring
      <3>1. Quiet(c)
        BY <1>2, <2>2 DEF Fate, GoesOn, Spoils, GivesUp, Finishes, Quiet
      <3>2. \A id : Ended(id)' <=> Ended(id)
        BY <1>1, <3>1, QuietLemma
      <3>3. y = Idle => stats'.ring_losses # 0
        <4>1. ASSUME NEW rec, ring' = Append(ring, Slot("ready", c, rec)) PROVE ring' # ring
          BY <1>1, <4>1, AppendFacts
        <4>2. QED
          BY <1>2, <2>2, <4>1 DEF Caused
      <3>4. QED
        BY <1>5, <3>2, <3>3
    <2>3. CASE y = Idle /\ ring' # ring
      <3>1. PICK rec : /\ ring' = Append(ring, Slot("ready", c, rec))
                       /\ rec.kind = "end" /\ rec.id = own /\ rec.reason = x.reason
        BY <1>2, <2>3 DEF Caused
      <3>2. x.pc = "end"
        BY <1>2, <2>3 DEF Caused
      <3>3. QED
        BY <1>5, <2>1, <2>3, <3>1, <3>2
    <2>4. QED
      BY <2>2, <2>3
  <1>13. ASSUME NEW id \in DOMAIN shape', Ended(id)' \/ id \in Done'
         PROVE  Addressable(shape'[id])
    <2>1. CASE id # own \/ ~Ended(own)'
      BY <1>3, <1>5, <1>12, <1>13, <2>1 DEF CauseInv
    <2>2. CASE id = own /\ Ended(own)'
      <3>1. OnWay(x, s) /\ x.pc = "end"
        BY <1>1, <1>3, <1>12, <2>2 DEF WayInv
      <3>2. QED
        BY <1>3, <2>2, <3>1 DEF OnWay
    <2>3. QED
      BY <2>1, <2>2
  <1>14. ASSUME errors' = 0, stats'.ring_losses = 0, NEW id \in Lost'
         PROVE  ~Addressable(shape'[id])
    <2>1. CASE id # own
      <3>1. id \in Lost
        BY <1>4, <1>8, <1>12, <2>1, LostLemma
      <3>2. QED
        BY <1>3, <1>10, <1>14, <3>1 DEF CauseInv
    <2>2. CASE id = own /\ x.reason # COMPLETE
      BY <1>3, <1>7, <1>10, <1>14, <2>2 DEF CauseInv
    <2>3. CASE id = own /\ x.reason = COMPLETE
      <3>1. ~Sound(own)' /\ ~Ended(own)'
        BY <1>8, <1>14, <2>3
      <3>2. y # Idle /\ y.reason # COMPLETE
        BY <1>6, <1>12, <1>14, <2>3, <3>1
      <3>3. QED
        BY <1>2, <1>3, <1>14, <2>3, <3>2 DEF Caused
    <2>4. QED
      BY <2>1, <2>2, <2>3
  <1>15. QED
    BY <1>9, <1>11, <1>13, <1>14, WayStable

LEMMA StartCauses ==
    ASSUME TransportInv, StatsInv, CauseInv, NEW c \in Cpus, Start(c)
    PROVE  CauseInv'
  <1>1. ShapeInv /\ CpuInv /\ RingInv /\ EventInv
    BY DEF TransportInv
  <1>2. /\ cpu[c] = Idle /\ (\A d \in Cpus : d # c => cpu'[d] = cpu[d])
        /\ ring' = ring /\ delivered' = delivered /\ sg_supported' = sg_supported
        /\ DOMAIN cpu = Cpus
    BY <1>1, StartEnters DEF Enters, reassembler, CpuInv
  <1>3. PICK n \in Nat : n = Len(shape)
    BY <1>1 DEF ShapeInv
  <1>4. DOMAIN shape = 1 .. n /\ shape \in Seq(Shapes) /\ errors \in Nat
    BY <1>1, <1>3 DEF ShapeInv
  <1>5. Done' = Done /\ \A id : Ended(id)' <=> Ended(id)
    BY <1>2 DEF Done, Ended
  <1>6. ~Ended(n + 1) /\ n + 1 \notin Done
    <2>1. n + 1 \notin DOMAIN shape
      BY <1>4
    <2>2. \A i \in DOMAIN ring : ring[i].record.id \in DOMAIN shape
      BY <1>1 DEF RingInv, SlotInv
    <2>3. \A e \in delivered : e.id \in DOMAIN shape
      BY <1>1 DEF EventInv
    <2>4. QED
      BY <2>1, <2>2, <2>3 DEF Ended, Done
  <1>7. PICK s \in Shapes :
          \/ errors' = errors + 1 /\ cpu' = cpu /\ shape' = shape
          \/ /\ shape' = Append(shape, s)
             /\ \/ /\ Measurable(s) /\ errors' = errors /\ stats' = stats
                   /\ cpu' = [cpu EXCEPT ![c] = Context(s, Len(shape) + 1)]
                \/ /\ (errors' = errors /\ ~Measurable(s)) \/ errors' = errors + 1
                   /\ cpu' = cpu
    BY DEF Start, Faulty
  <1>8. stats'.ring_losses = 0 => stats.ring_losses = 0
    <2>1. stats' = stats \/ stats' = Count("read_errors")
      BY DEF Start
    <2>2. QED
      BY <2>1, RingCount DEF LossFields
  <1>9. errors' = 0 => errors = 0 /\ errors' = errors
    BY <1>4, <1>7
  <1>10. \A id : id \in Lost' <=>
            id \in DOMAIN shape' /\ ~Sound(id)' /\ ~Ended(id) /\ id \notin Done
    <2>1. \A id : id \in Lost' <=>
             id \in DOMAIN shape' /\ ~Sound(id)' /\ ~Ended(id)' /\ id \notin Done'
      BY DEF Lost, Done, Alive, Sound, Ended, Runs
    <2>2. QED
      BY <1>5, <2>1
  <1>11. ASSUME NEW id \in DOMAIN shape
         PROVE  id \in DOMAIN shape' /\ shape'[id] = shape[id]
    BY <1>3, <1>4, <1>7
  <1>12. ASSUME NEW id \in DOMAIN shape', id \notin DOMAIN shape
         PROVE  id = n + 1 /\ shape'[id] = s
    BY <1>3, <1>4, <1>7, <1>12
  <1>13. \A id \in DOMAIN shape : Sound(id) => Sound(id)'
    BY <1>2 DEF Sound, Runs
  <1>14. WayInv'
    <2>1. ASSUME NEW d \in Cpus, cpu'[d] # Idle, cpu'[d].reason = COMPLETE
          PROVE  OnWay(cpu'[d], shape'[cpu'[d].id])
      <3>1. CASE cpu'[d] = cpu[d]
        <4>1. cpu[d].id \in DOMAIN shape
          BY <1>1, <2>1, <3>1 DEF CpuInv
        <4>2. QED
          BY <1>11, <2>1, <3>1, <4>1 DEF CauseInv, WayInv
      <3>2. CASE cpu'[d] # cpu[d]
        <4>1. cpu'[d] = Context(s, Len(shape) + 1)
          BY <1>2, <1>7, <3>2
        <4>2. cpu'[d].pc = "begin"
          BY <4>1 DEF Context
        <4>3. QED
          BY <4>2 DEF OnWay, SgPcs
      <3>3. QED
        BY <3>1, <3>2
    <2>2. QED
      BY <1>2, <2>1, WayStable
  <1>15. ASSUME NEW id \in DOMAIN shape', Ended(id)' \/ id \in Done'
         PROVE  Addressable(shape'[id])
    BY <1>5, <1>6, <1>11, <1>12, <1>15 DEF CauseInv
  <1>16. ASSUME errors' = 0, stats'.ring_losses = 0, NEW id \in Lost'
         PROVE  ~Addressable(shape'[id])
    <2>1. id \in DOMAIN shape' /\ ~Sound(id)' /\ ~Ended(id) /\ id \notin Done
      BY <1>10, <1>16
    <2>2. CASE id \in DOMAIN shape
      <3>1. id \in Lost
        BY <1>13, <2>1, <2>2, LostLemma
      <3>2. QED
        BY <1>8, <1>9, <1>11, <1>16, <2>2, <3>1 DEF CauseInv
    <2>3. CASE id \notin DOMAIN shape
      <3>1. id = n + 1 /\ shape'[id] = s
        BY <1>12, <2>1, <2>3
      <3>2. CASE ~Measurable(s)
        BY <3>1, <3>2 DEF Addressable
      <3>3. CASE cpu' = [cpu EXCEPT ![c] = Context(s, Len(shape) + 1)] /\ Measurable(s)
        <4>1. cpu'[c] = Context(s, n + 1)
          BY <1>2, <1>3, <3>3
        <4>2. cpu'[c] # Idle /\ cpu'[c].id = n + 1 /\ cpu'[c].reason = COMPLETE
          <5>1. Context(s, n + 1).reason = COMPLETE
            BY DEF Context
          <5>2. QED
            BY <3>3, <4>1, <5>1, ContextLemma
        <4>3. QED
          BY <2>1, <3>1, <4>2 DEF Sound, Runs
      <3>4. shape' # shape
        BY <2>1, <2>3
      <3>5. errors' = errors /\ errors \in Nat
        BY <1>4, <1>9, <1>16
      <3>6. QED
        BY <1>7, <3>2, <3>3, <3>4, <3>5
    <2>4. QED
      BY <2>2, <2>3
  <1>17. QED
    BY <1>2, <1>14, <1>15, <1>16, WayStable

\* The collector decides nothing: what it takes from the ring ends as the ring said.
LEMMA ConsumeCauses ==
    ASSUME TransportInv, CauseInv, Consume
    PROVE  CauseInv'
  <1>1. RingInv /\ ChainInv
    BY DEF TransportInv
  <1>2. /\ ring # <<>> /\ ring' = Tail(ring) /\ cpu' = cpu /\ shape' = shape
        /\ stats' = stats /\ errors' = errors /\ sg_supported' = sg_supported
        /\ Head(ring).state # "busy"
    BY DEF Consume, emission
  <1>3. PICK r : r = Head(ring).record
    OBVIOUS
  <1>4. \A id : Ended(id) <=>
           Ended(id)' \/ (r.kind = "end" /\ r.id = id /\ r.reason = COMPLETE)
    BY <1>1, <1>2, <1>3, TakeLemma
  <1>5. \/ ~(r.kind = "end" /\ r.reason = COMPLETE) /\ Done' = Done
        \/ r.kind = "end" /\ r.reason = COMPLETE /\ Done' = Done \cup {r.id}
    <2>1. 1 \in DOMAIN ring /\ Head(ring) = ring[1]
      BY <1>1, <1>2, TailFacts
    <2>2. SlotInv(ring[1]) /\ r = ring[1].record
      BY <1>1, <1>3, <2>1 DEF RingInv
    <2>3. CASE Head(ring).state # "ready"
      <3>1. delivered' = delivered
        BY <2>3 DEF Consume, reassembler
      <3>2. r.kind = "data"
        BY <2>1, <2>2, <2>3 DEF SlotInv
      <3>3. QED
        BY <3>1, <3>2 DEF Done
    <2>4. CASE Head(ring).state = "ready"
      <3>1. r.id \in DOMAIN shape
        BY <2>2 DEF SlotInv
      <3>2. PICK P : Linked(r.id, P)
        BY <1>1, <3>1 DEF ChainInv
      <3> DEFINE s == shape[r.id]
      <3>3. Absorbs(r, s, P[1])
        BY <1>3, <2>4, <3>2, HeadHeard
      <3>4. CASE Fail /\ r.kind = "begin"
        BY <3>4 DEF Fail, Done
      <3>5. CASE Fills(r, s, P[1])
        BY <3>5 DEF Fills, Done
      <3>6. CASE Closes(r, s, P[1])
        <4>1. Event(r.id, s).id = r.id
          BY DEF Event
        <4>2. QED
          BY <3>6, <4>1 DEF Closes, Done
      <3>7. QED
        BY <3>3, <3>4, <3>5, <3>6 DEF Absorbs
    <2>5. QED
      BY <2>3, <2>4
  <1>6. \A id : Ended(id)' \/ id \in Done' <=> Ended(id) \/ id \in Done
    BY <1>4, <1>5
  <1>7. \A id : Sound(id)' <=> Sound(id)
    BY <1>2 DEF Sound, Runs
  <1>8. Lost' = Lost
    <2>1. \A id : id \in Lost' <=>
             id \in DOMAIN shape' /\ ~Sound(id)' /\ ~Ended(id)' /\ id \notin Done'
      BY DEF Lost, Done, Alive, Sound, Ended, Runs
    <2>2. \A id : id \in Lost' <=> id \in Lost
      BY <1>2, <1>6, <1>7, <2>1, LostLemma
    <2>3. QED
      BY <2>2
  <1>9. WayInv'
    BY <1>2, WayStable DEF CauseInv, WayInv
  <1>10. QED
    BY <1>2, <1>6, <1>8, <1>9, WayStable DEF CauseInv

LEMMA KeepsCauses ==
    ASSUME CauseInv, UNCHANGED vars
    PROVE  CauseInv'
  <1>1. /\ cpu' = cpu /\ ring' = ring /\ shape' = shape /\ stats' = stats
        /\ errors' = errors /\ delivered' = delivered /\ sg_supported' = sg_supported
    BY DEF vars
  <1>2. /\ Lost' = Lost /\ Done' = Done /\ \A id : Ended(id)' <=> Ended(id)
    BY <1>1 DEF Lost, Done, Alive, Ended
  <1>3. WayInv'
    BY <1>1, WayStable DEF CauseInv, WayInv
  <1>4. QED
    BY <1>1, <1>2, <1>3, WayStable DEF CauseInv

LEMMA InitCauses == Init => CauseInv
  <1> SUFFICES ASSUME Init PROVE CauseInv
    OBVIOUS
  <1>1. DOMAIN shape = {} /\ \A c \in Cpus : cpu[c] = Idle
    BY DEF Init
  <1>2. QED
    BY <1>1 DEF CauseInv, WayInv, Lost

LEMMA NextCauses == TransportInv /\ CountInv /\ CauseInv /\ [Next]_vars => CauseInv'
  <1> SUFFICES ASSUME TransportInv, CountInv, CauseInv, [Next]_vars PROVE CauseInv'
    OBVIOUS
  <1>1. StatsInv
    BY DEF CountInv
  <1>2. CASE Consume
    BY <1>2, ConsumeCauses
  <1>3. ASSUME NEW c \in Cpus, Start(c) PROVE CauseInv'
    BY <1>1, <1>3, StartCauses
  <1>4. ASSUME NEW c \in Cpus, EmitStep(c) PROVE CauseInv'
    BY <1>1, <1>4, EmitCauses
  <1>5. CASE UNCHANGED vars
    BY <1>5, KeepsCauses
  <1>6. QED
    BY <1>2, <1>3, <1>4, <1>5 DEF Next

-----------------------------------------------------------------------------
(* Theorems *)

LEMMA InitRefines == Init => CountInv /\ Channel!Init
  <1> SUFFICES ASSUME Init PROVE CountInv /\ Channel!Init
    OBVIOUS
  <1>1. /\ shape = <<>> /\ attempts = 0 /\ delivered = {} /\ reassembly.complete = 0
        /\ stats = [ring_losses |-> 0, read_errors |-> 0, unsupported_buffers |-> 0,
                    sg_events |-> 0]
    BY DEF Init, ReassemblerInit
  <1>2. DOMAIN shape = {}
    BY <1>1
  <1>3. Lost = {} /\ Doomed = {} /\ Done = {} /\ Given = {} /\ Offered = <<>>
    BY <1>1, <1>2 DEF Lost, Doomed, Done, Given, Offered
  <1>4. Refused = 0 /\ KernelLosses = 0
    <2>1. Len(shape) = 0 /\ attempts = 0
      BY <1>1
    <2>2. stats.ring_losses = 0 /\ stats.read_errors = 0 /\ stats.unsupported_buffers = 0
      BY <1>1
    <2>3. Refused = 0
      BY <2>1 DEF Refused
    <2>4. KernelLosses = 0
      BY <2>2 DEF KernelLosses
    <2>5. QED
      BY <2>3, <2>4
  <1>5. StatsInv
    BY <1>1 DEF StatsInv, LossFields
  <1>6. CountInv
    BY <1>1, <1>3, <1>4, <1>5, FS_EmptySet DEF CountInv
  <1>7. Channel!Init
    BY <1>3, <1>4 DEF Channel!Init, Lost, Given, Offered, Refused
  <1>8. QED
    BY <1>6, <1>7

LEMMA NextRefines == TransportInv /\ CountInv /\ [Next]_vars => Refines
  <1> SUFFICES ASSUME TransportInv, CountInv, [Next]_vars PROVE Refines
    OBVIOUS
  <1>1. CASE Consume
    BY <1>1, ConsumeRefines
  <1>2. ASSUME NEW c \in Cpus, Start(c) PROVE Refines
    BY <1>2, StartRefines
  <1>3. ASSUME NEW c \in Cpus, EmitStep(c) PROVE Refines
    BY <1>3, EmitRefines
  <1>4. CASE UNCHANGED vars
    BY <1>4, KeepsRefines
  <1>5. QED
    BY <1>1, <1>2, <1>3, <1>4 DEF Next

\* The counters agree with what is lost after every step, and not only at rest.
THEOREM CountInvCorrect == Spec => []CountInv
  <1>1. TransportInv /\ CountInv /\ [Next]_vars => CountInv'
    BY NextRefines DEF Refines
  <1>2. QED
    BY <1>1, InitRefines, InvCorrect, PTL DEF Spec

\* When the ring is empty and no emit() runs, each event that emit() was asked for
\* and that did not come out complete has been counted by the kernel once or twice,
\* and nothing else has been counted.
THEOREM CountsCorrect == Spec => []LossesAreCounted
  <1>1. TransportInv /\ CountInv => LossesAreCounted
    <2> SUFFICES ASSUME TransportInv, CountInv, AllSettled
                 PROVE  LET lost == attempts - reassembly.complete
                        IN  lost <= KernelLosses /\ KernelLosses <= 2 * lost
      BY DEF LossesAreCounted
    <2>1. /\ Len(shape) \in Nat /\ DOMAIN shape = 1 .. Len(shape) /\ Refused \in Nat
          /\ IsFiniteSet(Lost) /\ IsFiniteSet(Done)
          /\ Cardinality(Lost) \in Nat /\ Cardinality(Doomed) \in Nat
          /\ Done \subseteq DOMAIN shape
      BY FiniteLemma
    <2>2. \A id : ~Sound(id) /\ ~Ended(id)
      <3>1. DOMAIN ring = {} /\ \A c \in Cpus : cpu[c] = Idle
        BY DEF AllSettled
      <3>2. QED
        BY <3>1 DEF Sound, Ended, Runs
    <2>3. DOMAIN shape = Lost \cup Done /\ Lost \cap Done = {}
      BY <2>1, <2>2, LostLemma
    <2>4. Cardinality(DOMAIN shape) = Cardinality(Lost) + Cardinality(Done)
      <3>1. /\ Cardinality(Lost \cup Done) =
                  Cardinality(Lost) + Cardinality(Done) - Cardinality(Lost \cap Done)
        BY <2>1, FS_Union
      <3>2. Cardinality(Lost \cap Done) = 0 /\ Cardinality(Done) \in Nat
        BY <2>1, <2>3, FS_EmptySet, FS_CardinalityType
      <3>3. QED
        BY <2>1, <2>3, <3>1, <3>2
    <2>5. Cardinality(DOMAIN shape) = Len(shape)
      <3>1. PICK n \in Nat : n = Len(shape)
        BY <2>1
      <3>2. Cardinality(1 .. n) = IF 1 > n THEN 0 ELSE n - 1 + 1
        BY FS_Interval
      <3>3. Cardinality(1 .. n) = n
        BY <3>2
      <3>4. QED
        BY <2>1, <3>1, <3>3
    <2>6. Cardinality(Done) \in Nat /\ attempts \in Nat /\ KernelLosses \in Nat
      BY <2>1, FS_CardinalityType, CountLemma DEF TransportInv, ShapeInv, CountInv
    <2>7. attempts - reassembly.complete = Refused + Cardinality(Lost)
      <3>1. reassembly.complete = Cardinality(Done) /\ Refused = attempts - Len(shape)
        BY DEF Refused, CountInv
      <3>2. QED
        BY <2>1, <2>4, <2>5, <2>6, <3>1
    <2>8. /\ Refused + Cardinality(Lost) <= KernelLosses
          /\ KernelLosses <= 2 * (Refused + Cardinality(Lost))
      <3>1. /\ Refused + Cardinality(Lost) <= KernelLosses
            /\ KernelLosses + Cardinality(Doomed) <= Refused + 2 * Cardinality(Lost)
        BY DEF CountInv
      <3>2. QED
        BY <2>1, <2>6, <3>1
    <2>9. QED
      BY <2>7, <2>8
  <1>2. QED
    BY <1>1, CountInvCorrect, InvCorrect, PTL

\* The probes, the ring and the reassembler implement the channel, for any number
\* of CPUs and events, any ring and any failures: emit() counts a loss in the step
\* that spoils the event, a lost event never comes back, and an event with a
\* complete End record is never dropped.
THEOREM ChannelCorrect == Spec => ImplementsChannel
  <1>1. TransportInv /\ CountInv /\ [Next]_vars => [Channel!Next]_(Channel!channel)
    BY NextRefines DEF Refines
  <1>2. Init => Channel!Init
    BY InitRefines
  <1>3. QED
    BY <1>1, <1>2, CountInvCorrect, InvCorrect, PTL DEF ImplementsChannel, Channel!Spec, Spec

\* With room in the ring and no failing read, exactly the events whose memory emit()
\* has a route to come out complete, for any lists of segments, frames, chunk size and
\* limit of bpf_loop: the rounds granted to the copy loops always suffice.
THEOREM CausesCorrect == Spec => []LossesHaveCauses
  <1>1. TransportInv /\ CauseInv => LossesHaveCauses
    <2> SUFFICES ASSUME TransportInv, CauseInv, AllSettled,
                        errors = 0, stats.ring_losses = 0, NEW id \in DOMAIN shape
                 PROVE  Addressable(shape[id]) <=> \E e \in delivered : e.id = id
      BY DEF LossesHaveCauses
    <2>1. ~Sound(id) /\ ~Ended(id)
      <3>1. DOMAIN ring = {} /\ \A c \in Cpus : cpu[c] = Idle
        BY DEF AllSettled
      <3>2. QED
        BY <3>1 DEF Sound, Ended, Runs
    <2>2. id \in Done <=> \E e \in delivered : e.id = id
      BY DEF Done
    <2>3. id \in Lost \/ id \in Done
      BY <2>1, LostLemma
    <2>4. QED
      BY <2>2, <2>3 DEF CauseInv
  <1>2. QED
    BY <1>1, InitCauses, NextCauses, InvCorrect, CountInvCorrect, PTL DEF Spec
=============================================================================
