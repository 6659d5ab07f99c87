--------------------------- MODULE ConvertProofs ---------------------------
(***************************************************************************)
(* Proofs about Convert, for any command line, any sequence of blocks or    *)
(* events and any limit of the tables: the types; that what is selected is  *)
(* written up to the limits; that no packet vanishes; that sources are told *)
(* apart, and with them the requests of the reader and the submissions of   *)
(* consume_event(); that rotation keeps the limits and ends a file only at  *)
(* one of them; that a written file, read again, gives back what was        *)
(* written; and that the ISO statistics sum up what was selected.           *)
(*                                                                         *)
(* ReadEffect says what the reader does with one block, ConsumeEffect what  *)
(* consume_event() does with one event, and Steps that every step is an end,*)
(* a block without an event or an input with its event.  The invariants     *)
(* relate the tables to the history input through operators on sequences    *)
(* (OriginIn, OpenIn, PartnerIn): one lemma says how these grow by one input,*)
(* others that the tables grow in the same way.  The size of a file is a    *)
(* fold over its blocks: FoldedAppend says what one more block does to a    *)
(* fold, for any set-theoretic step, and the files then grow by lemmas of   *)
(* the same shape as the tables'.  Reading a file again is a fold too:      *)
(* BackInv relates the reader that has read all of a file to the events the *)
(* file holds.  The bytes of an endpoint are a sum over a set of frames:    *)
(* SumMore says that the library's sum does not depend on the order.        *)
(***************************************************************************)
EXTENDS Convert, FiniteSetTheorems, TLAPS
-----------------------------------------------------------------------------
(* Maps *)

\* Maps from sources and URB ids to numbers.
Tables == UNION {[keys -> Nat] : keys \in SUBSET (Nat \X Nat)}

\* HashMap::insert changes one entry.
LEMMA InsertedEntries ==
    ASSUME NEW map, NEW key, NEW value
    PROVE  /\ DOMAIN Inserted(map, key, value) = {key} \cup DOMAIN map
           /\ Inserted(map, key, value)[key] = value
           /\ \A k \in DOMAIN map : k # key => Inserted(map, key, value)[k] = map[k]
BY DEF Inserted

\* HashMap::remove drops one entry.
LEMMA RemovedEntries ==
    ASSUME NEW map, NEW key
    PROVE  /\ DOMAIN Removed(map, key) = DOMAIN map \ {key}
           /\ \A k \in DOMAIN map \ {key} : Removed(map, key)[k] = map[k]
BY DEF Removed

\* Insertion and removal keep a table's type.
LEMMA TablesStay ==
    ASSUME NEW map \in Tables, NEW key \in Nat \X Nat, NEW value \in Nat
    PROVE  /\ Inserted(map, key, value) \in Tables
           /\ Removed(map, key) \in Tables
<1>1. PICK keys \in SUBSET (Nat \X Nat) : map \in [keys -> Nat]
  BY DEF Tables
<1>2. Inserted(map, key, value) \in [{key} \cup keys -> Nat]
  BY <1>1 DEF Inserted
<1>3. Removed(map, key) \in [keys \ {key} -> Nat]
  BY <1>1 DEF Removed
<1>4. ({key} \cup keys) \in SUBSET (Nat \X Nat) /\ (keys \ {key}) \in SUBSET (Nat \X Nat)
  OBVIOUS
<1> QED
  BY <1>2, <1>3, <1>4 DEF Tables

\* What a table holds.
LEMMA TableEntries ==
    ASSUME NEW map \in Tables
    PROVE  /\ DOMAIN map \subseteq Nat \X Nat
           /\ \A k \in DOMAIN map : map[k] \in Nat
BY DEF Tables

\* HashMap::new is a table.
LEMMA EmptyTable == <<>> \in Tables
<1>1. <<>> \in [{} -> Nat]
  OBVIOUS
<1> QED
  BY <1>1 DEF Tables

-----------------------------------------------------------------------------
(* The reader *)

InterfaceTypes == [source_id : Nat, linktype : Nat, units : Nat \ {0}, offset : Int]

ReaderTypes ==
    [section : BOOLEAN, interfaces : Seq(InterfaceTypes), next_source_id : Nat,
     requested : Tables, incomplete : Nat, failed : BOOLEAN,
     event : Seq(EventTypes(Nat))]

\* Reader::new is a reader.
LEMMA ReaderNewType == ReaderNew \in ReaderTypes
BY EmptyTable DEF ReaderNew, ReaderTypes

\* The parts of the reader's state change one by one.
LEMMA ReaderUpdated ==
    ASSUME NEW r \in ReaderTypes
    PROVE  /\ \A t \in Tables, n \in Nat :
                 [r EXCEPT !.requested = t, !.incomplete = n] \in ReaderTypes
           /\ \A t \in Tables, e \in Seq(EventTypes(Nat)) :
                 [r EXCEPT !.requested = t, !.event = e] \in ReaderTypes
           /\ \A e \in Seq(EventTypes(Nat)) : [r EXCEPT !.event = e] \in ReaderTypes
           /\ \A t \in Tables, is \in Seq(InterfaceTypes) :
                 [r EXCEPT !.section = TRUE, !.interfaces = is, !.requested = t] \in ReaderTypes
           /\ \A n \in Nat, is \in Seq(InterfaceTypes) :
                 [r EXCEPT !.interfaces = is, !.next_source_id = n] \in ReaderTypes
<1> DEFINE evs == Seq(EventTypes(Nat))
           seq == Seq(InterfaceTypes)
<1>1. ReaderTypes = [section : BOOLEAN, interfaces : seq, next_source_id : Nat,
                     requested : Tables, incomplete : Nat, failed : BOOLEAN,
                     event : evs]
  BY DEF ReaderTypes
<1> HIDE DEF evs, seq
<1>2. \A t \in Tables, n \in Nat :
         [r EXCEPT !.requested = t, !.incomplete = n] \in ReaderTypes
  BY <1>1
<1>3. \A t \in Tables, e \in evs : [r EXCEPT !.requested = t, !.event = e] \in ReaderTypes
  BY <1>1
<1>4. \A e \in evs : [r EXCEPT !.event = e] \in ReaderTypes
  BY <1>1
<1>5. \A t \in Tables, is \in seq :
         [r EXCEPT !.section = TRUE, !.interfaces = is, !.requested = t] \in ReaderTypes
  BY <1>1
<1>6. \A n \in Nat, is \in seq :
         [r EXCEPT !.interfaces = is, !.next_source_id = n] \in ReaderTypes
  BY <1>1
<1> QED
  BY <1>2, <1>3, <1>4, <1>5, <1>6 DEF evs, seq

\* The kind of a block decides its other fields.
LEMMA KindOfBlock ==
    ASSUME NEW b \in BlockTypes
    PROVE  /\ b.kind \in {"section", "legacy", "malformed", "other", "interface", "packet"}
           /\ b.kind = "interface" => /\ b.linktype \in Nat /\ b.units \in Nat \ {0}
                                      /\ b.offset \in Int
           /\ b.kind = "packet" => b \in PacketTypes
BY DEF BlockTypes, PacketTypes

\* Nothing but the count of incomplete packets, the table and the event differs.
SameInterfaces(r, new) ==
    new.interfaces = r.interfaces /\ new.next_source_id = r.next_source_id

AfterSection(r, b, new) ==
    /\ b.kind = "section" /\ new.event = <<>>
    /\ new.interfaces = <<>> /\ new.requested = <<>>
    /\ new.next_source_id = r.next_source_id /\ new.incomplete = r.incomplete

AfterInterface(r, b, new) ==
    /\ b.kind = "interface" /\ new.event = <<>>
    /\ \E i \in InterfaceTypes : /\ i.source_id = r.next_source_id
                                 /\ new.interfaces = Append(r.interfaces, i)
    /\ new.next_source_id = r.next_source_id + 1
    /\ new.requested = r.requested /\ new.incomplete = r.incomplete

AfterOther(r, b, new) ==
    /\ b.kind = "other" /\ new.event = <<>>
    /\ SameInterfaces(r, new)
    /\ new.requested = r.requested /\ new.incomplete = r.incomplete

AfterCut(r, b, new) ==
    /\ b.kind = "packet" /\ b.interface < Len(r.interfaces) /\ b.cut
    /\ new.event = <<>>
    /\ SameInterfaces(r, new)
    /\ new.requested = r.requested /\ new.incomplete = r.incomplete + 1

\* The key of a packet in the table of requests.
PacketKey(r, p) == RequestKey(r.interfaces[p.interface + 1].source_id, p.urb_id)

\* An event has all the data that its phase carries.
DataIsWhole(e) ==
    LET length == IF e.event_type = "S" THEN e.requested_len ELSE e.actual_len
    IN  DataPhase(e) => IF e.iso THEN \A f \in Range(e.frames) :
                                         f.length # 0 => f.offset + f.length <= e.payload_len
                        ELSE e.payload_len = length

\* A packet written for the event passes the reader's checks, but for those that
\* depend on what the reader has read before.
WholeEvent(e) ==
    /\ e.iso \/ e.frames = <<>>
    /\ e.has_data \/ e.payload_len = 0
    /\ DataPhase(e) /\ ~e.has_data =>
          IF e.iso THEN \A f \in Range(e.frames) : f.length = 0 ELSE WireLen(e) = 0
    /\ ~e.iso /\ e.has_data => e.payload_len = WireLen(e)
    /\ \A f \in Range(e.frames) :
          /\ e.has_data /\ f.length # 0 => f.offset + f.length <= e.payload_len
          /\ e.event_type = "S" => f.offset + f.length <= e.requested_len

\* The event that a packet becomes.
EventOf(r, p, e) ==
    /\ e \in EventTypes(Nat)
    /\ e.source_id = r.interfaces[p.interface + 1].source_id
    /\ e.urb_id = p.urb_id /\ e.event_type = p.event_type /\ e.content = p.content
    /\ e.event_type # "S" =>
          /\ e.requested_known <=> PacketKey(r, p) \in DOMAIN r.requested
          /\ e.requested_known => e.requested_len = r.requested[PacketKey(r, p)]
    /\ DataIsWhole(e) /\ WholeEvent(e)

AfterPacket(r, b, new) ==
    /\ b.kind = "packet" /\ b.interface < Len(r.interfaces) /\ ~b.cut
    /\ SameInterfaces(r, new)
    /\ new.requested = IF b.event_type = "S"
                       THEN Inserted(r.requested, PacketKey(r, b), b.wire_len)
                       ELSE Removed(r.requested, PacketKey(r, b))
    /\ \/ new.event = <<>> /\ new.incomplete = r.incomplete + 1
       \/ /\ \E e : new.event = <<e>> /\ EventOf(r, b, e)
          /\ new.incomplete = r.incomplete

\* A packet's time is an integer, before its sign is checked.
LEMMA PacketTimeType ==
    ASSUME NEW i \in InterfaceTypes, NEW p \in PacketTypes
    PROVE  PacketTime(i, p) \in Int
<1>1. NsPerSecond \in Nat
  BY PcapngAssumption DEF NsPerSecond
<1>2. p.ticks \in Nat /\ i.units \in Nat \ {0} /\ i.offset \in Int
  BY DEF InterfaceTypes, PacketTypes
<1>3. p.ticks * NsPerSecond \in Nat /\ i.offset * NsPerSecond \in Int
  BY <1>1, <1>2
<1>4. (p.ticks * NsPerSecond) \div i.units \in Int
  BY <1>2, <1>3
<1> QED
  BY <1>3, <1>4 DEF PacketTime

\* A packet either makes the reader give up, or is counted, or is returned.
LEMMA ReadPacketEffect ==
    ASSUME NEW r \in ReaderTypes, ~r.failed, r.event = <<>>, NEW p \in PacketTypes
    PROVE  /\ ReadPacket(r, p) \in ReaderTypes
           /\ \/ ReadPacket(r, p).failed /\ ReadPacket(r, p).event = <<>>
              \/ /\ ~ReadPacket(r, p).failed
                 /\ AfterCut(r, p, ReadPacket(r, p)) \/ AfterPacket(r, p, ReadPacket(r, p))
<1> DEFINE i == r.interfaces[p.interface + 1]
           key == RequestKey(i.source_id, p.urb_id)
           submission == p.event_type = "S"
           requested == IF submission THEN <<p.wire_len>>
                        ELSE IF key \in DOMAIN r.requested THEN <<r.requested[key]>>
                        ELSE <<>>
           after == IF submission THEN Inserted(r.requested, key, p.wire_len)
                    ELSE Removed(r.requested, key)
           unreadable == \/ p.interface >= Len(r.interfaces)
                         \/ i.linktype # USB_LINUX_MMAPPED
                         \/ PacketTime(i, p) < 0
           invalid == \/ ~ValidPacket(p)
                      \/ submission /\ Cardinality(DOMAIN r.requested) >= MaxUnmatched
                      \/ ~FramesFit(p, requested)
           e == [source_id |-> i.source_id, urb_id |-> p.urb_id,
                 event_type |-> p.event_type, in |-> p.in, iso |-> p.iso,
                 timestamp |-> PacketTime(i, p),
                 requested_len |-> IF requested = <<>> THEN 0 ELSE requested[1],
                 actual_len |-> IF submission THEN 0 ELSE p.wire_len,
                 has_data |-> p.has_data, payload_len |-> p.payload_len,
                 frames |-> p.frames, content |-> p.content,
                 identity_known |-> FALSE,
                 requested_known |-> requested # <<>>]
           new == ReadPacket(r, p)
<1>1. CASE unreadable
  <2>1. new = [r EXCEPT !.failed = TRUE]
    BY <1>1 DEF ReadPacket
  <2> QED
    BY <2>1 DEF ReaderTypes
<1>2. CASE ~unreadable /\ p.cut
  <2>1. new = [r EXCEPT !.incomplete = @ + 1]
    BY <1>2 DEF ReadPacket
  <2>2. new \in ReaderTypes
    BY <2>1 DEF ReaderTypes
  <2>3. p.kind = "packet" /\ p.interface < Len(r.interfaces)
    BY <1>2 DEF PacketTypes, ReaderTypes
  <2>4. ~new.failed /\ AfterCut(r, p, new)
    BY <1>2, <2>1, <2>3 DEF ReaderTypes, AfterCut, SameInterfaces
  <2> QED
    BY <2>2, <2>4
<1>3. CASE ~unreadable /\ ~p.cut /\ invalid
  <2>1. new = [r EXCEPT !.failed = TRUE]
    BY <1>3 DEF ReadPacket
  <2> QED
    BY <2>1 DEF ReaderTypes
<1>4. CASE ~unreadable /\ ~p.cut /\ ~invalid
  <2>1. /\ p.kind = "packet" /\ p.interface \in Nat /\ p.interface < Len(r.interfaces)
        /\ p.urb_id \in Nat /\ p.wire_len \in Nat
    BY <1>4 DEF PacketTypes, ReaderTypes
  <2>2. i \in InterfaceTypes
    BY <2>1 DEF ReaderTypes
  <2>3. key \in Nat \X Nat
    BY <2>1, <2>2 DEF InterfaceTypes, RequestKey
  <2>4. after \in Tables
    BY <2>1, <2>3, TablesStay DEF ReaderTypes
  <2>5. key = PacketKey(r, p)
    BY DEF PacketKey
  <2>6. CASE Omitted(p)
    <3>1. new = [r EXCEPT !.requested = after, !.incomplete = @ + 1]
      BY <1>4, <2>6 DEF ReadPacket
    <3>2. new \in ReaderTypes /\ ~new.failed
      <4>1. r.incomplete + 1 \in Nat
        BY DEF ReaderTypes
      <4>2. ~new.failed
        BY <3>1 DEF ReaderTypes
      <4> HIDE DEF after, new
      <4>3. [r EXCEPT !.requested = after, !.incomplete = r.incomplete + 1] \in ReaderTypes
        BY <2>4, <4>1, ReaderUpdated
      <4> QED
        BY <3>1, <4>2, <4>3
    <3>3. AfterPacket(r, p, new)
      BY <1>4, <2>1, <2>5, <3>1 DEF AfterPacket, SameInterfaces, ReaderTypes
    <3> QED
      BY <3>2, <3>3
  <2>7. CASE ~Omitted(p)
    <3>1. new = [r EXCEPT !.requested = after, !.event = <<e>>]
      BY <1>4, <2>7 DEF ReadPacket
    <3>2. requested \in Seq(Nat) /\ Len(requested) <= 1
      BY <2>1, TableEntries DEF ReaderTypes
    <3>3. PacketTime(i, p) \in Nat
      BY <1>4, <2>2, PacketTimeType
    <3>4. e \in EventTypes(Nat)
      <4>1. e.requested_len \in Nat /\ e.actual_len \in Nat
        BY <2>1, <3>2
      <4> QED
        BY <2>2, <3>3, <4>1 DEF EventTypes, PacketTypes, InterfaceTypes
    <3>5. new \in ReaderTypes /\ ~new.failed
      <4>1. <<e>> \in Seq(EventTypes(Nat))
        BY <3>4
      <4>2. ~new.failed
        BY <3>1 DEF ReaderTypes
      <4> HIDE DEF after, e, new
      <4>3. [r EXCEPT !.requested = after, !.event = <<e>>] \in ReaderTypes
        BY <2>4, <4>1, ReaderUpdated
      <4> QED
        BY <3>1, <4>2, <4>3
    <3>6. e.event_type # "S" =>
             /\ e.requested_known <=> PacketKey(r, p) \in DOMAIN r.requested
             /\ e.requested_known => e.requested_len = r.requested[PacketKey(r, p)]
      BY <2>5
    <3>7. DataIsWhole(e)
      <4>1. CASE p.iso
        BY <1>4, <2>7, <4>1 DEF DataIsWhole, DataPhase, Omitted, FramesFit
      <4>2. CASE ~p.iso
        <5>1. DataPhase(p) => p.payload_len = p.wire_len
          BY <1>4, <2>7, <4>2 DEF Omitted, ValidPacket, DataPhase, PacketTypes
        <5> QED
          BY <4>2, <5>1 DEF DataIsWhole, DataPhase
      <4> QED
        BY <4>1, <4>2
    <3>10. WholeEvent(e)
      <4>1. ValidPacket(p) /\ FramesFit(p, requested) /\ ~Omitted(p)
        BY <1>4, <2>7
      <4>2. WireLen(e) = p.wire_len
        BY DEF WireLen
      <4>3. ASSUME NEW f \in Range(p.frames)
            PROVE  /\ p.has_data /\ f.length # 0 => f.offset + f.length <= p.payload_len
                   /\ p.event_type = "S" => f.offset + f.length <= e.requested_len
        BY <4>1 DEF FramesFit
      <4>4. e.iso \/ e.frames = <<>>
        BY <4>1 DEF ValidPacket
      <4>5. e.has_data \/ e.payload_len = 0
        BY <4>1 DEF ValidPacket
      <4>6. DataPhase(e) /\ ~e.has_data =>
               IF e.iso THEN \A f \in Range(e.frames) : f.length = 0 ELSE p.wire_len = 0
        BY <4>1 DEF Omitted, DataPhase
      <4>7. ~e.iso /\ e.has_data => e.payload_len = p.wire_len
        BY <4>1 DEF Omitted
      <4>8. /\ e.frames = p.frames /\ e.has_data = p.has_data
            /\ e.payload_len = p.payload_len /\ e.event_type = p.event_type
        OBVIOUS
      <4> HIDE DEF e
      <4> QED
        BY <4>2, <4>3, <4>4, <4>5, <4>6, <4>7, <4>8 DEF WholeEvent
    <3>8. EventOf(r, p, e)
      BY <3>4, <3>6, <3>7, <3>10 DEF EventOf
    <3>9. AfterPacket(r, p, new)
      <4>1. new.event = <<e>> /\ new.incomplete = r.incomplete
        BY <3>1 DEF ReaderTypes
      <4>2. new.requested = after /\ SameInterfaces(r, new)
        BY <3>1 DEF ReaderTypes, SameInterfaces
      <4> HIDE DEF e, new
      <4> QED
        BY <1>4, <2>1, <2>5, <3>8, <4>1, <4>2 DEF AfterPacket
    <3> QED
      BY <3>5, <3>9
  <2> QED
    BY <2>6, <2>7
<1> QED
  BY <1>1, <1>2, <1>3, <1>4

\* What next_event() does with one block.
LEMMA ReadEffect ==
    ASSUME NEW r \in ReaderTypes, ~r.failed, NEW b \in BlockTypes
    PROVE  /\ ReadBlock(r, b) \in ReaderTypes
           /\ \/ ReadBlock(r, b).failed /\ ReadBlock(r, b).event = <<>>
              \/ /\ ~ReadBlock(r, b).failed
                 /\ \/ AfterSection(r, b, ReadBlock(r, b))
                    \/ AfterInterface(r, b, ReadBlock(r, b))
                    \/ AfterOther(r, b, ReadBlock(r, b))
                    \/ AfterCut(r, b, ReadBlock(r, b))
                    \/ AfterPacket(r, b, ReadBlock(r, b))
<1> DEFINE q == [r EXCEPT !.event = <<>>]
           new == ReadBlock(r, b)
<1>1. /\ q \in ReaderTypes /\ ~q.failed /\ q.event = <<>>
      /\ q.section = r.section /\ q.interfaces = r.interfaces
      /\ q.next_source_id = r.next_source_id
      /\ q.requested = r.requested /\ q.incomplete = r.incomplete
  <2>1. <<>> \in Seq(EventTypes(Nat))
    OBVIOUS
  <2>2. q \in ReaderTypes
    BY <2>1, ReaderUpdated
  <2> QED
    BY <2>2 DEF ReaderTypes
<1>2. CASE b.kind = "section"
  <2>1. new = ReadSection(q)
    BY <1>1, <1>2 DEF ReadBlock
  <2>2. new \in ReaderTypes
    <3>1. <<>> \in Seq(InterfaceTypes)
      OBVIOUS
    <3> HIDE DEF q, new
    <3> QED
      BY <1>1, <2>1, <3>1, EmptyTable, ReaderUpdated DEF ReadSection
  <2>3. ~new.failed /\ AfterSection(r, b, new)
    BY <1>1, <1>2, <2>1 DEF ReaderTypes, ReadSection, AfterSection
  <2> QED
    BY <2>2, <2>3
<1>3. CASE b.kind # "section" /\ (~r.section \/ b.kind \in {"legacy", "malformed"})
  <2>1. new = [q EXCEPT !.failed = TRUE]
    BY <1>1, <1>3 DEF ReadBlock
  <2> QED
    BY <1>1, <2>1 DEF ReaderTypes
<1>4. CASE r.section /\ b.kind = "interface"
  <2>1. new = ReadInterface(q, b)
    BY <1>1, <1>4 DEF ReadBlock
  <2> DEFINE i == [source_id |-> q.next_source_id, linktype |-> b.linktype,
                   units |-> b.units, offset |-> b.offset]
  <2>2. i \in InterfaceTypes
    BY <1>1, <1>4, KindOfBlock DEF ReaderTypes, InterfaceTypes
  <2>3. new = [q EXCEPT !.interfaces = Append(q.interfaces, i),
                        !.next_source_id = q.next_source_id + 1]
    BY <2>1 DEF ReadInterface
  <2>4. new \in ReaderTypes
    <3>1. Append(q.interfaces, i) \in Seq(InterfaceTypes) /\ q.next_source_id + 1 \in Nat
      BY <1>1, <2>2 DEF ReaderTypes
    <3> HIDE DEF q, new, i
    <3> QED
      BY <1>1, <2>3, <3>1, ReaderUpdated
  <2>5. ~new.failed /\ AfterInterface(r, b, new)
    BY <1>1, <1>4, <2>2, <2>3 DEF ReaderTypes, AfterInterface
  <2> QED
    BY <2>4, <2>5
<1>5. CASE r.section /\ b.kind = "other"
  <2>1. new = q
    BY <1>1, <1>5 DEF ReadBlock
  <2> QED
    BY <1>1, <1>5, <2>1 DEF AfterOther, SameInterfaces
<1>6. CASE r.section /\ b.kind = "packet"
  <2>1. new = ReadPacket(q, b)
    BY <1>1, <1>6 DEF ReadBlock
  <2>2. b \in PacketTypes
    BY <1>6, KindOfBlock
  <2>3. /\ new \in ReaderTypes
        /\ \/ new.failed /\ new.event = <<>>
           \/ ~new.failed /\ (AfterCut(q, b, new) \/ AfterPacket(q, b, new))
    BY <1>1, <2>1, <2>2, ReadPacketEffect
  <2> HIDE DEF q, new
  <2>4. AfterCut(q, b, new) => AfterCut(r, b, new)
    BY <1>1 DEF AfterCut, SameInterfaces
  <2>5. AfterPacket(q, b, new) => AfterPacket(r, b, new)
    BY <1>1 DEF AfterPacket, SameInterfaces, EventOf, PacketKey
  <2> QED
    BY <2>3, <2>4, <2>5 DEF new
<1> QED
  BY <1>2, <1>3, <1>4, <1>5, <1>6, KindOfBlock

-----------------------------------------------------------------------------
(* The writer *)

\* Maps from sources to the interfaces of a file.
SourceMaps == UNION {[sources -> Nat] : sources \in {s \in SUBSET Nat : IsFiniteSet(s)}}

WriterTypes == [blocks : Seq(BlockTypes), bytes : Nat, interfaces : SourceMaps]

\* Writer::new is a writer.
LEMMA WriterNewType == WriterNew \in WriterTypes
<1>1. Section \in BlockTypes
  BY DEF Section, BlockTypes
<1>2. OutputInterface \in BlockTypes
  BY PcapngAssumption DEF OutputInterface, Interface, USB_LINUX_MMAPPED, BlockTypes
<1>3. <<Section, OutputInterface>> \in Seq(BlockTypes)
  BY <1>1, <1>2
<1>4. <<>> \in SourceMaps
  <2>1. <<>> \in [{} -> Nat]
    OBVIOUS
  <2> QED
    BY <2>1, FS_EmptySet DEF SourceMaps
<1> QED
  BY <1>3, <1>4 DEF WriterNew, WriterTypes

\* The length of a packet block is a number.
LEMMA PacketSizeType ==
    ASSUME NEW e \in EventTypes(Nat)
    PROVE  PacketSize(e) \in Nat
<1> DEFINE caplen == 64 + 16 * Len(e.frames) + e.payload_len
<1>1. Len(e.frames) \in Nat /\ e.payload_len \in Nat
  BY DEF EventTypes
<1>2. caplen \in Nat
  BY <1>1
<1> HIDE DEF caplen
<1>3. (4 - (caplen % 4)) % 4 \in Nat
  BY <1>2
<1>4. caplen + ((4 - (caplen % 4)) % 4) + 32 \in Nat
  BY <1>2, <1>3
<1> QED
  BY <1>4 DEF PacketSize, caplen

\* write_event() writes blocks that are well formed.
LEMMA WriteEventType ==
    ASSUME NEW w \in WriterTypes, NEW e \in EventTypes(Nat)
    PROVE  WriteEvent(w, e) \in WriterTypes
<1> DEFINE known == e.source_id \in DOMAIN w.interfaces
           index == IF known THEN w.interfaces[e.source_id]
                    ELSE Cardinality(DOMAIN w.interfaces)
           added == IF known \/ index = 0 THEN <<>> ELSE <<OutputInterface>>
<1>1. PICK sources \in SUBSET Nat : IsFiniteSet(sources) /\ w.interfaces \in [sources -> Nat]
  BY DEF WriterTypes, SourceMaps
<1>2. e.source_id \in Nat
  BY DEF EventTypes
<1>3. index \in Nat
  <2>1. DOMAIN w.interfaces = sources
    BY <1>1
  <2>2. Cardinality(sources) \in Nat
    BY <1>1, FS_CardinalityType
  <2>3. known => w.interfaces[e.source_id] \in Nat
    BY <1>1
  <2> QED
    BY <2>1, <2>2, <2>3
<1>4. OutputInterface \in BlockTypes
  BY PcapngAssumption DEF OutputInterface, Interface, USB_LINUX_MMAPPED, BlockTypes
<1> HIDE DEF index, known
<1>5. added \in Seq(BlockTypes) /\ Len(added) \in Nat
  BY <1>4
<1> HIDE DEF added
<1>6. Packet(e, index) \in BlockTypes
  <2>1. e.timestamp \in Nat /\ NsPerUs \in Nat \ {0}
    BY PcapngAssumption DEF EventTypes
  <2>2. e.timestamp \div NsPerUs \in Nat
    BY <2>1
  <2>3. WireLen(e) \in Nat
    BY DEF WireLen, EventTypes
  <2>4. Packet(e, index) \in PacketTypes
    BY <1>3, <2>2, <2>3 DEF Packet, PacketTypes, EventTypes
  <2> QED
    BY <2>4 DEF BlockTypes
<1>7. w.blocks \in Seq(BlockTypes) /\ w.bytes \in Nat
  BY DEF WriterTypes
<1>8. w.blocks \o added \o <<Packet(e, index)>> \in Seq(BlockTypes)
  BY <1>5, <1>6, <1>7
<1>9. w.bytes + InterfaceSize * Len(added) + PacketSize(e) \in Nat
  BY <1>5, <1>7, PacketSizeType DEF InterfaceSize
<1>10. Inserted(w.interfaces, e.source_id, index) \in SourceMaps
  <2>1. Inserted(w.interfaces, e.source_id, index) \in [{e.source_id} \cup sources -> Nat]
    BY <1>1, <1>2, <1>3 DEF Inserted
  <2>2. IsFiniteSet({e.source_id} \cup sources) /\ ({e.source_id} \cup sources) \subseteq Nat
    <3>1. {e.source_id} \cup sources = sources \cup {e.source_id}
      OBVIOUS
    <3> QED
      BY <1>1, <1>2, <3>1, FS_AddElement
  <2> QED
    BY <2>1, <2>2 DEF SourceMaps
<1>11. WriteEvent(w, e) = [blocks |-> w.blocks \o added \o <<Packet(e, index)>>,
                          bytes |-> w.bytes + InterfaceSize * Len(added) + PacketSize(e),
                          interfaces |-> Inserted(w.interfaces, e.source_id, index)]
  BY DEF WriteEvent, known, index, added
<1> QED
  BY <1>8, <1>9, <1>10, <1>11 DEF WriterTypes

-----------------------------------------------------------------------------
(* Types *)

Whats == {"printed", "written", "full", "failed", "rejected", "ignored", "refused"}

OutcomeTypes ==
    [event : EventTypes(Nat), latency : Seq(Nat), what : Whats, file : Nat]

EndpointsOK(stats) ==
    \A key \in DOMAIN stats :
       /\ stats[key].max_gap \in Nat
       /\ stats[key].previous = <<>> \/ stats[key].previous[1] \in Nat

\* The types of all variables; those of the history variables are needed to count.
TypeInv ==
    /\ options \in Scenarios
    /\ input \in Seq(InputTypes(options.mode))
    /\ reader \in ReaderTypes
    /\ returned \in Seq(OutcomeTypes)
    /\ submissions \in Tables
    /\ EndpointsOK(iso_stats)
    /\ files \in Seq(WriterTypes)
    /\ events \in Nat /\ written \in Nat
    /\ output_full \in BOOLEAN /\ stopped \in BOOLEAN
    /\ status \in Statuses
    /\ status = "running" => ~reader.failed

\* Every packet's content tells its place; the events that were returned keep the
\* name and the phase of their packets, and the order of the input.
HistoryInv ==
    /\ \A i \in Packets : input[i].content = i
    /\ \A n \in DOMAIN returned :
          /\ At(n) \in Packets
          /\ returned[n].event.urb_id = input[At(n)].urb_id
          /\ returned[n].event.event_type = input[At(n)].event_type
    /\ \A m, n \in DOMAIN returned : m < n => At(m) < At(n)

\* The types and the history hold at the start.
LEMMA InitTypes == Init => TypeInv /\ HistoryInv
<1> SUFFICES ASSUME Init PROVE TypeInv /\ HistoryInv
  OBVIOUS
<1>0. /\ input = <<>> /\ returned = <<>> /\ iso_stats = <<>>
      /\ files = <<>> \/ files = <<WriterNew>>
  BY DEF Init
<1>1. files \in Seq(WriterTypes)
  <2>1. <<WriterNew>> \in Seq(WriterTypes)
    BY WriterNewType
  <2>2. <<>> \in Seq(WriterTypes)
    OBVIOUS
  <2> QED
    BY <1>0, <2>1, <2>2
<1>2. EndpointsOK(iso_stats)
  BY <1>0 DEF EndpointsOK
<1>3. reader \in ReaderTypes /\ ~reader.failed
  BY ReaderNewType DEF Init, ReaderNew
<1>4. submissions \in Tables
  BY EmptyTable DEF Init
<1>5. input \in Seq(InputTypes(options.mode)) /\ returned \in Seq(OutcomeTypes)
  BY <1>0
<1>6. status \in Statuses
  BY DEF Init, Statuses
<1>7. TypeInv
  BY <1>1, <1>2, <1>3, <1>4, <1>5, <1>6 DEF Init, TypeInv
<1>8. HistoryInv
  BY <1>0 DEF HistoryInv, Packets
<1> QED
  BY <1>7, <1>8

\* The larger of two numbers, as CHOOSE defines it.
LEMMA MaxOfTwo ==
    ASSUME NEW a \in Int, NEW b \in Int
    PROVE  Max({a, b}) \in {a, b} /\ Max({a, b}) >= a
<1>1. \E x \in {a, b} : \A y \in {a, b} : x >= y
  <2>1. CASE a >= b
    BY <2>1
  <2>2. CASE b >= a
    BY <2>2
  <2> QED
    BY <2>1, <2>2
<1> QED
  BY <1>1 DEF Max

\* A key of the latency table is a source and an id.
LEMMA KeyType ==
    ASSUME NEW e \in EventTypes(Nat)
    PROVE  Key(e) \in Nat \X Nat
BY DEF Key, RequestKey, EventTypes

\* A latency is none or not negative: checked_sub.
LEMMA LatencyType ==
    ASSUME TypeInv, NEW e \in EventTypes(Nat)
    PROVE  Latency(e) \in Seq(Nat)
<1>1. ASSUME Key(e) \in DOMAIN submissions
      PROVE  Elapsed(e.timestamp, submissions[Key(e)]) \in Seq(Nat)
  <2>1. submissions[Key(e)] \in Nat
    BY <1>1, TableEntries DEF TypeInv
  <2>2. e.timestamp \in Nat
    BY DEF EventTypes
  <2> QED
    BY <2>1, <2>2 DEF Elapsed
<1>2. <<>> \in Seq(Nat)
  OBVIOUS
<1> QED
  BY <1>1, <1>2 DEF Latency

\* consume_event() keeps the type of the latency table.
LEMMA SubmissionsType ==
    ASSUME TypeInv, NEW e \in EventTypes(Nat)
    PROVE  Submissions(e) \in Tables
<1>1. e.timestamp \in Nat
  BY DEF EventTypes
<1> QED
  BY <1>1, KeyType, TablesStay DEF Submissions, TypeInv

\* IsoStats::observe keeps the types of gaps and times, whatever the clocks do.
LEMMA ObserveType ==
    ASSUME TypeInv, NEW e \in EventTypes(Nat)
    PROVE  EndpointsOK(Observe(e))
<1> DEFINE key == <<e.source_id, e.in>>
           ep == IF key \in DOMAIN iso_stats THEN iso_stats[key] ELSE NewEndpoint
           gap == Gap(ep, e.timestamp)
<1>1. ep.max_gap \in Nat /\ (ep.previous = <<>> \/ ep.previous[1] \in Nat)
  BY DEF TypeInv, EndpointsOK, NewEndpoint
<1>2. e.timestamp \in Nat
  BY DEF EventTypes
<1> HIDE DEF ep
<1>3. gap \in Int
  BY <1>1, <1>2 DEF Gap
<1>4. Max({ep.max_gap, gap}) \in Nat
  <2> HIDE DEF gap
  <2>1. ep.max_gap \in Int
    BY <1>1
  <2>2. Max({ep.max_gap, gap}) \in {ep.max_gap, gap} /\ Max({ep.max_gap, gap}) >= ep.max_gap
    BY <1>3, <2>1, MaxOfTwo
  <2> QED
    BY <1>1, <1>3, <2>2
<1>5. CASE ~e.iso \/ e.event_type # "C"
  BY <1>5 DEF Observe, TypeInv
<1>6. CASE ~(~e.iso \/ e.event_type # "C")
  <2> DEFINE new == [urbs |-> ep.urbs + 1,
                     frames |-> ep.frames + Len(e.frames),
                     bytes |-> FoldLeft(LAMBDA n, f : n + f.length, ep.bytes, e.frames),
                     empty_frames |-> ep.empty_frames
                         + Cardinality({n \in DOMAIN e.frames : e.frames[n].length = 0}),
                     previous |-> <<e.timestamp>>,
                     max_gap |-> Max({ep.max_gap, gap})]
  <2>1. Observe(e) = Inserted(iso_stats, key, new)
    BY <1>6 DEF Observe, ep
  <2>2. new.max_gap \in Nat /\ new.previous[1] \in Nat
    BY <1>2, <1>4
  <2> HIDE DEF new, key, gap
  <2>3. SUFFICES ASSUME NEW k \in DOMAIN Inserted(iso_stats, key, new)
                 PROVE  /\ Inserted(iso_stats, key, new)[k].max_gap \in Nat
                        /\ \/ Inserted(iso_stats, key, new)[k].previous = <<>>
                           \/ Inserted(iso_stats, key, new)[k].previous[1] \in Nat
    BY <2>1 DEF EndpointsOK
  <2> DEFINE stats == Inserted(iso_stats, key, new)
  <2>4. /\ DOMAIN stats = {key} \cup DOMAIN iso_stats
        /\ stats[key] = new
        /\ \A x \in DOMAIN iso_stats : x # key => stats[x] = iso_stats[x]
    BY DEF Inserted
  <2> HIDE DEF stats
  <2>5. CASE k = key
    BY <2>2, <2>4, <2>5 DEF stats
  <2>6. CASE k # key
    <3>1. k \in DOMAIN iso_stats /\ stats[k] = iso_stats[k]
      BY <2>3, <2>4, <2>6 DEF stats
    <3> QED
      BY <3>1 DEF EndpointsOK, TypeInv, stats
  <2> QED
    BY <2>5, <2>6
<1> QED
  BY <1>5, <1>6

-----------------------------------------------------------------------------
(* consume_event() *)

\* What becomes of an event, and what that does to the tables and the limits.
Consumed(e, what, latency, file) ==
    /\ Outcome(e, latency, what, file)
    /\ what = "ignored" <=> Limited
    /\ IF what \in {"ignored", "refused"}
       THEN submissions' = submissions
       ELSE submissions' = Submissions(e) /\ latency = Latency(e)
    /\ written' = IF what \in {"printed", "written"} THEN written + 1 ELSE written
    /\ output_full' = (output_full \/ what = "full")
    /\ stopped' = IF what \in {"ignored", "full"} THEN TRUE
                  ELSE IF what \in {"printed", "written"} THEN Enough(written + 1)
                  ELSE stopped
    /\ status' \in {status, "latency table full", "output failed"}

\* CaptureOutput::write keeps the types of the files.
LEMMA WriteTypes ==
    ASSUME TypeInv, NEW e \in EventTypes(Nat), Write(e)
    PROVE  files' \in Seq(WriterTypes) /\ events' \in Nat /\ Len(files') \in Nat
<1>1. CASE Due(e)
  <2>1. WriteEvent(WriterNew, e) \in WriterTypes
    BY WriterNewType, WriteEventType
  <2>2. files' = Append(files, WriteEvent(WriterNew, e)) /\ events' = 1
    BY <1>1 DEF Write
  <2> QED
    BY <2>1, <2>2 DEF TypeInv
<1>2. CASE ~Due(e)
  <2>1. files' = [files EXCEPT ![Len(files)] = WriteEvent(files[Len(files)], e)]
    BY <1>2 DEF Write
  <2>2. files \in Seq(WriterTypes) /\ events' = events + 1 /\ events \in Nat
    BY <1>2 DEF Write, TypeInv
  <2>3. CASE files = <<>>
    <3>1. files' = files
      BY <2>1, <2>3
    <3> QED
      BY <2>2, <3>1
  <2>4. CASE files # <<>>
    <3>1. Len(files) \in DOMAIN files /\ files[Len(files)] \in WriterTypes
      BY <2>2, <2>4
    <3>2. WriteEvent(files[Len(files)], e) \in WriterTypes
      BY <3>1, WriteEventType
    <3> QED
      BY <2>1, <2>2, <3>1, <3>2
  <2> QED
    BY <2>3, <2>4
<1> QED
  BY <1>1, <1>2

\* Every outcome of consume_event() is one of those that Consumed describes.
LEMMA ConsumeEffect ==
    ASSUME TypeInv, NEW e \in EventTypes(Nat), ConsumeEvent(e)
    PROVE  /\ \E what \in Whats, latency \in Seq(Nat), file \in Nat :
                 Consumed(e, what, latency, file)
           /\ files' \in Seq(WriterTypes) /\ events' \in Nat
           /\ EndpointsOK(iso_stats')
<1> DEFINE effect == \E what \in Whats, latency \in Seq(Nat), file \in Nat :
                        Consumed(e, what, latency, file)
<1>0. <<>> \in Seq(Nat) /\ 0 \in Nat /\ Latency(e) \in Seq(Nat)
  BY LatencyType
<1>t. files \in Seq(WriterTypes) /\ events \in Nat /\ EndpointsOK(iso_stats)
  BY DEF TypeInv
<1>b. output_full \in BOOLEAN /\ written \in Nat
  BY DEF TypeInv
<1>1. CASE Limited /\ Outcome(e, <<>>, "ignored", 0) /\ stopped' = TRUE
           /\ UNCHANGED <<table, files, events, started, written, output_full, status>>
  <2>1. Consumed(e, "ignored", <<>>, 0)
    BY <1>1, <1>b DEF Consumed, table
  <2>2. effect
    BY <1>0, <2>1 DEF Whats
  <2> QED
    BY <1>1, <1>t, <2>2 DEF table
<1>2. CASE ~Limited /\ Outcome(e, <<>>, "refused", 0) /\ status' = "latency table full"
           /\ UNCHANGED <<table, output>>
  <2>1. Consumed(e, "refused", <<>>, 0)
    BY <1>2, <1>b DEF Consumed, table, output
  <2>2. effect
    BY <1>0, <2>1 DEF Whats
  <2> QED
    BY <1>2, <1>t, <2>2 DEF table, output
<1>3. CASE ~Limited /\ submissions' = Submissions(e) /\ Outcome(e, Latency(e), "rejected", 0)
           /\ UNCHANGED <<iso_stats, output, status>>
  <2>1. Consumed(e, "rejected", Latency(e), 0)
    BY <1>3, <1>b DEF Consumed, output
  <2>2. effect
    BY <1>0, <2>1 DEF Whats
  <2> QED
    BY <1>3, <1>t, <2>2 DEF output
<1>4. CASE ~Limited /\ submissions' = Submissions(e) /\ Emit(e)
           /\ iso_stats' = IF options.iso_stats THEN Observe(e) ELSE iso_stats
  <2>1. EndpointsOK(iso_stats')
    BY <1>4, <1>t, ObserveType
  <2>2. CASE Outcome(e, Latency(e), "printed", 0) /\ written' = written + 1
             /\ stopped' = Enough(written')
             /\ UNCHANGED <<files, events, started, output_full, status>>
    <3>1. Consumed(e, "printed", Latency(e), 0)
      BY <1>4, <1>b, <2>2 DEF Consumed, Enough
    <3>2. effect
      BY <1>0, <3>1 DEF Whats
    <3> QED
      BY <1>t, <2>1, <2>2, <3>2
  <2>3. CASE Outcome(e, Latency(e), "full", 0) /\ output_full' = TRUE /\ stopped' = TRUE
             /\ UNCHANGED <<files, events, started, written, status>>
    <3>1. Consumed(e, "full", Latency(e), 0)
      BY <1>4, <1>b, <2>3 DEF Consumed
    <3>2. effect
      BY <1>0, <3>1 DEF Whats
    <3> QED
      BY <1>t, <2>1, <2>3, <3>2
  <2>4. CASE Outcome(e, Latency(e), "failed", 0) /\ status' = "output failed"
             /\ UNCHANGED output
    <3>1. Consumed(e, "failed", Latency(e), 0)
      BY <1>4, <1>b, <2>4 DEF Consumed, output
    <3>2. effect
      BY <1>0, <3>1 DEF Whats
    <3> QED
      BY <1>t, <2>1, <2>4, <3>2 DEF output
  <2>5. CASE Write(e) /\ Outcome(e, Latency(e), "written", Len(files'))
             /\ written' = written + 1 /\ stopped' = Enough(written')
             /\ UNCHANGED <<output_full, status>>
    <3>1. Consumed(e, "written", Latency(e), Len(files'))
      BY <1>4, <1>b, <2>5 DEF Consumed, Enough
    <3>2. files' \in Seq(WriterTypes) /\ events' \in Nat /\ Len(files') \in Nat
      BY <2>5, WriteTypes
    <3>3. effect
      BY <1>0, <3>1, <3>2 DEF Whats
    <3> QED
      BY <2>1, <3>2, <3>3
  <2> QED
    BY <1>4, <2>2, <2>3, <2>4, <2>5 DEF Emit
<1> QED
  BY <1>1, <1>2, <1>3, <1>4 DEF ConsumeEvent

-----------------------------------------------------------------------------
(* The steps *)

IsPacket(b) == ~Offline \/ b.kind = "packet"

\* The next input.
Fed(b) ==
    /\ status = "running" /\ options' = options
    /\ b \in InputTypes(options.mode)
    /\ IsPacket(b) => b.content = Len(input) + 1
    /\ input' = Append(input, b)

\* A block that returns no event.
QuietStep(b) ==
    /\ Fed(b) /\ Offline
    /\ reader' \in ReaderTypes
    /\ UNCHANGED <<returned, table, output>>
    /\ \/ reader'.failed /\ status' = "input failed"
       \/ /\ ~reader'.failed /\ status' = status
          /\ \/ AfterSection(reader, b, reader') \/ AfterInterface(reader, b, reader')
             \/ AfterOther(reader, b, reader') \/ AfterCut(reader, b, reader')
             \/ AfterPacket(reader, b, reader') /\ reader'.event = <<>>

\* An input with its event.
EventStep(b, e) ==
    /\ Fed(b) /\ IsPacket(b)
    /\ e \in EventTypes(Nat)
    /\ e.urb_id = b.urb_id /\ e.event_type = b.event_type /\ e.content = Len(input) + 1
    /\ \/ /\ Offline /\ reader' \in ReaderTypes /\ ~reader'.failed
          /\ AfterPacket(reader, b, reader') /\ EventOf(reader, b, e)
          /\ reader'.incomplete = reader.incomplete
       \/ ~Offline /\ reader' = reader /\ e = b /\ e.source_id = 0
    /\ ConsumeEvent(e)

\* What the assumption says of the command line that was given.
LEMMA ScenarioTypes ==
    ASSUME options \in Scenarios
    PROVE  /\ options.header \in Seq(InputTypes(options.mode))
           /\ \A i \in DOMAIN options.header :
                 "content" \in DOMAIN options.header[i] => options.header[i].content = i
           /\ \A x \in options.inputs : x \in InputTypes(options.mode)
           /\ options.count \in Seq(Nat) /\ Len(options.count) <= 1
BY ConvertAssumption

\* Packets and events have a content, other blocks have not.
LEMMA ContentOfInput ==
    ASSUME NEW x \in InputTypes(options.mode)
    PROVE  /\ IsPacket(x) <=> "content" \in DOMAIN x
           /\ \A n \in Nat : IsPacket(x) => /\ [x EXCEPT !.content = n] \in InputTypes(options.mode)
                                           /\ [x EXCEPT !.content = n].content = n
<1>1. CASE Offline
  <2>1. x \in BlockTypes
    BY <1>1 DEF Offline, InputTypes
  <2>2. CASE x \in PacketTypes
    <3>1. IsPacket(x) /\ "content" \in DOMAIN x
      BY <2>2 DEF IsPacket, PacketTypes
    <3>2. \A n \in Nat : [x EXCEPT !.content = n] \in PacketTypes
                         /\ [x EXCEPT !.content = n].content = n
      BY <2>2 DEF PacketTypes
    <3> QED
      BY <1>1, <3>1, <3>2 DEF Offline, InputTypes, BlockTypes
  <2>3. CASE x \notin PacketTypes
    <3>1. "content" \notin DOMAIN x /\ x.kind # "packet"
      BY <2>1, <2>3 DEF BlockTypes
    <3> QED
      BY <1>1, <3>1 DEF IsPacket
  <2> QED
    BY <2>2, <2>3
<1>2. CASE ~Offline
  <2>1. InputTypes(options.mode) = {e \in EventTypes({0}) : Reassembled(e)}
    BY <1>2 DEF Offline, InputTypes
  <2>2. IsPacket(x) /\ "content" \in DOMAIN x
    BY <1>2, <2>1 DEF IsPacket, EventTypes
  <2>3. \A n \in Nat : [x EXCEPT !.content = n] \in EventTypes({0})
                       /\ [x EXCEPT !.content = n].content = n
    BY <2>1 DEF EventTypes
  <2>4. ASSUME NEW n \in Nat PROVE Reassembled([x EXCEPT !.content = n])
    <3>1. Reassembled(x) /\ x \in EventTypes({0})
      BY <2>1
    <3>2. PICK y : y = [x EXCEPT !.content = n]
      OBVIOUS
    <3>3. /\ y.iso = x.iso /\ y.frames = x.frames /\ y.requested_len = x.requested_len
          /\ y.has_data = x.has_data /\ y.payload_len = x.payload_len /\ y.in = x.in
          /\ y.event_type = x.event_type /\ y.actual_len = x.actual_len
      BY <3>1, <3>2 DEF EventTypes
    <3>4. Reassembled(y)
      BY <3>1, <3>3 DEF Reassembled, DataPhase
    <3> QED
      BY <3>2, <3>4
  <2> QED
    BY <2>1, <2>2, <2>3, <2>4
<1> QED
  BY <1>1, <1>2

\* What comes next has its type, and a packet its number.
LEMMA IncomingType ==
    ASSUME TypeInv, NEW b \in Incoming
    PROVE  /\ b \in InputTypes(options.mode)
           /\ IsPacket(b) => b.content = Len(input) + 1
<1>0. Len(input) \in Nat /\ options \in Scenarios
  BY DEF TypeInv
<1>1. CASE Len(input) < Len(options.header)
  <2>1. b = options.header[Len(input) + 1]
    BY <1>1 DEF Incoming
  <2>2. Len(input) + 1 \in DOMAIN options.header
    BY <1>0, <1>1, ScenarioTypes
  <2>3. b \in InputTypes(options.mode)
    BY <1>0, <2>1, <2>2, ScenarioTypes
  <2> QED
    BY <1>0, <2>1, <2>2, <2>3, ScenarioTypes, ContentOfInput
<1>2. CASE ~(Len(input) < Len(options.header))
  <2>1. PICK x \in options.inputs :
           b = IF "content" \in DOMAIN x THEN [x EXCEPT !.content = Len(input) + 1] ELSE x
    BY <1>2 DEF Incoming
  <2>2. x \in InputTypes(options.mode)
    BY <1>0, ScenarioTypes
  <2>3. CASE IsPacket(x)
    BY <1>0, <2>1, <2>2, <2>3, ContentOfInput
  <2>4. CASE ~IsPacket(x)
    BY <2>1, <2>2, <2>4, ContentOfInput
  <2> QED
    BY <2>3, <2>4
<1> QED
  BY <1>1, <1>2

\* Every step is one of these.
LEMMA Steps ==
    ASSUME TypeInv, Next
    PROVE  \/ Finish
           \/ \E b : QuietStep(b)
           \/ \E b, e : EventStep(b, e)
<1>1. CASE ReadNext
  <2>1. PICK b \in Incoming : input' = Append(input, b) /\ reader' = ReadBlock(reader, b)
    BY <1>1 DEF ReadNext
  <2>2. Offline /\ status = "running" /\ options' = options /\ ~reader.failed
        /\ reader \in ReaderTypes
    BY <1>1 DEF ReadNext, Reading, Offline, TypeInv
  <2>3. Fed(b)
    BY <2>1, <2>2, IncomingType DEF Fed
  <2>4. b \in BlockTypes
    BY <2>2, <2>3 DEF Fed, InputTypes, Offline
  <2>5. /\ reader' \in ReaderTypes
        /\ \/ reader'.failed /\ reader'.event = <<>>
           \/ /\ ~reader'.failed
              /\ \/ AfterSection(reader, b, reader') \/ AfterInterface(reader, b, reader')
                 \/ AfterOther(reader, b, reader') \/ AfterCut(reader, b, reader')
                 \/ AfterPacket(reader, b, reader')
    BY <2>1, <2>2, <2>4, ReadEffect
  <2>6. CASE reader'.event = <<>>
    <3>1. /\ UNCHANGED <<returned, table, output>>
          /\ \/ reader'.failed /\ status' = "input failed"
             \/ ~reader'.failed /\ status' = status
      BY <1>1, <2>6 DEF ReadNext
    <3>2. QuietStep(b)
      BY <2>2, <2>3, <2>5, <2>6, <3>1 DEF QuietStep
    <3> QED
      BY <3>2
  <2>7. CASE reader'.event # <<>>
    <3>1. AfterPacket(reader, b, reader') /\ ~reader'.failed
      BY <2>5, <2>7 DEF AfterSection, AfterInterface, AfterOther, AfterCut
    <3>2. PICK e : reader'.event = <<e>> /\ EventOf(reader, b, e)
                   /\ reader'.incomplete = reader.incomplete
      BY <2>7, <3>1 DEF AfterPacket
    <3>3. ConsumeEvent(reader'.event[1])
      <4>1. reader'.failed \/ reader'.event = <<>> \/ ConsumeEvent(reader'.event[1])
        BY <1>1 DEF ReadNext
      <4> QED
        BY <2>7, <3>1, <4>1
    <3>4. ConsumeEvent(e)
      BY <3>2, <3>3
    <3>5. IsPacket(b)
      BY <3>1 DEF AfterPacket, IsPacket
    <3>6. EventStep(b, e)
      BY <2>2, <2>3, <2>5, <3>1, <3>2, <3>4, <3>5 DEF EventStep, EventOf, Fed
    <3> QED
      BY <3>6
  <2> QED
    BY <2>6, <2>7
<1>2. CASE Receive
  <2>1. PICK e \in Incoming : input' = Append(input, e) /\ ConsumeEvent(e)
    BY <1>2 DEF Receive
  <2>2. ~Offline /\ status = "running" /\ options' = options /\ reader' = reader
    BY <1>2 DEF Receive, Reading, Offline
  <2>3. Fed(e) /\ IsPacket(e)
    BY <2>1, <2>2, IncomingType DEF Fed, IsPacket
  <2>4. e \in EventTypes({0})
    BY <2>2, <2>3 DEF Fed, InputTypes, Offline
  <2>5. e \in EventTypes(Nat) /\ e.source_id = 0
    BY <2>4 DEF EventTypes
  <2>6. EventStep(e, e)
    BY <2>1, <2>2, <2>3, <2>5 DEF EventStep, Fed
  <2> QED
    BY <2>6
<1> QED
  BY <1>1, <1>2 DEF Next

\* What is returned can be written and read again.
LEMMA StepIsWhole ==
    ASSUME NEW b, NEW e, EventStep(b, e)
    PROVE  WholeEvent(e)
<1>1. CASE Offline
  BY <1>1 DEF EventStep, EventOf
<1>2. CASE ~Offline
  <2>1. e = b /\ b \in InputTypes(options.mode)
    BY <1>2 DEF EventStep, Fed
  <2>2. e \in EventTypes({0}) /\ Reassembled(e)
    BY <1>2, <2>1 DEF Offline, InputTypes
  <2>3. /\ e.payload_len \in Nat /\ e.requested_len \in Nat /\ e.frames \in Seq(FrameTypes)
        /\ e.has_data \in BOOLEAN
    BY <2>2 DEF EventTypes
  <2>4. \A f \in Range(e.frames) : f.offset \in Nat /\ f.length \in Nat
    <3> SUFFICES ASSUME NEW f \in Range(e.frames)
                 PROVE  f.offset \in Nat /\ f.length \in Nat
      OBVIOUS
    <3>1. PICK i \in DOMAIN e.frames : f = e.frames[i]
      BY DEF Range
    <3>2. f \in FrameTypes
      BY <2>3, <3>1
    <3> QED
      BY <3>2 DEF FrameTypes
  <2>5. ASSUME NEW f \in Range(e.frames)
        PROVE  /\ e.has_data /\ f.length # 0 => f.offset + f.length <= e.payload_len
               /\ e.event_type = "S" => f.offset + f.length <= e.requested_len
               /\ DataPhase(e) /\ ~e.has_data /\ e.iso => f.length = 0
    <3>1. e.has_data => DataPhase(e)
      BY <2>2 DEF Reassembled
    <3>2. e.iso
      <4>1. e.frames # <<>>
        BY <2>5 DEF Range
      <4> QED
        BY <2>2, <4>1 DEF Reassembled
    <3>3. DataPhase(e) => (f.length # 0 => f.offset + f.length <= e.payload_len)
      BY <2>2, <3>2 DEF Reassembled
    <3>4. ~e.has_data => e.payload_len = 0
      BY <2>2 DEF Reassembled
    <3> QED
      BY <2>2, <2>3, <2>4, <3>1, <3>3, <3>4 DEF Reassembled
  <2> QED
    BY <2>2, <2>5 DEF WholeEvent, Reassembled, WireLen
<1> QED
  BY <1>1, <1>2

\* One more input.
LEMMA FedInput ==
    ASSUME TypeInv, NEW b, Fed(b)
    PROVE  /\ Len(input) \in Nat /\ DOMAIN input = 1 .. Len(input)
           /\ Len(input)' = Len(input) + 1 /\ (DOMAIN input)' = 1 .. Len(input) + 1
           /\ \A i \in 1 .. Len(input) : input'[i] = input[i]
           /\ input'[Len(input) + 1] = b
           /\ Packets \subseteq 1 .. Len(input)
           /\ Packets' = IF IsPacket(b) THEN Packets \cup {Len(input) + 1} ELSE Packets
           /\ Offline' = Offline
<1>1. input \in Seq(InputTypes(options.mode)) /\ b \in InputTypes(options.mode)
      /\ input' = Append(input, b)
  BY DEF TypeInv, Fed
<1>2. /\ Len(input) \in Nat /\ DOMAIN input = 1 .. Len(input)
      /\ Len(input)' = Len(input) + 1 /\ (DOMAIN input)' = 1 .. Len(input) + 1
      /\ \A i \in 1 .. Len(input) : input'[i] = input[i]
      /\ input'[Len(input) + 1] = b
  BY <1>1
<1>3. Offline' = Offline
  BY DEF Offline, Fed
<1>4. Packets' = {i \in 1 .. Len(input) + 1 : ~Offline \/ input'[i].kind = "packet"}
  BY <1>2, <1>3 DEF Packets
<1>5. Packets = {i \in 1 .. Len(input) : ~Offline \/ input[i].kind = "packet"}
  BY <1>2 DEF Packets
<1>6. Packets' = IF IsPacket(b) THEN Packets \cup {Len(input) + 1} ELSE Packets
  BY <1>2, <1>4, <1>5 DEF IsPacket
<1> QED
  BY <1>2, <1>3, <1>5, <1>6

\* One more event.
LEMMA EventReturned ==
    ASSUME TypeInv, NEW e \in EventTypes(Nat), NEW what \in Whats,
           NEW latency \in Seq(Nat), NEW file \in Nat, Outcome(e, latency, what, file)
    PROVE  /\ Len(returned) \in Nat /\ DOMAIN returned = 1 .. Len(returned)
           /\ returned' \in Seq(OutcomeTypes)
           /\ Len(returned)' = Len(returned) + 1
           /\ (DOMAIN returned)' = 1 .. Len(returned) + 1
           /\ \A n \in 1 .. Len(returned) : returned'[n] = returned[n]
           /\ returned'[Len(returned) + 1].event = e
           /\ returned'[Len(returned) + 1].latency = latency
           /\ returned'[Len(returned) + 1].what = what
           /\ returned'[Len(returned) + 1].file = file
<1> DEFINE x == [event |-> e, latency |-> latency, what |-> what, file |-> file]
<1>1. x \in OutcomeTypes
  BY DEF OutcomeTypes
<1>2. returned \in Seq(OutcomeTypes) /\ returned' = Append(returned, x)
  BY DEF TypeInv, Outcome
<1> HIDE DEF x
<1>3. /\ Len(returned) \in Nat /\ DOMAIN returned = 1 .. Len(returned)
      /\ returned' \in Seq(OutcomeTypes)
      /\ Len(returned)' = Len(returned) + 1
      /\ (DOMAIN returned)' = 1 .. Len(returned) + 1
      /\ \A n \in 1 .. Len(returned) : returned'[n] = returned[n]
      /\ returned'[Len(returned) + 1] = x
  BY <1>1, <1>2
<1>4. x.event = e /\ x.latency = latency /\ x.what = what /\ x.file = file
  BY DEF x
<1> QED
  BY <1>3, <1>4

\* Every step keeps the types.
LEMMA TypeStep == TypeInv /\ [Next]_vars => TypeInv'
<1> SUFFICES ASSUME TypeInv, [Next]_vars PROVE TypeInv'
  OBVIOUS
<1>1. CASE UNCHANGED vars
  BY <1>1 DEF TypeInv, vars, table, output
<1>2. CASE Finish
  BY <1>2 DEF TypeInv, Finish, table, output, Statuses
<1>3. ASSUME NEW b, QuietStep(b) PROVE TypeInv'
  <2>0. Fed(b) /\ reader' \in ReaderTypes
    BY <1>3 DEF QuietStep
  <2>1. /\ options' = options /\ input' \in Seq(InputTypes(options.mode))
        /\ reader' \in ReaderTypes
    BY <2>0 DEF Fed, TypeInv
  <2>2. UNCHANGED <<returned, table, output>>
    BY <1>3 DEF QuietStep
  <2>3. status' \in Statuses /\ (status' = "running" => ~reader'.failed)
    BY <1>3 DEF QuietStep, TypeInv, Statuses
  <2> QED
    BY <2>1, <2>2, <2>3 DEF TypeInv, table, output
<1>4. ASSUME NEW b, NEW e, EventStep(b, e) PROVE TypeInv'
  <2>1. /\ options' = options /\ input' \in Seq(InputTypes(options.mode))
        /\ reader' \in ReaderTypes /\ ~reader'.failed
    BY <1>4 DEF EventStep, Fed, TypeInv
  <2>2. e \in EventTypes(Nat) /\ ConsumeEvent(e)
    BY <1>4 DEF EventStep
  <2>3. PICK what \in Whats, latency \in Seq(Nat), file \in Nat :
           Consumed(e, what, latency, file)
    BY <2>2, ConsumeEffect
  <2>4. files' \in Seq(WriterTypes) /\ events' \in Nat /\ EndpointsOK(iso_stats)'
    BY <2>2, ConsumeEffect DEF EndpointsOK
  <2>5. returned' \in Seq(OutcomeTypes)
    BY <2>2, <2>3, EventReturned DEF Consumed
  <2>6. submissions' \in Tables
    BY <2>2, <2>3, SubmissionsType DEF Consumed, TypeInv
  <2>7. written' \in Nat /\ status' \in Statuses
    <3>1. written \in Nat /\ status \in Statuses
      BY DEF TypeInv
    <3>2. written' = written \/ written' = written + 1
      BY <2>3 DEF Consumed
    <3>3. status' \in {status, "latency table full", "output failed"}
      BY <2>3 DEF Consumed
    <3>4. written' \in Nat
      BY <3>1, <3>2
    <3>5. status' \in Statuses
      BY <3>1, <3>3 DEF Statuses
    <3> QED
      BY <3>4, <3>5
  <2>8. output_full' \in BOOLEAN /\ stopped' \in BOOLEAN
    BY <2>3 DEF Consumed, TypeInv, Enough, Reached
  <2> QED
    BY <2>1, <2>4, <2>5, <2>6, <2>7, <2>8 DEF TypeInv
<1> QED
  BY <1>1, <1>2, <1>3, <1>4, Steps

\* The new event comes after all others.
LEMMA HistoryStep == TypeInv /\ HistoryInv /\ [Next]_vars => HistoryInv'
<1> SUFFICES ASSUME TypeInv, HistoryInv, [Next]_vars PROVE HistoryInv'
  OBVIOUS
<1>1. CASE UNCHANGED vars
  BY <1>1 DEF HistoryInv, Packets, At, Offline, vars, table, output
<1>2. CASE Finish
  BY <1>2 DEF HistoryInv, Packets, At, Offline, Finish
<1>3. ASSUME NEW b, QuietStep(b) PROVE HistoryInv'
  <2>1. Fed(b) /\ returned' = returned
    BY <1>3 DEF QuietStep
  <2>2. /\ \A i \in 1 .. Len(input) : input'[i] = input[i]
        /\ input'[Len(input) + 1] = b /\ Packets \subseteq 1 .. Len(input)
        /\ Packets' = IF IsPacket(b) THEN Packets \cup {Len(input) + 1} ELSE Packets
    BY <2>1, FedInput
  <2>3. IsPacket(b) => b.content = Len(input) + 1
    BY <2>1 DEF Fed
  <2> QED
    BY <2>1, <2>2, <2>3 DEF HistoryInv, At
<1>4. ASSUME NEW b, NEW e, EventStep(b, e) PROVE HistoryInv'
  <2>1. Fed(b) /\ IsPacket(b) /\ e \in EventTypes(Nat) /\ ConsumeEvent(e)
        /\ e.urb_id = b.urb_id /\ e.event_type = b.event_type /\ e.content = Len(input) + 1
    BY <1>4 DEF EventStep
  <2>2. /\ Len(input) \in Nat
        /\ \A i \in 1 .. Len(input) : input'[i] = input[i]
        /\ input'[Len(input) + 1] = b /\ Packets \subseteq 1 .. Len(input)
        /\ Packets' = Packets \cup {Len(input) + 1}
        /\ b.content = Len(input) + 1
    BY <2>1, FedInput DEF Fed
  <2>3. PICK what \in Whats, latency \in Seq(Nat), file \in Nat :
           Consumed(e, what, latency, file)
    BY <2>1, ConsumeEffect
  <2>4. /\ Len(returned) \in Nat /\ DOMAIN returned = 1 .. Len(returned)
        /\ (DOMAIN returned)' = 1 .. Len(returned) + 1
        /\ \A n \in 1 .. Len(returned) : returned'[n] = returned[n]
        /\ returned'[Len(returned) + 1].event = e
    BY <2>1, <2>3, EventReturned DEF Consumed
  <2>5. \A n \in 1 .. Len(returned) : At(n) \in 1 .. Len(input)
    BY <2>2, <2>4 DEF HistoryInv
  <2>6. \A i \in Packets' : input'[i].content = i
    BY <2>2 DEF HistoryInv
  <2>7. ASSUME NEW n \in (DOMAIN returned)'
        PROVE  /\ At(n)' \in Packets'
               /\ returned'[n].event.urb_id = input'[At(n)'].urb_id
               /\ returned'[n].event.event_type = input'[At(n)'].event_type
    <3>1. CASE n \in 1 .. Len(returned)
      <4>1. n \in DOMAIN returned /\ returned'[n] = returned[n] /\ At(n) \in 1 .. Len(input)
        BY <2>4, <2>5, <3>1
      <4>2. At(n)' = At(n) /\ input'[At(n)] = input[At(n)]
        BY <2>2, <4>1 DEF At
      <4>3. /\ At(n) \in Packets
            /\ returned[n].event.urb_id = input[At(n)].urb_id
            /\ returned[n].event.event_type = input[At(n)].event_type
        BY <4>1 DEF HistoryInv
      <4> QED
        BY <2>2, <4>1, <4>2, <4>3
    <3>2. CASE n = Len(returned) + 1
      BY <2>1, <2>2, <2>4, <3>2 DEF At
    <3> QED
      BY <2>4, <2>7, <3>1, <3>2
  <2>8. ASSUME NEW m \in (DOMAIN returned)', NEW n \in (DOMAIN returned)', m < n
        PROVE  At(m)' < At(n)'
    <3>0. m \in 1 .. Len(returned) /\ n \in 1 .. Len(returned) + 1
      BY <2>4, <2>8
    <3>1. CASE n \in 1 .. Len(returned)
      BY <2>4, <2>8, <3>0, <3>1 DEF At, HistoryInv
    <3>2. CASE n = Len(returned) + 1
      BY <2>1, <2>2, <2>4, <2>5, <3>0, <3>2 DEF At
    <3> QED
      BY <3>0, <3>1, <3>2
  <2> QED
    BY <2>6, <2>7, <2>8 DEF HistoryInv
<1> QED
  BY <1>1, <1>2, <1>3, <1>4, Steps

\* Every event that consume_event() gets is that of a packet of the input, with its
\* id and phase; no packet is returned twice, and their order is kept.
THEOREM HistoryCorrect == Spec => [](TypeInv /\ HistoryInv)
<1>1. Init => TypeInv /\ HistoryInv
  BY InitTypes
<1>2. TypeInv /\ HistoryInv /\ [Next]_vars => (TypeInv /\ HistoryInv)'
  BY TypeStep, HistoryStep
<1> QED
  BY <1>1, <1>2, PTL DEF Spec

\* Every variable of the reader, of the tables and of the output keeps its type: no
\* latency and no gap between completions is negative, whatever the clocks do.
THEOREM TypeCorrect == Spec => []TypeOK
<1>1. TypeInv => TypeOK
  <2> SUFFICES ASSUME TypeInv PROVE TypeOK
    OBVIOUS
  <2>1. reader.next_source_id \in Nat /\ reader.incomplete \in Nat /\ reader.requested \in Tables
    BY DEF TypeInv, ReaderTypes
  <2>2. DOMAIN reader.requested \subseteq Nat \X Nat /\ DOMAIN submissions \subseteq Nat \X Nat
    BY <2>1, TableEntries DEF TypeInv
  <2>3. ASSUME NEW i \in DOMAIN returned
        PROVE  returned[i].latency = <<>> \/ returned[i].latency[1] \in Nat
    <3>1. returned[i] \in OutcomeTypes
      BY DEF TypeInv
    <3>2. returned[i].latency \in Seq(Nat)
      BY <3>1 DEF OutcomeTypes
    <3> QED
      BY <3>2
  <2> QED
    BY <2>1, <2>2, <2>3 DEF TypeOK, TypeInv, EndpointsOK
<1> QED
  BY <1>1, HistoryCorrect, PTL

-----------------------------------------------------------------------------
(* What became of the events *)

\* One more event with some outcome.
LEMMA BecameMore ==
    ASSUME TypeInv, HistoryInv, NEW b, NEW e, EventStep(b, e),
           NEW what \in Whats, NEW latency \in Seq(Nat), NEW file \in Nat,
           Outcome(e, latency, what, file), NEW whats
    PROVE  /\ Became(whats)' = IF what \in whats THEN Became(whats) \cup {Len(input) + 1}
                               ELSE Became(whats)
           /\ Became(whats) \subseteq 1 .. Len(input) /\ Len(input) \in Nat
<1>1. Fed(b) /\ e \in EventTypes(Nat) /\ e.content = Len(input) + 1
  BY DEF EventStep
<1>2. Len(input) \in Nat /\ Packets \subseteq 1 .. Len(input)
  BY <1>1, FedInput
<1>3. /\ Len(returned) \in Nat /\ DOMAIN returned = 1 .. Len(returned)
      /\ (DOMAIN returned)' = 1 .. Len(returned) + 1
      /\ \A n \in 1 .. Len(returned) : returned'[n] = returned[n]
      /\ returned'[Len(returned) + 1].event = e
      /\ returned'[Len(returned) + 1].what = what
  BY <1>1, EventReturned
<1>4. Became(whats) \subseteq 1 .. Len(input)
  BY <1>2 DEF Became, HistoryInv
<1>5. Became(whats)' = {returned'[n].event.content :
                           n \in {m \in 1 .. Len(returned) + 1 : returned'[m].what \in whats}}
  BY <1>3 DEF Became, At
<1>6. Became(whats) = {returned[n].event.content :
                          n \in {m \in 1 .. Len(returned) : returned[m].what \in whats}}
  BY <1>3 DEF Became, At
<1> DEFINE old == {m \in 1 .. Len(returned) : returned[m].what \in whats}
           new == {m \in 1 .. Len(returned) + 1 : returned'[m].what \in whats}
<1>7. new = IF what \in whats THEN old \cup {Len(returned) + 1} ELSE old
  BY <1>3
<1>8. \A n \in old : returned'[n].event.content = returned[n].event.content
  BY <1>3
<1>9. returned'[Len(returned) + 1].event.content = Len(input) + 1
  BY <1>1, <1>3
<1> HIDE DEF old, new
<1>10. Became(whats)' = {returned'[n].event.content : n \in new}
       /\ Became(whats) = {returned[n].event.content : n \in old}
  BY <1>5, <1>6 DEF old, new
<1>11. CASE what \in whats
  <2>1. Became(whats)' = {returned'[n].event.content : n \in old}
                           \cup {returned'[Len(returned) + 1].event.content}
    BY <1>7, <1>10, <1>11
  <2>2. {returned'[n].event.content : n \in old} = {returned[n].event.content : n \in old}
    BY <1>8
  <2> QED
    BY <1>2, <1>4, <1>9, <1>10, <1>11, <2>1, <2>2
<1>12. CASE what \notin whats
  <2>1. {returned'[n].event.content : n \in old} = {returned[n].event.content : n \in old}
    BY <1>8
  <2> QED
    BY <1>2, <1>4, <1>7, <1>10, <1>12, <2>1
<1> QED
  BY <1>11, <1>12

\* An optional number.
LEMMA OptionalNumber ==
    ASSUME NEW limit \in Seq(Nat), Len(limit) <= 1, NEW n \in Nat
    PROVE  /\ limit = <<n>> <=> limit # <<>> /\ limit[1] = n
           /\ limit # <<>> => limit[1] \in Nat
<1>1. CASE Len(limit) = 0
  <2>1. limit = <<>>
    BY <1>1
  <2> QED
    BY <2>1
<1>2. CASE Len(limit) = 1
  <2>1. limit # <<>> /\ limit[1] \in Nat /\ DOMAIN limit = {1}
    BY <1>2
  <2>2. limit[1] = n => limit = <<n>>
    BY <1>2, <2>1
  <2> QED
    BY <2>1, <2>2
<1>3. PICK k \in Nat : k = Len(limit)
  OBVIOUS
<1>4. k <= 1
  BY <1>3
<1>5. k = 0 \/ k = 1
  BY <1>4
<1> QED
  BY <1>1, <1>2, <1>3, <1>5

\* An event that is ignored finds a limit reached; the limit of -c is met exactly.
LimitInv ==
    /\ written = Cardinality(Became({"written", "printed"}))
    /\ options.count # <<>> => written <= options.count[1]
    /\ Became({"ignored"}) # {} => Limited
    /\ stopped <=> \/ output_full \/ Became({"ignored"}) # {}
                   \/ options.count = <<written>> /\ Became({"written", "printed"}) # {}
    /\ \A i \in Became({"ignored"}), j \in Became({"written", "printed", "rejected"}) : i > j

\* What the limits depend on.
LEMMA LimitInvFrame ==
    ASSUME LimitInv, UNCHANGED <<options, returned, written, output_full, stopped>>
    PROVE  LimitInv'
BY DEF LimitInv, Became, At, Limited, Enough, Reached

\* The limits hold at the start.
LEMMA LimitInvInit == Init => LimitInv
<1> SUFFICES ASSUME Init PROVE LimitInv
  OBVIOUS
<1>1. returned = <<>> /\ options \in Scenarios /\ written = 0 /\ ~output_full /\ ~stopped
  BY DEF Init
<1>2. \A whats : Became(whats) = {}
  BY <1>1 DEF Became
<1>3. options.count # <<>> => options.count[1] \in Nat
  BY <1>1, ScenarioTypes
<1>4. /\ Became({"written", "printed"}) = {} /\ Became({"ignored"}) = {}
      /\ Became({"written", "printed", "rejected"}) = {}
  BY <1>2
<1>5. Cardinality({}) = 0
  BY FS_EmptySet
<1>6. written = Cardinality(Became({"written", "printed"}))
  BY <1>1, <1>4, <1>5
<1>7. options.count # <<>> => written <= options.count[1]
  BY <1>1, <1>3
<1>8. stopped <=> \/ output_full \/ Became({"ignored"}) # {}
                  \/ options.count = <<written>> /\ Became({"written", "printed"}) # {}
  BY <1>1, <1>4, Zenon
<1> QED
  BY <1>4, <1>6, <1>7, <1>8 DEF LimitInv

\* Every step keeps the limits.
LEMMA LimitInvStep == TypeInv /\ HistoryInv /\ LimitInv /\ [Next]_vars => LimitInv'
<1> SUFFICES ASSUME TypeInv, HistoryInv, LimitInv, [Next]_vars PROVE LimitInv'
  OBVIOUS
<1>1. CASE UNCHANGED vars
  BY <1>1, LimitInvFrame DEF vars, output
<1>2. CASE Finish
  BY <1>2, LimitInvFrame DEF Finish, output
<1>3. ASSUME NEW b, QuietStep(b) PROVE LimitInv'
  BY <1>3, LimitInvFrame DEF QuietStep, Fed, output
<1>4. ASSUME NEW b, NEW e, EventStep(b, e) PROVE LimitInv'
  <2>1. Fed(b) /\ e \in EventTypes(Nat) /\ ConsumeEvent(e) /\ options' = options
    BY <1>4 DEF EventStep, Fed
  <2>2. PICK what \in Whats, latency \in Seq(Nat), file \in Nat :
           Consumed(e, what, latency, file)
    BY <2>1, ConsumeEffect
  <2>3. Outcome(e, latency, what, file)
    BY <2>2 DEF Consumed
  <2> DEFINE next == Len(input) + 1
             kept == Became({"written", "printed"})
             judged == Became({"written", "printed", "rejected"})
             ignored == Became({"ignored"})
  <2>4. /\ kept' = IF what \in {"written", "printed"} THEN kept \cup {next} ELSE kept
        /\ kept \subseteq 1 .. Len(input) /\ Len(input) \in Nat
    BY <1>4, <2>3, BecameMore
  <2>5. /\ judged' = IF what \in {"written", "printed", "rejected"} THEN judged \cup {next}
                     ELSE judged
        /\ judged \subseteq 1 .. Len(input)
    BY <1>4, <2>3, BecameMore
  <2>6. /\ ignored' = IF what \in {"ignored"} THEN ignored \cup {next} ELSE ignored
        /\ ignored \subseteq 1 .. Len(input)
    BY <1>4, <2>3, BecameMore
  <2>7. options.count \in Seq(Nat) /\ Len(options.count) <= 1 /\ written \in Nat
    BY ScenarioTypes DEF TypeInv
  <2>8. /\ written = Cardinality(kept)
        /\ options.count # <<>> => written <= options.count[1]
        /\ ignored # {} => Limited
        /\ stopped <=> \/ output_full \/ ignored # {}
                       \/ options.count = <<written>> /\ kept # {}
        /\ \A i \in ignored, j \in judged : i > j
    BY DEF LimitInv
  <2> HIDE DEF kept, judged, ignored
  <2>9. written' = Cardinality(kept')
    <3>0. IsFiniteSet(1 .. Len(input))
      BY <2>4, FS_Interval
    <3>a. next \notin kept
      BY <2>4
    <3>b. IsFiniteSet(kept)
      BY <2>4, <3>0, FS_Subset
    <3>1. IsFiniteSet(kept) /\ next \notin kept
      BY <3>a, <3>b
    <3>2. Cardinality(kept \cup {next}) = Cardinality(kept) + 1
      BY <3>1, FS_AddElement
    <3> QED
      BY <2>2, <2>4, <2>8, <3>2 DEF Consumed
  <2>10. Limited <=> output_full \/ (options.count # <<>> /\ written >= options.count[1])
    BY DEF Limited, Enough, Reached
  <2>11. Limited' <=> output_full' \/ (options.count # <<>> /\ written' >= options.count[1])
    BY <2>1 DEF Limited, Enough, Reached
  <2>12. /\ \A n \in Nat : options.count = <<n>> <=> options.count # <<>> /\ options.count[1] = n
         /\ options.count # <<>> => options.count[1] \in Nat
    BY <2>7, OptionalNumber
  <2>13. CASE what = "ignored"
    <3>1. Limited /\ written' = written /\ output_full' = output_full /\ stopped'
          /\ kept' = kept /\ judged' = judged /\ ignored' = ignored \cup {next}
      BY <2>2, <2>4, <2>5, <2>6, <2>13 DEF Consumed, TypeInv
    <3>2. \A i \in ignored', j \in judged' : i > j
      BY <2>4, <2>5, <2>8, <3>1
    <3>3. Limited'
      BY <2>10, <2>11, <3>1
    <3> QED
      BY <2>1, <2>8, <2>9, <3>1, <3>2, <3>3 DEF LimitInv, kept, judged, ignored
  <2>14. CASE what # "ignored"
    <3>1. ~Limited /\ ignored' = ignored
      BY <2>2, <2>6, <2>14 DEF Consumed
    <3>2. ignored = {}
      BY <2>8, <3>1
    <3>3. ~output_full /\ ~stopped /\ (options.count # <<>> => written < options.count[1])
      BY <2>7, <2>8, <2>10, <2>12, <3>1, <3>2
    <3>4. CASE what \in {"written", "printed"}
      <4>1. written' = written + 1 /\ output_full' = FALSE
            /\ stopped' = Enough(written + 1) /\ kept' # {}
        BY <2>2, <2>4, <3>3, <3>4 DEF Consumed
      <4>2. stopped' <=> options.count = <<written + 1>>
        <5>1. Enough(written + 1) <=> options.count # <<>> /\ written + 1 >= options.count[1]
          BY DEF Enough, Reached
        <5>2. options.count = <<written + 1>>
                 <=> options.count # <<>> /\ options.count[1] = written + 1
          BY <2>7, <2>12
        <5>3. options.count # <<>> => (written + 1 >= options.count[1]
                                          <=> options.count[1] = written + 1)
          BY <2>7, <2>12, <3>3
        <5> QED
          BY <4>1, <5>1, <5>2, <5>3
      <4>3. options.count # <<>> => written + 1 <= options.count[1]
        BY <2>7, <2>12, <3>3
      <4> QED
        BY <2>1, <2>9, <3>1, <3>2, <4>1, <4>2, <4>3 DEF LimitInv, kept, judged, ignored
    <3>5. CASE what \in {"refused", "rejected", "failed"}
      <4>1. written' = written /\ output_full' = FALSE /\ stopped' = stopped
        BY <2>2, <3>3, <3>5 DEF Consumed
      <4>2. options.count # <<written>>
        BY <2>7, <2>12, <3>3
      <4> QED
        BY <2>1, <2>8, <2>9, <3>1, <3>2, <3>3, <4>1, <4>2 DEF LimitInv, kept, judged, ignored
    <3>6. CASE what = "full"
      <4>1. written' = written /\ output_full' /\ stopped'
        BY <2>2, <3>6 DEF Consumed
      <4> QED
        BY <2>1, <2>8, <2>9, <2>11, <3>1, <3>2, <4>1 DEF LimitInv, kept, judged, ignored
    <3> QED
      BY <2>2, <2>14, <3>4, <3>5, <3>6 DEF Whats
  <2> QED
    BY <2>13, <2>14
<1> QED
  BY <1>1, <1>2, <1>3, <1>4, Steps

\* consume_event() writes every selected event up to the -c-th or up to the one that
\* the last file has no room for, never one more, and asks for the end then and
\* only then.
THEOREM LimitsCorrect == Spec => []WrittenIsSelected
<1>1. Init => LimitInv
  BY LimitInvInit
<1>2. TypeInv /\ HistoryInv /\ LimitInv /\ [Next]_vars => LimitInv'
  BY LimitInvStep
<1>3. LimitInv => WrittenIsSelected
  BY DEF LimitInv, WrittenIsSelected
<1> QED
  BY <1>1, <1>2, <1>3, HistoryCorrect, PTL DEF Spec

-----------------------------------------------------------------------------
(* Packets *)

\* Every packet was returned whole or counted.
AccountInv ==
    Offline =>
       /\ \A n \in DOMAIN returned : DataIsWhole(returned[n].event)
       /\ status # "input failed" =>
             Cardinality(Packets) = Len(returned) + reader.incomplete

\* One more packet.
LEMMA PacketsCounted ==
    ASSUME TypeInv, NEW b, Fed(b)
    PROVE  /\ Cardinality(Packets) \in Nat
           /\ Cardinality(Packets') = Cardinality(Packets) + (IF IsPacket(b) THEN 1 ELSE 0)
<1>1. /\ Len(input) \in Nat /\ Packets \subseteq 1 .. Len(input)
      /\ Packets' = IF IsPacket(b) THEN Packets \cup {Len(input) + 1} ELSE Packets
  BY FedInput
<1>2. IsFiniteSet(1 .. Len(input))
  BY <1>1, FS_Interval
<1>3. IsFiniteSet(Packets)
  BY <1>1, <1>2, FS_Subset
<1>4. Cardinality(Packets) \in Nat
  BY <1>3, FS_CardinalityType
<1>5. Len(input) + 1 \notin Packets
  BY <1>1
<1>6. Cardinality(Packets \cup {Len(input) + 1}) = Cardinality(Packets) + 1
  BY <1>3, <1>5, FS_AddElement
<1> QED
  BY <1>1, <1>4, <1>6

\* Every step counts the packet that it reads.
LEMMA AccountStep == TypeInv /\ AccountInv /\ [Next]_vars => AccountInv'
<1> SUFFICES ASSUME TypeInv, AccountInv, [Next]_vars PROVE AccountInv'
  OBVIOUS
<1>0. reader.incomplete \in Nat /\ Len(returned) \in Nat
  BY DEF TypeInv, ReaderTypes
<1>1. CASE UNCHANGED vars
  BY <1>1 DEF AccountInv, Packets, Offline, vars
<1>2. CASE Finish
  <2>1. UNCHANGED <<options, input, reader, returned>> /\ status = "running"
    BY <1>2 DEF Finish
  <2>2. Offline' = Offline /\ Packets' = Packets
    BY <2>1 DEF Offline, Packets
  <2> QED
    BY <2>1, <2>2 DEF AccountInv
<1>3. ASSUME NEW b, QuietStep(b) PROVE AccountInv'
  <2>1. /\ Fed(b) /\ Offline /\ Offline' = Offline /\ returned' = returned
        /\ status = "running"
    BY <1>3, FedInput DEF QuietStep, Fed
  <2>2. /\ Cardinality(Packets) \in Nat
        /\ Cardinality(Packets') = Cardinality(Packets) + (IF IsPacket(b) THEN 1 ELSE 0)
    BY <2>1, PacketsCounted
  <2>3. CASE reader'.failed
    <3>1. status' = "input failed"
      BY <1>3, <2>3 DEF QuietStep
    <3> QED
      BY <2>1, <3>1 DEF AccountInv
  <2>4. CASE ~reader'.failed
    <3>1. reader'.incomplete = reader.incomplete + (IF IsPacket(b) THEN 1 ELSE 0)
      <4>1. \/ AfterSection(reader, b, reader') \/ AfterInterface(reader, b, reader')
            \/ AfterOther(reader, b, reader')
            \/ AfterCut(reader, b, reader')
            \/ AfterPacket(reader, b, reader') /\ reader'.event = <<>>
        BY <1>3, <2>4 DEF QuietStep
      <4>2. CASE AfterSection(reader, b, reader') \/ AfterInterface(reader, b, reader')
                 \/ AfterOther(reader, b, reader')
        <5>1. b.kind # "packet" /\ reader'.incomplete = reader.incomplete
          BY <4>2 DEF AfterSection, AfterInterface, AfterOther
        <5> QED
          BY <1>0, <2>1, <5>1 DEF IsPacket
      <4>3. CASE AfterCut(reader, b, reader')
        BY <2>1, <4>3 DEF AfterCut, IsPacket
      <4>4. CASE AfterPacket(reader, b, reader') /\ reader'.event = <<>>
        BY <2>1, <4>4 DEF AfterPacket, IsPacket
      <4> QED
        BY <4>1, <4>2, <4>3, <4>4
    <3>2. PICK k \in Nat : k = Len(returned) /\ k = Len(returned)'
      BY <1>0, <2>1
    <3>3. Cardinality(Packets) = k + reader.incomplete
      BY <2>1, <3>2 DEF AccountInv
    <3>4. Cardinality(Packets') = k + reader'.incomplete
      BY <1>0, <2>2, <3>1, <3>3
    <3>5. \A n \in (DOMAIN returned)' : DataIsWhole(returned[n].event)'
      BY <2>1 DEF AccountInv, DataIsWhole, DataPhase
    <3> QED
      BY <3>2, <3>4, <3>5 DEF AccountInv
  <2> QED
    BY <2>3, <2>4
<1>4. ASSUME NEW b, NEW e, EventStep(b, e) PROVE AccountInv'
  <2>1. /\ Fed(b) /\ IsPacket(b) /\ Offline' = Offline /\ status = "running"
        /\ e \in EventTypes(Nat) /\ ConsumeEvent(e)
    BY <1>4, FedInput DEF EventStep, Fed
  <2>2. PICK what \in Whats, latency \in Seq(Nat), file \in Nat :
           Consumed(e, what, latency, file)
    BY <2>1, ConsumeEffect
  <2>3. /\ DOMAIN returned = 1 .. Len(returned)
        /\ (DOMAIN returned)' = 1 .. Len(returned) + 1
        /\ Len(returned)' = Len(returned) + 1
        /\ \A n \in 1 .. Len(returned) : returned'[n] = returned[n]
        /\ returned'[Len(returned) + 1].event = e
    BY <2>1, <2>2, EventReturned DEF Consumed
  <2>4. CASE Offline
    <3>1. DataIsWhole(e) /\ reader'.incomplete = reader.incomplete
      BY <1>4, <2>4 DEF EventStep, EventOf
    <3>2. \A n \in (DOMAIN returned)' : DataIsWhole(returned[n].event)'
      <4>1. SUFFICES ASSUME NEW n \in (DOMAIN returned)' PROVE DataIsWhole(returned[n].event)'
        OBVIOUS
      <4>2. PICK x : x = returned'[n].event
        OBVIOUS
      <4>3. DataIsWhole(x)
        <5>1. CASE n \in 1 .. Len(returned)
          BY <2>3, <2>4, <4>2, <5>1 DEF AccountInv
        <5>2. CASE n = Len(returned) + 1
          BY <2>3, <3>1, <4>2, <5>2
        <5> QED
          BY <1>0, <2>3, <4>1, <5>1, <5>2
      <4> QED
        BY <4>2, <4>3 DEF DataIsWhole, DataPhase
    <3>3. Cardinality(Packets) \in Nat /\ Cardinality(Packets') = Cardinality(Packets) + 1
      BY <2>1, PacketsCounted
    <3>4. PICK k \in Nat : k = Len(returned)
      BY <1>0
    <3>5. Cardinality(Packets) = k + reader.incomplete
      BY <2>1, <2>4, <3>4 DEF AccountInv
    <3>6. Cardinality(Packets') = (k + 1) + reader'.incomplete
      <4>1. PICK i \in Nat : i = reader.incomplete /\ i = reader'.incomplete
        BY <1>0, <3>1
      <4>2. PICK c \in Nat : c = Cardinality(Packets)
        BY <3>3
      <4>3. c = k + i
        BY <3>5, <4>1, <4>2
      <4>4. c + 1 = (k + 1) + i
        BY <4>3
      <4> QED
        BY <3>3, <4>1, <4>2, <4>4
    <3>7. Len(returned)' = k + 1
      BY <2>3, <3>4
    <3>8. Cardinality(Packets') = Len(returned)' + reader'.incomplete
      BY <3>6, <3>7
    <3> QED
      BY <3>2, <3>8 DEF AccountInv
  <2>5. CASE ~Offline
    BY <2>1, <2>5 DEF AccountInv
  <2> QED
    BY <2>4, <2>5
<1> QED
  BY <1>1, <1>2, <1>3, <1>4, Steps

\* The reader skips no packet in silence: while it has not given up, every packet of
\* the file was returned with all its data or is counted as incomplete.
THEOREM PacketsCorrect == Spec => []EveryPacketAccounted
<1>1. Init => AccountInv
  <2> SUFFICES ASSUME Init PROVE AccountInv
    OBVIOUS
  <2>1. input = <<>> /\ returned = <<>> /\ reader.incomplete = 0
    BY DEF Init, ReaderNew
  <2>2. Packets = {} /\ DOMAIN returned = {} /\ Len(returned) = 0
    BY <2>1 DEF Packets
  <2>3. Cardinality({}) = 0
    BY FS_EmptySet
  <2>4. Cardinality(Packets) = Len(returned) + reader.incomplete
    BY <2>1, <2>2, <2>3
  <2>5. \A n \in DOMAIN returned : DataIsWhole(returned[n].event)
    BY <2>2
  <2> QED
    BY <2>4, <2>5 DEF AccountInv
<1>2. TypeInv /\ AccountInv /\ [Next]_vars => AccountInv'
  BY AccountStep
<1>3. AccountInv => EveryPacketAccounted
  BY DEF AccountInv, EveryPacketAccounted, DataIsWhole
<1> QED
  BY <1>1, <1>2, <1>3, HistoryCorrect, PTL DEF Spec

-----------------------------------------------------------------------------
(* Origins and open submissions, as functions of the inputs read so far: what    *)
(* Origin, SameUrb, Open and Partner say of a state, said of a sequence.         *)

SectionsIn(s, i) == Cardinality({j \in 1 .. i : s[j].kind = "section"})

OriginIn(offline, s, i) ==
    IF offline THEN <<SectionsIn(s, i), s[i].interface>> ELSE <<0, 0>>

SameIn(offline, s, i, j) ==
    s[i].urb_id = s[j].urb_id /\ OriginIn(offline, s, i) = OriginIn(offline, s, j)

OpenIn(offline, s, inputs) ==
    {i \in inputs : /\ s[i].event_type = "S"
                    /\ \A j \in inputs : SameIn(offline, s, i, j) => j <= i}

PartnerIn(offline, s, i, inputs) ==
    {j \in OpenIn(offline, s, {k \in inputs : k < i}) : SameIn(offline, s, i, j)}

\* The operators on sequences say of a state what those of the properties say.
LEMMA InState ==
    /\ \A i : Origin(i) = OriginIn(Offline, input, i)
    /\ \A inputs : Open(inputs) = OpenIn(Offline, input, inputs)
    /\ \A i, inputs : Partner(i, inputs) = PartnerIn(Offline, input, i, inputs)
<1>1. \A i : Origin(i) = OriginIn(Offline, input, i)
  BY DEF Origin, OriginIn, SectionsIn
<1>2. \A i, j : SameUrb(i, j) <=> SameIn(Offline, input, i, j)
  BY <1>1 DEF SameUrb, SameIn
<1>3. \A inputs : Open(inputs) = OpenIn(Offline, input, inputs)
  BY <1>2 DEF Open, OpenIn
<1>4. \A i, inputs : Partner(i, inputs) = PartnerIn(Offline, input, i, inputs)
  BY <1>2, <1>3 DEF Partner, PartnerIn
<1> QED
  BY <1>1, <1>3, <1>4

\* Sections are only ever added.
LEMMA SectionsMonotone ==
    ASSUME NEW s, NEW i \in Nat, NEW j \in Nat, i <= j
    PROVE  /\ SectionsIn(s, i) \in Nat /\ SectionsIn(s, j) \in Nat
           /\ SectionsIn(s, i) <= SectionsIn(s, j)
<1> DEFINE a == {k \in 1 .. i : s[k].kind = "section"}
           c == {k \in 1 .. j : s[k].kind = "section"}
<1>1. a \subseteq c /\ c \subseteq 1 .. j
  OBVIOUS
<1>2. IsFiniteSet(1 .. j)
  BY FS_Interval
<1> HIDE DEF a, c
<1>3. IsFiniteSet(c)
  BY <1>1, <1>2, FS_Subset
<1>4. IsFiniteSet(a) /\ Cardinality(a) <= Cardinality(c)
  BY <1>1, <1>3, FS_Subset
<1>5. Cardinality(a) \in Nat /\ Cardinality(c) \in Nat
  BY <1>3, <1>4, FS_CardinalityType
<1> QED
  BY <1>4, <1>5 DEF a, c, SectionsIn

\* One more input: the sections of the others stay, ...
LEMMA SectionsStay ==
    ASSUME NEW s, NEW t, NEW n \in Nat, \A i \in 1 .. n : t[i] = s[i]
    PROVE  /\ \A i \in 0 .. n : SectionsIn(t, i) = SectionsIn(s, i)
           /\ SectionsIn(t, n + 1)
                 = SectionsIn(s, n) + (IF t[n + 1].kind = "section" THEN 1 ELSE 0)
<1>0. \A i \in 1 .. n : t[i] = s[i]
  OBVIOUS
<1>1. \A i \in 0 .. n : SectionsIn(t, i) = SectionsIn(s, i)
  <2>1. SUFFICES ASSUME NEW i \in 0 .. n PROVE SectionsIn(t, i) = SectionsIn(s, i)
    OBVIOUS
  <2>2. {k \in 1 .. i : t[k].kind = "section"} = {k \in 1 .. i : s[k].kind = "section"}
    BY <1>0
  <2> QED
    BY <2>2 DEF SectionsIn
<1>2. SectionsIn(t, n + 1)
         = SectionsIn(s, n) + (IF t[n + 1].kind = "section" THEN 1 ELSE 0)
  <2> DEFINE a == {k \in 1 .. n : s[k].kind = "section"}
             c == {k \in 1 .. n + 1 : t[k].kind = "section"}
  <2>1. c = IF t[n + 1].kind = "section" THEN a \cup {n + 1} ELSE a
    BY <1>0
  <2>2. a \subseteq 1 .. n /\ n + 1 \notin a
    BY <1>0
  <2> HIDE DEF a, c
  <2>3. IsFiniteSet(1 .. n)
    BY <1>0, FS_Interval
  <2>4. IsFiniteSet(a)
    BY <2>2, <2>3, FS_Subset
  <2>5. Cardinality(a) \in Nat /\ Cardinality(a \cup {n + 1}) = Cardinality(a) + 1
    BY <2>2, <2>4, FS_AddElement, FS_CardinalityType
  <2>6. Cardinality(c) = Cardinality(a) + (IF t[n + 1].kind = "section" THEN 1 ELSE 0)
    BY <2>1, <2>5
  <2> QED
    BY <2>6 DEF a, c, SectionsIn
<1> QED
  BY <1>1, <1>2

\* The first n inputs are the same.
Agree(t, s, n) == \A i \in 1 .. n : t[i] = s[i]

\* ... and so do their origins, ...
LEMMA OriginsStay ==
    ASSUME NEW offline \in BOOLEAN, NEW s, NEW t, NEW n \in Nat, Agree(t, s, n)
    PROVE  /\ \A i \in 1 .. n : OriginIn(offline, t, i) = OriginIn(offline, s, i)
           /\ \A i, j \in 1 .. n : SameIn(offline, t, i, j) <=> SameIn(offline, s, i, j)
<1>0. \A i \in 1 .. n : t[i] = s[i]
  BY DEF Agree
<1>1. \A i \in 0 .. n : SectionsIn(t, i) = SectionsIn(s, i)
  BY <1>0, SectionsStay
<1>2. \A i \in 1 .. n : OriginIn(offline, t, i) = OriginIn(offline, s, i)
  <2>1. SUFFICES ASSUME NEW i \in 1 .. n
                 PROVE  OriginIn(offline, t, i) = OriginIn(offline, s, i)
    OBVIOUS
  <2>2. t[i] = s[i] /\ SectionsIn(t, i) = SectionsIn(s, i)
    BY <1>0, <1>1
  <2> QED
    BY <2>2 DEF OriginIn
<1>3. \A i, j \in 1 .. n : SameIn(offline, t, i, j) <=> SameIn(offline, s, i, j)
  BY <1>0, <1>2 DEF SameIn
<1> QED
  BY <1>2, <1>3

\* ... the open submissions, and the partners among them.
LEMMA OpenStays ==
    ASSUME NEW offline \in BOOLEAN, NEW s, NEW t, NEW n \in Nat, Agree(t, s, n),
           NEW inputs \in SUBSET (1 .. n)
    PROVE  OpenIn(offline, t, inputs) = OpenIn(offline, s, inputs)
<1>0. \A k \in 1 .. n : t[k] = s[k]
  BY DEF Agree
<1>1. \A k, j \in 1 .. n : SameIn(offline, t, k, j) <=> SameIn(offline, s, k, j)
  BY OriginsStay
<1>2. \A i \in inputs : t[i] = s[i]
  BY <1>0
<1>3. \A i, j \in inputs : SameIn(offline, t, i, j) <=> SameIn(offline, s, i, j)
  BY <1>1
<1> QED
  BY <1>2, <1>3 DEF OpenIn

\* The partner of an input is not changed by later ones.
LEMMA PartnersStay ==
    ASSUME NEW offline \in BOOLEAN, NEW s, NEW t, NEW n \in Nat, Agree(t, s, n),
           NEW i \in 1 .. n, NEW inputs \in SUBSET (1 .. n)
    PROVE  PartnerIn(offline, t, i, inputs) = PartnerIn(offline, s, i, inputs)
<1> DEFINE earlier == {k \in inputs : k < i}
<1>1. earlier \in SUBSET (1 .. n)
  OBVIOUS
<1>0. \A k \in 1 .. n : t[k] = s[k]
  BY DEF Agree
<1>3. OpenIn(offline, t, earlier) = OpenIn(offline, s, earlier)
  <2> HIDE DEF earlier
  <2> QED
    BY <1>1, OpenStays
<1>4. OpenIn(offline, s, earlier) \subseteq 1 .. n
  BY <1>1 DEF OpenIn
<1>5. \A k, j \in 1 .. n : SameIn(offline, t, k, j) <=> SameIn(offline, s, k, j)
  BY OriginsStay
<1> HIDE DEF earlier
<1>6. \A j \in OpenIn(offline, s, earlier) :
         SameIn(offline, t, i, j) <=> SameIn(offline, s, i, j)
  BY <1>4, <1>5
<1>7. {j \in OpenIn(offline, t, earlier) : SameIn(offline, t, i, j)}
         = {j \in OpenIn(offline, s, earlier) : SameIn(offline, s, i, j)}
  BY <1>3, <1>6
<1> QED
  BY <1>7 DEF PartnerIn, earlier

\* What is open after one more input.
OpenAfter(offline, s, inputs, latest) ==
    {i \in OpenIn(offline, s, inputs) : ~SameIn(offline, s, i, latest)}
       \cup {i \in {latest} : s[latest].event_type = "S"}

\* The latest of some inputs takes the place of the open submission of its URB.
LEMMA LatestInput ==
    ASSUME NEW offline, NEW s, NEW n \in Nat, NEW inputs \in SUBSET (1 .. n)
    PROVE  /\ OpenIn(offline, s, inputs \cup {n + 1}) = OpenAfter(offline, s, inputs, n + 1)
           /\ \A j : j \in PartnerIn(offline, s, n + 1, inputs \cup {n + 1})
                 <=> j \in OpenIn(offline, s, inputs) /\ SameIn(offline, s, n + 1, j)
<1> DEFINE latest == n + 1
<1>0. \A i \in inputs : i \in Nat /\ i < latest
  OBVIOUS
<1>1. OpenIn(offline, s, inputs \cup {latest}) = OpenAfter(offline, s, inputs, latest)
  <2>1. \A i \in inputs : ~(latest <= i) /\ i <= latest
    BY <1>0
  <2>2. latest <= latest /\ latest \notin inputs
    BY <1>0
  <2> HIDE DEF latest
  <2> QED
    BY <2>1, <2>2 DEF OpenIn, OpenAfter
<1>2. {k \in inputs \cup {latest} : k < latest} = inputs
  <2>1. ~(latest < latest)
    OBVIOUS
  <2> HIDE DEF latest
  <2> QED
    BY <1>0, <2>1
<1>4. \A j : j \in PartnerIn(offline, s, latest, inputs \cup {latest})
         <=> j \in OpenIn(offline, s, inputs) /\ SameIn(offline, s, latest, j)
  BY <1>2 DEF PartnerIn
<1> QED
  BY <1>1, <1>4

\* Partners come before: a later input is none.
LEMMA EarlierPartner ==
    ASSUME NEW offline, NEW s, NEW n \in Nat, NEW inputs \in SUBSET (1 .. n), NEW i \in 1 .. n
    PROVE  PartnerIn(offline, s, i, inputs \cup {n + 1}) = PartnerIn(offline, s, i, inputs)
<1>1. {k \in inputs \cup {n + 1} : k < i} = {k \in inputs : k < i}
  OBVIOUS
<1> QED
  BY <1>1 DEF PartnerIn

-----------------------------------------------------------------------------
(* Sources *)

PacketsIn(s) == {i \in 1 .. Len(s) : s[i].kind = "packet"}

\* An input belongs to the section that is being read.
Current(s, i) == SectionsIn(s, i) = SectionsIn(s, Len(s))

\* The interfaces of the section that is being read have sources of their own;
\* its packets refer to them.
InterfacesOK(r, s) ==
    /\ \A p, q \in 1 .. Len(r.interfaces) :
          r.interfaces[p].source_id = r.interfaces[q].source_id => p = q
    /\ \A p \in 1 .. Len(r.interfaces) : r.interfaces[p].source_id < r.next_source_id
    /\ \A i \in PacketsIn(s) : Current(s, i) => s[i].interface < Len(r.interfaces)

\* An event has the source of its interface; those of earlier sections are not used
\* again.
SourceFits(r, s, e) ==
    /\ e.source_id < r.next_source_id
    /\ IF Current(s, e.content)
       THEN e.source_id = r.interfaces[s[e.content].interface + 1].source_id
       ELSE \A p \in 1 .. Len(r.interfaces) : e.source_id < r.interfaces[p].source_id

\* t is s with one more block; a name that the provers can match.
Extended(t, s, b) == t = Append(s, b)

\* What one block adds to the sections.
LEMMA CurrentAfter ==
    ASSUME NEW s \in Seq(BlockTypes), NEW b \in BlockTypes, NEW t, Extended(t, s, b)
    PROVE  /\ Len(s) \in Nat /\ Len(t) = Len(s) + 1 /\ t[Len(s) + 1] = b
           /\ \A i \in 1 .. Len(s) : t[i] = s[i]
           /\ PacketsIn(s) \subseteq 1 .. Len(s)
           /\ PacketsIn(t) = IF b.kind = "packet" THEN PacketsIn(s) \cup {Len(s) + 1}
                             ELSE PacketsIn(s)
           /\ \A i \in 1 .. Len(s) : Current(t, i) <=> Current(s, i) /\ b.kind # "section"
           /\ Current(t, Len(s) + 1)
<1>1. /\ Len(s) \in Nat /\ Len(t) = Len(s) + 1 /\ t[Len(s) + 1] = b
      /\ \A i \in 1 .. Len(s) : t[i] = s[i]
  BY DEF Extended
<1>2. PacketsIn(s) \subseteq 1 .. Len(s)
  BY DEF PacketsIn
<1>3. PacketsIn(t) = IF b.kind = "packet" THEN PacketsIn(s) \cup {Len(s) + 1} ELSE PacketsIn(s)
  BY <1>1 DEF PacketsIn
<1>4. /\ \A i \in 0 .. Len(s) : SectionsIn(t, i) = SectionsIn(s, i)
      /\ SectionsIn(t, Len(s) + 1)
            = SectionsIn(s, Len(s)) + (IF b.kind = "section" THEN 1 ELSE 0)
  <2>1. PICK n \in Nat : n = Len(s)
    BY <1>1
  <2>2. \A i \in 1 .. n : t[i] = s[i]
    BY <1>1, <2>1
  <2>3. \A i \in 0 .. n : SectionsIn(t, i) = SectionsIn(s, i)
    BY <2>2, SectionsStay, Zenon
  <2>4. SectionsIn(t, n + 1)
           = SectionsIn(s, n) + (IF t[n + 1].kind = "section" THEN 1 ELSE 0)
    BY <2>2, SectionsStay, Zenon
  <2>5. t[n + 1] = b
    BY <1>1, <2>1
  <2> QED
    BY <2>1, <2>3, <2>4, <2>5
<1>5. ASSUME NEW i \in 1 .. Len(s)
      PROVE  Current(t, i) <=> Current(s, i) /\ b.kind # "section"
  <2>1. /\ SectionsIn(s, i) \in Nat /\ SectionsIn(s, Len(s)) \in Nat
        /\ SectionsIn(s, i) <= SectionsIn(s, Len(s))
    BY <1>1, SectionsMonotone
  <2>2. PICK x \in Nat, y \in Nat : x = SectionsIn(s, i) /\ y = SectionsIn(s, Len(s))
    BY <2>1
  <2>4. SectionsIn(t, i) = x /\ SectionsIn(t, Len(t)) = y + (IF b.kind = "section" THEN 1 ELSE 0)
    BY <1>1, <1>4, <2>2
  <2>5. Current(t, i) <=> x = y + (IF b.kind = "section" THEN 1 ELSE 0)
    BY <2>4 DEF Current
  <2>6. x <= y
    BY <2>1, <2>2
  <2>7. Current(s, i) <=> x = y
    BY <2>2 DEF Current
  <2> QED
    BY <2>5, <2>6, <2>7
<1>6. Current(t, Len(s) + 1)
  BY <1>1 DEF Current
<1> QED
  BY <1>1, <1>2, <1>3, <1>5, <1>6

\* What the reader does with one block keeps the sources apart.
LEMMA SourcesKept ==
    ASSUME NEW r \in ReaderTypes, NEW new \in ReaderTypes,
           NEW s \in Seq(BlockTypes), NEW b \in BlockTypes, NEW t, Extended(t, s, b),
           InterfacesOK(r, s),
           \/ AfterSection(r, b, new) \/ AfterInterface(r, b, new) \/ AfterOther(r, b, new)
           \/ AfterCut(r, b, new) \/ AfterPacket(r, b, new)
    PROVE  /\ InterfacesOK(new, t)
           /\ \A e \in EventTypes(Nat) :
                 e.content \in PacketsIn(s) /\ SourceFits(r, s, e) => SourceFits(new, t, e)
<1>0. /\ Len(s) \in Nat /\ t[Len(s) + 1] = b
      /\ \A i \in 1 .. Len(s) : t[i] = s[i]
      /\ PacketsIn(s) \subseteq 1 .. Len(s)
      /\ PacketsIn(t) = IF b.kind = "packet" THEN PacketsIn(s) \cup {Len(s) + 1}
                        ELSE PacketsIn(s)
      /\ \A i \in 1 .. Len(s) : Current(t, i) <=> Current(s, i) /\ b.kind # "section"
      /\ Current(t, Len(s) + 1)
  <2>1. /\ Len(s) \in Nat /\ t[Len(s) + 1] = b
        /\ \A i \in 1 .. Len(s) : t[i] = s[i]
    BY DEF Extended
  <2>2. /\ PacketsIn(s) \subseteq 1 .. Len(s)
        /\ PacketsIn(t) = IF b.kind = "packet" THEN PacketsIn(s) \cup {Len(s) + 1}
                          ELSE PacketsIn(s)
    BY CurrentAfter
  <2>3. \A i \in 1 .. Len(s) : Current(t, i) <=> Current(s, i) /\ b.kind # "section"
    BY CurrentAfter
  <2>4. Current(t, Len(s) + 1)
    BY CurrentAfter
  <2> QED
    BY <2>1, <2>2, <2>3, <2>4
<1>1. /\ r.interfaces \in Seq(InterfaceTypes) /\ r.next_source_id \in Nat
      /\ Len(r.interfaces) \in Nat
      /\ \A p \in 1 .. Len(r.interfaces) : r.interfaces[p].source_id \in Nat
  <2>1. r.interfaces \in Seq(InterfaceTypes) /\ r.next_source_id \in Nat
    BY DEF ReaderTypes
  <2>2. \A p \in 1 .. Len(r.interfaces) : r.interfaces[p] \in InterfaceTypes
    BY <2>1
  <2>3. \A p \in 1 .. Len(r.interfaces) : r.interfaces[p].source_id \in Nat
    BY <2>2 DEF InterfaceTypes
  <2>4. Len(r.interfaces) \in Nat
    BY <2>1
  <2> QED
    BY <2>1, <2>3, <2>4
<1>2. CASE AfterSection(r, b, new)
  <2>1. b.kind = "section" /\ new.interfaces = <<>> /\ new.next_source_id = r.next_source_id
        /\ Len(new.interfaces) = 0
    BY <1>2 DEF AfterSection
  <2>2. InterfacesOK(new, t)
    BY <1>0, <2>1 DEF InterfacesOK
  <2>3. ASSUME NEW e \in EventTypes(Nat), e.content \in PacketsIn(s), SourceFits(r, s, e)
        PROVE  SourceFits(new, t, e)
    <3>1. ~Current(t, e.content)
      BY <1>0, <2>1, <2>3
    <3> QED
      BY <2>1, <2>3, <3>1 DEF SourceFits
  <2> QED
    BY <2>2, <2>3
<1>3. CASE AfterInterface(r, b, new)
  <2>1. PICK i \in InterfaceTypes : /\ i.source_id = r.next_source_id
                                    /\ new.interfaces = Append(r.interfaces, i)
    BY <1>3 DEF AfterInterface
  <2>2. b.kind = "interface" /\ new.next_source_id = r.next_source_id + 1
    BY <1>3 DEF AfterInterface
  <2>3. /\ Len(new.interfaces) = Len(r.interfaces) + 1
        /\ \A p \in 1 .. Len(r.interfaces) : new.interfaces[p] = r.interfaces[p]
        /\ new.interfaces[Len(r.interfaces) + 1].source_id = r.next_source_id
    BY <1>1, <2>1
  <2>4. \A p \in 1 .. Len(new.interfaces) :
           p \in 1 .. Len(r.interfaces) \/ p = Len(r.interfaces) + 1
    BY <1>1, <2>3
  <2>5. \A p \in 1 .. Len(r.interfaces) : r.interfaces[p].source_id < r.next_source_id
    BY DEF InterfacesOK
  <2>6. \A p, q \in 1 .. Len(new.interfaces) :
           new.interfaces[p].source_id = new.interfaces[q].source_id => p = q
    <3>1. SUFFICES ASSUME NEW p \in 1 .. Len(new.interfaces), NEW q \in 1 .. Len(new.interfaces),
                          new.interfaces[p].source_id = new.interfaces[q].source_id
                   PROVE  p = q
      OBVIOUS
    <3>2. CASE p \in 1 .. Len(r.interfaces) /\ q \in 1 .. Len(r.interfaces)
      <4>1. r.interfaces[p].source_id = r.interfaces[q].source_id
        BY <2>3, <3>1, <3>2
      <4> QED
        BY <3>2, <4>1 DEF InterfacesOK
    <3>3. CASE p \in 1 .. Len(r.interfaces) /\ q = Len(r.interfaces) + 1
      <4>1. r.interfaces[p].source_id = r.next_source_id
        BY <2>3, <3>1, <3>3
      <4> QED
        BY <1>1, <2>5, <3>3, <4>1
    <3>4. CASE q \in 1 .. Len(r.interfaces) /\ p = Len(r.interfaces) + 1
      <4>1. r.interfaces[q].source_id = r.next_source_id
        BY <2>3, <3>1, <3>4
      <4> QED
        BY <1>1, <2>5, <3>4, <4>1
    <3> QED
      BY <2>4, <3>2, <3>3, <3>4
  <2>7. \A p \in 1 .. Len(new.interfaces) : new.interfaces[p].source_id < new.next_source_id
    <3>1. SUFFICES ASSUME NEW p \in 1 .. Len(new.interfaces)
                   PROVE  new.interfaces[p].source_id < new.next_source_id
      OBVIOUS
    <3>2. CASE p \in 1 .. Len(r.interfaces)
      <4>1. r.interfaces[p].source_id < r.next_source_id /\ r.interfaces[p].source_id \in Nat
        BY <1>1, <2>5, <3>2
      <4> QED
        BY <1>1, <2>2, <2>3, <3>2, <4>1, SMTT(30)
    <3>3. CASE p = Len(r.interfaces) + 1
      BY <1>1, <2>2, <2>3, <3>3
    <3> QED
      BY <2>4, <3>2, <3>3
  <2>8. ASSUME NEW j \in PacketsIn(t), Current(t, j)
        PROVE  t[j].interface < Len(new.interfaces)
    <3>1. j \in PacketsIn(s) /\ j \in 1 .. Len(s) /\ t[j] = s[j] /\ Current(s, j)
      BY <1>0, <2>2, <2>8
    <3>2. s[j].interface < Len(r.interfaces)
      BY <3>1 DEF InterfacesOK
    <3>3. s[j].interface \in Nat
      BY <3>1, KindOfBlock DEF PacketsIn, PacketTypes
    <3> QED
      BY <1>1, <2>3, <3>1, <3>2, <3>3
  <2>9. ASSUME NEW e \in EventTypes(Nat), e.content \in PacketsIn(s), SourceFits(r, s, e)
        PROVE  SourceFits(new, t, e)
    <3>0. /\ e.source_id \in Nat /\ e.content \in 1 .. Len(s)
          /\ Current(t, e.content) <=> Current(s, e.content)
          /\ t[e.content] = s[e.content]
      BY <1>0, <2>2, <2>9 DEF EventTypes
    <3>1. e.source_id < new.next_source_id
      BY <1>1, <2>2, <2>9, <3>0 DEF SourceFits
    <3>2. CASE Current(s, e.content)
      <4>1. s[e.content].interface < Len(r.interfaces)
        BY <2>9, <3>2 DEF InterfacesOK
      <4>2. s[e.content].interface \in Nat
        BY <2>9, <3>0, KindOfBlock DEF PacketsIn, PacketTypes
      <4>3. s[e.content].interface + 1 \in 1 .. Len(r.interfaces)
        BY <1>1, <4>1, <4>2
      <4>4. e.source_id = new.interfaces[s[e.content].interface + 1].source_id
        BY <2>3, <2>9, <3>2, <4>3 DEF SourceFits
      <4> QED
        BY <3>0, <3>1, <3>2, <4>4 DEF SourceFits
    <3>3. CASE ~Current(s, e.content)
      <4>1. \A p \in 1 .. Len(r.interfaces) : e.source_id < r.interfaces[p].source_id
        BY <2>9, <3>3 DEF SourceFits
      <4>2. e.source_id < r.next_source_id
        BY <2>9 DEF SourceFits
      <4>3. \A p \in 1 .. Len(new.interfaces) : e.source_id < new.interfaces[p].source_id
        BY <2>3, <2>4, <4>1, <4>2
      <4> QED
        BY <3>0, <3>1, <3>3, <4>3 DEF SourceFits
    <3> QED
      BY <3>2, <3>3
  <2> QED
    BY <2>6, <2>7, <2>8, <2>9 DEF InterfacesOK
<1>4. CASE AfterOther(r, b, new) \/ AfterCut(r, b, new) \/ AfterPacket(r, b, new)
  <2>1. /\ new.interfaces = r.interfaces /\ new.next_source_id = r.next_source_id
        /\ b.kind = "other" \/ (b.kind = "packet" /\ b.interface < Len(r.interfaces))
    BY <1>4 DEF AfterOther, AfterCut, AfterPacket, SameInterfaces
  <2>2. ASSUME NEW i \in PacketsIn(t), Current(t, i)
        PROVE  t[i].interface < Len(new.interfaces)
    <3>1. CASE i \in PacketsIn(s)
      BY <1>0, <2>1, <2>2, <3>1 DEF InterfacesOK
    <3>2. CASE i = Len(s) + 1 /\ b.kind = "packet"
      BY <1>0, <2>1, <3>2
    <3> QED
      BY <1>0, <2>2, <3>1, <3>2
  <2>3. InterfacesOK(new, t)
    BY <2>1, <2>2 DEF InterfacesOK
  <2>4. ASSUME NEW e \in EventTypes(Nat), e.content \in PacketsIn(s), SourceFits(r, s, e)
        PROVE  SourceFits(new, t, e)
    <3>1. /\ Current(t, e.content) <=> Current(s, e.content)
          /\ t[e.content] = s[e.content]
      BY <1>0, <2>1, <2>4
    <3> QED
      BY <2>1, <2>4, <3>1 DEF SourceFits
  <2> QED
    BY <2>3, <2>4
<1> QED
  BY <1>2, <1>3, <1>4

\* A packet's source is that of an earlier event if and only if the two have the
\* same section and interface.
LEMMA SourceIsOrigin ==
    ASSUME NEW r \in ReaderTypes, NEW s \in Seq(BlockTypes), NEW b \in BlockTypes,
           b.kind = "packet", NEW t, Extended(t, s, b),
           InterfacesOK(r, s), b.interface < Len(r.interfaces),
           NEW x \in EventTypes(Nat), x.content \in PacketsIn(s), SourceFits(r, s, x)
    PROVE  x.source_id = r.interfaces[b.interface + 1].source_id
              <=> OriginIn(TRUE, t, x.content) = OriginIn(TRUE, t, Len(s) + 1)
<1>0. /\ Len(s) \in Nat /\ t[Len(s) + 1] = b /\ Len(t) = Len(s) + 1
      /\ x.content \in 1 .. Len(s) /\ t[x.content] = s[x.content]
      /\ s[x.content].kind = "packet"
  BY DEF PacketsIn, Extended
<1>1. Current(t, x.content) <=> Current(s, x.content)
  <2>1. \A i \in 1 .. Len(s) : Current(t, i) <=> Current(s, i) /\ b.kind # "section"
    BY CurrentAfter
  <2> QED
    BY <1>0, <2>1
<1>2. s[x.content].interface \in Nat
  BY <1>0, KindOfBlock DEF PacketTypes
<1>3. b.interface \in Nat /\ b.interface + 1 \in 1 .. Len(r.interfaces)
  <2>1. b.interface \in Nat
    BY KindOfBlock DEF PacketTypes
  <2>2. Len(r.interfaces) \in Nat
    BY DEF ReaderTypes
  <2> QED
    BY <2>1, <2>2
<1>4. OriginIn(TRUE, t, x.content) = OriginIn(TRUE, t, Len(s) + 1)
         <=> Current(t, x.content) /\ s[x.content].interface = b.interface
  BY <1>0 DEF OriginIn, Current
<1>5. CASE Current(s, x.content)
  <2>1. s[x.content].interface < Len(r.interfaces)
    BY <1>5 DEF InterfacesOK
  <2>2. s[x.content].interface + 1 \in 1 .. Len(r.interfaces)
    <3>1. Len(r.interfaces) \in Nat
      BY DEF ReaderTypes
    <3> QED
      BY <1>2, <2>1, <3>1
  <2>3. x.source_id = r.interfaces[s[x.content].interface + 1].source_id
    BY <1>5 DEF SourceFits
  <2>4. x.source_id = r.interfaces[b.interface + 1].source_id
           => s[x.content].interface + 1 = b.interface + 1
    BY <1>3, <2>2, <2>3 DEF InterfacesOK
  <2>5. x.source_id = r.interfaces[b.interface + 1].source_id
           <=> s[x.content].interface = b.interface
    BY <1>2, <1>3, <2>3, <2>4
  <2> QED
    BY <1>1, <1>4, <1>5, <2>5
<1>6. CASE ~Current(s, x.content)
  <2>1. x.source_id < r.interfaces[b.interface + 1].source_id
    BY <1>3, <1>6 DEF SourceFits
  <2>2. x.source_id \in Nat
    BY DEF EventTypes
  <2>3. x.source_id # r.interfaces[b.interface + 1].source_id
    BY <2>1, <2>2
  <2> QED
    BY <1>1, <1>4, <1>6, <2>3
<1> QED
  BY <1>5, <1>6

\* Sources are numbered apart: two events have the same source if and only if they
\* have the same origin.
SourceInv ==
    /\ Offline /\ ~reader.failed =>
          /\ InterfacesOK(reader, input)
          /\ \A n \in DOMAIN returned : SourceFits(reader, input, returned[n].event)
    /\ ~Offline => \A n \in DOMAIN returned : returned[n].event.source_id = 0
    /\ \A m, n \in DOMAIN returned :
          returned[m].event.source_id = returned[n].event.source_id
             <=> OriginIn(Offline, input, At(m)) = OriginIn(Offline, input, At(n))

\* When a file is read, the packets are the blocks of that kind.
LEMMA OfflinePackets ==
    ASSUME TypeInv, Offline
    PROVE  Packets = PacketsIn(input) /\ input \in Seq(BlockTypes)
<1>1. input \in Seq(BlockTypes)
  BY DEF TypeInv, InputTypes, Offline
<1>2. DOMAIN input = 1 .. Len(input)
  BY <1>1
<1> QED
  BY <1>1, <1>2 DEF Packets, PacketsIn

\* Sources are apart at the start.
LEMMA SourceInit == Init => SourceInv
<1> SUFFICES ASSUME Init PROVE SourceInv
  OBVIOUS
<1>1. input = <<>> /\ returned = <<>> /\ reader.interfaces = <<>>
  BY DEF Init, ReaderNew
<1>2. InterfacesOK(reader, input)
  BY <1>1 DEF InterfacesOK, PacketsIn
<1>3. DOMAIN returned = {}
  BY <1>1
<1> QED
  BY <1>2, <1>3 DEF SourceInv

\* Every step keeps the sources apart.
LEMMA SourceStep == TypeInv /\ HistoryInv /\ SourceInv /\ [Next]_vars => SourceInv'
<1> SUFFICES ASSUME TypeInv, HistoryInv, SourceInv, [Next]_vars PROVE SourceInv'
  OBVIOUS
<1>1. CASE UNCHANGED vars
  BY <1>1 DEF SourceInv, Offline, At, vars
<1>2. CASE Finish
  BY <1>2 DEF SourceInv, Offline, At, Finish
<1>3. ASSUME NEW b, Fed(b)
      PROVE  /\ Offline' = Offline
             /\ \A n \in DOMAIN returned :
                   /\ At(n) \in 1 .. Len(input) /\ At(n) \in Packets
                   /\ returned[n].event \in EventTypes(Nat)
                   /\ OriginIn(Offline', input', At(n)) = OriginIn(Offline, input, At(n))
  <2>1. Offline' = Offline /\ Packets \subseteq 1 .. Len(input)
    BY <1>3, FedInput
  <2>2. input \in Seq(InputTypes(options.mode)) /\ input' = Append(input, b)
    BY <1>3 DEF Fed, TypeInv
  <2>3. Offline \in BOOLEAN
    BY DEF Offline
  <2>4. \A i \in 1 .. Len(input) : OriginIn(Offline, input', i) = OriginIn(Offline, input, i)
    <3>1. PICK offline \in BOOLEAN : offline = Offline
      BY <2>3
    <3>2. PICK n \in Nat : n = Len(input)
      BY <1>3, FedInput
    <3>3. Agree(input', input, n)
      BY <1>3, <3>2, FedInput DEF Agree
    <3>4. \A i \in 1 .. n : OriginIn(offline, input', i) = OriginIn(offline, input, i)
      BY <3>3, OriginsStay
    <3> QED
      BY <3>1, <3>2, <3>4
  <2>5. \A n \in DOMAIN returned : returned[n] \in OutcomeTypes
    BY DEF TypeInv
  <2>6. \A n \in DOMAIN returned : returned[n].event \in EventTypes(Nat)
    BY <2>5 DEF OutcomeTypes
  <2> QED
    BY <2>1, <2>4, <2>6 DEF HistoryInv
<1>4. ASSUME NEW b, Fed(b), Offline, ~reader.failed, reader' \in ReaderTypes, ~reader'.failed,
             \/ AfterSection(reader, b, reader') \/ AfterInterface(reader, b, reader')
             \/ AfterOther(reader, b, reader') \/ AfterCut(reader, b, reader')
             \/ AfterPacket(reader, b, reader')
      PROVE  /\ InterfacesOK(reader', input')
             /\ \A n \in DOMAIN returned : SourceFits(reader', input', returned[n].event)
  <2>1. /\ reader \in ReaderTypes /\ input \in Seq(BlockTypes) /\ b \in BlockTypes
        /\ input' = Append(input, b) /\ Packets = PacketsIn(input)
    BY <1>4, OfflinePackets DEF TypeInv, Fed, InputTypes, Offline
  <2>2. InterfacesOK(reader, input)
    BY <1>4 DEF SourceInv
  <2>3. /\ InterfacesOK(reader', input')
        /\ \A e \in EventTypes(Nat) :
              e.content \in PacketsIn(input) /\ SourceFits(reader, input, e)
                 => SourceFits(reader', input', e)
    BY <1>4, <2>1, <2>2, SourcesKept DEF Extended
  <2>4. \A n \in DOMAIN returned : /\ returned[n].event \in EventTypes(Nat)
                                    /\ returned[n].event.content \in PacketsIn(input)
    BY <1>3, <1>4, <2>1 DEF At
  <2>5. \A n \in DOMAIN returned : SourceFits(reader, input, returned[n].event)
    BY <1>4 DEF SourceInv
  <2> QED
    BY <2>3, <2>4, <2>5
<1>5. ASSUME NEW b, QuietStep(b) PROVE SourceInv'
  <2>1. Fed(b) /\ Offline /\ Offline' = Offline /\ returned' = returned
        /\ ~reader.failed /\ reader' \in ReaderTypes
    BY <1>3, <1>5 DEF QuietStep, Fed, TypeInv
  <2>2. ~reader'.failed =>
           /\ InterfacesOK(reader', input')
           /\ \A n \in DOMAIN returned : SourceFits(reader', input', returned[n].event)
    BY <1>4, <1>5, <2>1 DEF QuietStep
  <2>3. \A n \in DOMAIN returned :
           OriginIn(Offline', input', At(n)) = OriginIn(Offline, input, At(n))
    BY <1>3, <2>1
  <2>4. \A n \in DOMAIN returned : At(n)' = At(n)
    BY <2>1 DEF At
  <2>5. \A m, n \in DOMAIN returned :
           returned[m].event.source_id = returned[n].event.source_id
              <=> OriginIn(Offline', input', At(m)) = OriginIn(Offline', input', At(n))
    BY <2>3 DEF SourceInv
  <2>6. \A n \in DOMAIN returned :
           OriginIn(Offline, input, At(n))' = OriginIn(Offline', input', At(n))
    BY <2>4
  <2>7. \A m, n \in (DOMAIN returned)' :
           returned'[m].event.source_id = returned'[n].event.source_id
              <=> OriginIn(Offline, input, At(m))' = OriginIn(Offline, input, At(n))'
    <3>1. SUFFICES ASSUME NEW m \in DOMAIN returned, NEW n \in DOMAIN returned
                   PROVE  returned[m].event.source_id = returned[n].event.source_id
                             <=> OriginIn(Offline, input, At(m))' = OriginIn(Offline, input, At(n))'
      BY <2>1
    <3> QED
      BY <2>5, <2>6
  <2>8. ~Offline' => \A n \in (DOMAIN returned)' : returned'[n].event.source_id = 0
    BY <2>1
  <2>9. Offline' /\ ~reader'.failed =>
           /\ InterfacesOK(reader', input')
           /\ \A n \in (DOMAIN returned)' : SourceFits(reader', input', returned'[n].event)
    BY <2>1, <2>2
  <2> QED
    BY <2>7, <2>8, <2>9 DEF SourceInv
<1>6. ASSUME NEW b, NEW e, EventStep(b, e) PROVE SourceInv'
  <2>1. /\ Fed(b) /\ IsPacket(b) /\ Offline' = Offline /\ ~reader.failed
        /\ e \in EventTypes(Nat) /\ e.content = Len(input) + 1 /\ ConsumeEvent(e)
    BY <1>3, <1>6 DEF EventStep, Fed, TypeInv
  <2>2. PICK what \in Whats, latency \in Seq(Nat), file \in Nat :
           Consumed(e, what, latency, file)
    BY <2>1, ConsumeEffect
  <2>3. /\ Len(returned) \in Nat /\ DOMAIN returned = 1 .. Len(returned)
        /\ (DOMAIN returned)' = 1 .. Len(returned) + 1
        /\ \A n \in 1 .. Len(returned) : returned'[n] = returned[n]
        /\ returned'[Len(returned) + 1].event = e
    BY <2>1, <2>2, EventReturned DEF Consumed
  <2> DEFINE last == Len(returned) + 1
             origin(n) == OriginIn(Offline', input', returned'[n].event.content)
  <2>4. \A n \in (DOMAIN returned)' : n \in DOMAIN returned \/ n = last
    BY <2>3
  <2>5. \A n \in DOMAIN returned :
           /\ returned'[n] = returned[n]
           /\ origin(n) = OriginIn(Offline, input, At(n))
    BY <1>3, <2>1, <2>3 DEF At
  <2>6. origin(last) = OriginIn(Offline', input', Len(input) + 1)
    BY <2>1, <2>3
  <2>7. ASSUME NEW m \in DOMAIN returned
        PROVE  returned[m].event.source_id = e.source_id <=> origin(m) = origin(last)
    <3>1. CASE Offline
      <4>1. /\ reader \in ReaderTypes /\ input \in Seq(BlockTypes) /\ b \in BlockTypes
            /\ input' = Append(input, b) /\ Packets = PacketsIn(input)
        BY <2>1, <3>1, OfflinePackets DEF TypeInv, Fed, InputTypes, Offline
      <4>2. /\ InterfacesOK(reader, input) /\ SourceFits(reader, input, returned[m].event)
        BY <2>1, <2>7, <3>1 DEF SourceInv
      <4>3. /\ b.kind = "packet" /\ b.interface < Len(reader.interfaces)
            /\ e.source_id = reader.interfaces[b.interface + 1].source_id
        BY <1>6, <3>1 DEF EventStep, AfterPacket, EventOf
      <4>4. /\ returned[m].event \in EventTypes(Nat)
            /\ returned[m].event.content \in PacketsIn(input)
        BY <1>3, <2>1, <2>7, <4>1 DEF At
      <4>5. returned[m].event.source_id = reader.interfaces[b.interface + 1].source_id
               <=> OriginIn(TRUE, input', returned[m].event.content)
                      = OriginIn(TRUE, input', Len(input) + 1)
        <5>1. PICK x \in EventTypes(Nat) : x = returned[m].event
          BY <4>4
        <5>2. Extended(input', input, b) /\ x.content \in PacketsIn(input)
              /\ SourceFits(reader, input, x) /\ InterfacesOK(reader, input)
              /\ reader \in ReaderTypes /\ input \in Seq(BlockTypes) /\ b \in BlockTypes
          BY <4>1, <4>2, <4>4, <5>1 DEF Extended
        <5>3. x.source_id = reader.interfaces[b.interface + 1].source_id
                 <=> OriginIn(TRUE, input', x.content) = OriginIn(TRUE, input', Len(input) + 1)
          BY <4>3, <5>2, SourceIsOrigin, Zenon
        <5> QED
          BY <5>1, <5>3
      <4>6. Offline' = TRUE
        BY <2>1, <3>1 DEF Offline
      <4>7. origin(m) = OriginIn(TRUE, input', returned[m].event.content)
            /\ origin(last) = OriginIn(TRUE, input', Len(input) + 1)
        BY <2>5, <2>6, <2>7, <4>6
      <4> HIDE DEF origin
      <4> QED
        BY <4>3, <4>5, <4>7
    <3>2. CASE ~Offline
      <4>1. e.source_id = 0 /\ returned[m].event.source_id = 0
        BY <1>6, <2>7, <3>2 DEF EventStep, SourceInv
      <4>2. ~Offline'
        BY <2>1, <3>2
      <4> QED
        BY <4>1, <4>2 DEF OriginIn
    <3> QED
      BY <3>1, <3>2
  <2>8. ASSUME NEW m \in (DOMAIN returned)', NEW n \in (DOMAIN returned)'
        PROVE  returned'[m].event.source_id = returned'[n].event.source_id
                  <=> origin(m) = origin(n)
    <3>1. CASE m \in DOMAIN returned /\ n \in DOMAIN returned
      <4>1. /\ returned[m].event.source_id = returned[n].event.source_id
                  <=> OriginIn(Offline, input, At(m)) = OriginIn(Offline, input, At(n))
        BY <3>1 DEF SourceInv
      <4> HIDE DEF origin
      <4> QED
        BY <2>5, <3>1, <4>1
    <3>2. CASE m \in DOMAIN returned /\ n = last
      BY <2>3, <2>5, <2>7, <3>2
    <3>3. CASE m = last /\ n \in DOMAIN returned
      BY <2>3, <2>5, <2>7, <3>3
    <3>4. CASE m = last /\ n = last
      BY <3>4
    <3> QED
      BY <2>4, <2>8, <3>1, <3>2, <3>3, <3>4
  <2>9. ~Offline => \A n \in (DOMAIN returned)' : returned'[n].event.source_id = 0
    BY <1>6, <2>3, <2>4, <2>5 DEF EventStep, SourceInv
  <2>10. ASSUME Offline, ~reader'.failed
         PROVE  /\ InterfacesOK(reader', input')
                /\ \A n \in (DOMAIN returned)' : SourceFits(reader', input', returned'[n].event)
    <3>1. AfterPacket(reader, b, reader') /\ reader' \in ReaderTypes /\ EventOf(reader, b, e)
      BY <1>6, <2>10 DEF EventStep
    <3>2. /\ InterfacesOK(reader', input')
          /\ \A n \in DOMAIN returned : SourceFits(reader', input', returned[n].event)
      BY <1>4, <2>1, <2>10, <3>1
    <3>3. SourceFits(reader', input', e)
      <4>1. /\ reader'.interfaces = reader.interfaces
            /\ reader'.next_source_id = reader.next_source_id
            /\ b.interface < Len(reader.interfaces)
            /\ e.source_id = reader.interfaces[b.interface + 1].source_id
        BY <3>1 DEF AfterPacket, SameInterfaces, EventOf
      <4>2. /\ input \in Seq(BlockTypes) /\ b \in BlockTypes /\ input' = Append(input, b)
            /\ b.kind = "packet"
        BY <2>1, <2>10, OfflinePackets DEF Fed, InputTypes, Offline, IsPacket
      <4>3. Current(input', Len(input) + 1) /\ input'[Len(input) + 1] = b
        <5>1. Extended(input', input, b)
          BY <4>2 DEF Extended
        <5> QED
          BY <4>2, <5>1, CurrentAfter, Zenon
      <4>4. b.interface \in Nat
        BY <4>2, KindOfBlock DEF PacketTypes
      <4>5. b.interface + 1 \in 1 .. Len(reader.interfaces)
        <5>1. Len(reader.interfaces) \in Nat
          BY DEF TypeInv, ReaderTypes
        <5> QED
          BY <4>1, <4>4, <5>1
      <4>6. e.source_id < reader.next_source_id
        BY <2>1, <2>10, <4>1, <4>5 DEF SourceInv, InterfacesOK
      <4> QED
        BY <2>1, <4>1, <4>3, <4>6 DEF SourceFits
    <3> QED
      BY <2>3, <2>4, <2>5, <3>2, <3>3
  <2>11. \A n \in (DOMAIN returned)' : OriginIn(Offline, input, At(n))' = origin(n)
    BY DEF At
  <2> HIDE DEF origin
  <2> QED
    BY <2>1, <2>8, <2>9, <2>10, <2>11 DEF SourceInv
<1> QED
  BY <1>1, <1>2, <1>5, <1>6, Steps

-----------------------------------------------------------------------------
(* Requests *)

\* The packets that were not cut.
WholeIn(s) == {j \in PacketsIn(s) : ~s[j].cut}

\* The table holds the requests of the section that is being read that are open.
RequestsOK(r, s) ==
    /\ \A i \in OpenIn(TRUE, s, WholeIn(s)) :
          Current(s, i) => /\ PacketKey(r, s[i]) \in DOMAIN r.requested
                           /\ r.requested[PacketKey(r, s[i])] = s[i].wire_len
    /\ \A key \in DOMAIN r.requested :
          \E i \in OpenIn(TRUE, s, WholeIn(s)) : Current(s, i) /\ PacketKey(r, s[i]) = key

\* The reader's key names a URB of the current section.
LEMMA KeyIsUrb ==
    ASSUME NEW r \in ReaderTypes, NEW s \in Seq(BlockTypes), NEW b \in BlockTypes,
           b.kind = "packet", NEW t, Extended(t, s, b),
           InterfacesOK(r, s), b.interface < Len(r.interfaces), NEW i \in PacketsIn(s)
    PROVE  /\ SameIn(TRUE, t, i, Len(s) + 1)
                 <=> Current(s, i) /\ PacketKey(r, s[i]) = PacketKey(r, b)
           /\ SameIn(TRUE, t, i, Len(s) + 1) <=> SameIn(TRUE, t, Len(s) + 1, i)
<1>0. /\ Len(s) \in Nat /\ t[Len(s) + 1] = b /\ Len(t) = Len(s) + 1
      /\ i \in 1 .. Len(s) /\ t[i] = s[i] /\ s[i].kind = "packet"
  BY DEF PacketsIn, Extended
<1>1. Current(t, i) <=> Current(s, i)
  <2>1. \A k \in 1 .. Len(s) : Current(t, k) <=> Current(s, k) /\ b.kind # "section"
    BY CurrentAfter
  <2> QED
    BY <1>0, <2>1
<1>2. s[i].interface \in Nat /\ b.interface \in Nat /\ Len(r.interfaces) \in Nat
  <2>1. s[i].interface \in Nat
    BY <1>0, KindOfBlock DEF PacketTypes
  <2>2. b.interface \in Nat
    BY KindOfBlock DEF PacketTypes
  <2>3. Len(r.interfaces) \in Nat
    BY DEF ReaderTypes
  <2> QED
    BY <2>1, <2>2, <2>3
<1>3. OriginIn(TRUE, t, i) = OriginIn(TRUE, t, Len(s) + 1)
         <=> Current(t, i) /\ s[i].interface = b.interface
  BY <1>0 DEF OriginIn, Current
<1>4. Current(s, i) =>
         (r.interfaces[s[i].interface + 1].source_id = r.interfaces[b.interface + 1].source_id
             <=> s[i].interface = b.interface)
  <2>1. SUFFICES ASSUME Current(s, i),
                        r.interfaces[s[i].interface + 1].source_id
                           = r.interfaces[b.interface + 1].source_id
                 PROVE  s[i].interface = b.interface
    OBVIOUS
  <2>2. s[i].interface < Len(r.interfaces)
    BY <2>1 DEF InterfacesOK
  <2>3. s[i].interface + 1 \in 1 .. Len(r.interfaces) /\ b.interface + 1 \in 1 .. Len(r.interfaces)
    BY <1>2, <2>2
  <2>4. s[i].interface + 1 = b.interface + 1
    BY <2>1, <2>3 DEF InterfacesOK
  <2> QED
    BY <1>2, <2>4
<1>5. PacketKey(r, s[i]) = PacketKey(r, b)
         <=> /\ r.interfaces[s[i].interface + 1].source_id
                   = r.interfaces[b.interface + 1].source_id
             /\ s[i].urb_id = b.urb_id
  BY DEF PacketKey, RequestKey
<1>6. SameIn(TRUE, t, i, Len(s) + 1)
         <=> s[i].urb_id = b.urb_id /\ OriginIn(TRUE, t, i) = OriginIn(TRUE, t, Len(s) + 1)
  BY <1>0 DEF SameIn
<1>7. SameIn(TRUE, t, i, Len(s) + 1) <=> SameIn(TRUE, t, Len(s) + 1, i)
  BY DEF SameIn
<1> QED
  BY <1>1, <1>3, <1>4, <1>5, <1>6, <1>7

\* What a whole packet does to the open requests: its URB's was its partner.
Replaced(r, s, b, t) ==
    /\ WholeIn(t) = WholeIn(s) \cup {Len(s) + 1}
    /\ OpenIn(TRUE, s, WholeIn(s)) \subseteq PacketsIn(s)
    /\ \A i : i \in OpenIn(TRUE, t, WholeIn(t))
          <=> \/ /\ i \in OpenIn(TRUE, s, WholeIn(s))
                 /\ ~(Current(s, i) /\ PacketKey(r, s[i]) = PacketKey(r, b))
              \/ i = Len(s) + 1 /\ b.event_type = "S"
    /\ \A i : i \in PartnerIn(TRUE, t, Len(s) + 1, WholeIn(t))
          <=> /\ i \in OpenIn(TRUE, s, WholeIn(s))
              /\ Current(s, i) /\ PacketKey(r, s[i]) = PacketKey(r, b)

\* A whole packet takes the place of the open request of its URB.
LEMMA OpenAfterPacket ==
    ASSUME NEW r \in ReaderTypes, NEW s \in Seq(BlockTypes), NEW b \in BlockTypes,
           b.kind = "packet", ~b.cut, NEW t, Extended(t, s, b),
           InterfacesOK(r, s), b.interface < Len(r.interfaces)
    PROVE  Replaced(r, s, b, t)
<1>0. PICK n \in Nat : n = Len(s)
  OBVIOUS
<1>1. /\ t[n + 1] = b /\ \A i \in 1 .. n : t[i] = s[i]
      /\ PacketsIn(s) \subseteq 1 .. n
  BY <1>0 DEF PacketsIn, Extended
<1>2. PacketsIn(t) = PacketsIn(s) \cup {n + 1}
  <2>1. Len(t) = n + 1
    BY <1>0 DEF Extended
  <2> QED
    BY <1>0, <1>1, <2>1 DEF PacketsIn
<1>3. WholeIn(t) = WholeIn(s) \cup {n + 1}
  BY <1>1, <1>2 DEF WholeIn
<1>4. WholeIn(s) \in SUBSET (1 .. n) /\ WholeIn(s) \subseteq PacketsIn(s)
  BY <1>1 DEF WholeIn
<1> DEFINE open == OpenIn(TRUE, s, WholeIn(s))
<1>5. open \subseteq PacketsIn(s)
  BY <1>4 DEF OpenIn
<1>6. OpenIn(TRUE, t, WholeIn(s)) = open
  <2>1. Agree(t, s, n)
    BY <1>1 DEF Agree
  <2>2. PICK off \in BOOLEAN : off = TRUE
    OBVIOUS
  <2>3. PICK whole \in SUBSET (1 .. n) : whole = WholeIn(s)
    BY <1>4
  <2>4. OpenIn(off, t, whole) = OpenIn(off, s, whole)
    BY <2>1, OpenStays
  <2> QED
    BY <2>2, <2>3, <2>4, Zenon
<1>7. /\ OpenIn(TRUE, t, WholeIn(s) \cup {n + 1}) = OpenAfter(TRUE, t, WholeIn(s), n + 1)
      /\ \A j : j \in PartnerIn(TRUE, t, n + 1, WholeIn(s) \cup {n + 1})
            <=> j \in OpenIn(TRUE, t, WholeIn(s)) /\ SameIn(TRUE, t, n + 1, j)
  <2>1. PICK off \in BOOLEAN : off = TRUE
    OBVIOUS
  <2>2. PICK whole \in SUBSET (1 .. n) : whole = WholeIn(s)
    BY <1>4
  <2>3. OpenIn(off, t, whole \cup {n + 1}) = OpenAfter(off, t, whole, n + 1)
    BY LatestInput
  <2>4. \A j : j \in PartnerIn(off, t, n + 1, whole \cup {n + 1})
            <=> j \in OpenIn(off, t, whole) /\ SameIn(off, t, n + 1, j)
    BY LatestInput
  <2> QED
    BY <2>1, <2>2, <2>3, <2>4, Zenon
<1> HIDE DEF open
<1>8. \A i \in open :
         /\ SameIn(TRUE, t, i, n + 1)
               <=> Current(s, i) /\ PacketKey(r, s[i]) = PacketKey(r, b)
         /\ SameIn(TRUE, t, i, n + 1) <=> SameIn(TRUE, t, n + 1, i)
  <2>1. SUFFICES ASSUME NEW i \in open
                 PROVE  /\ SameIn(TRUE, t, i, n + 1)
                              <=> Current(s, i) /\ PacketKey(r, s[i]) = PacketKey(r, b)
                        /\ SameIn(TRUE, t, i, n + 1) <=> SameIn(TRUE, t, n + 1, i)
    OBVIOUS
  <2>2. i \in PacketsIn(s)
    BY <1>5
  <2>3. /\ SameIn(TRUE, t, i, Len(s) + 1)
              <=> Current(s, i) /\ PacketKey(r, s[i]) = PacketKey(r, b)
        /\ SameIn(TRUE, t, i, Len(s) + 1) <=> SameIn(TRUE, t, Len(s) + 1, i)
    BY <2>2, KeyIsUrb
  <2> QED
    BY <1>0, <2>3
<1>9. \A i : i \in OpenIn(TRUE, t, WholeIn(t))
         <=> \/ i \in open /\ ~(Current(s, i) /\ PacketKey(r, s[i]) = PacketKey(r, b))
             \/ i = n + 1 /\ b.event_type = "S"
  BY <1>1, <1>3, <1>6, <1>7, <1>8 DEF OpenAfter
<1>10. \A i : i \in PartnerIn(TRUE, t, n + 1, WholeIn(t))
          <=> i \in open /\ Current(s, i) /\ PacketKey(r, s[i]) = PacketKey(r, b)
  BY <1>1, <1>3, <1>6, <1>7, <1>8
<1> QED
  BY <1>0, <1>3, <1>5, <1>9, <1>10 DEF open, Replaced

\* A block that is no section and no whole packet changes nothing about the requests.
LEMMA RequestsStay ==
    ASSUME NEW r \in ReaderTypes, NEW new \in ReaderTypes, NEW s \in Seq(BlockTypes),
           NEW b \in BlockTypes, NEW t, Extended(t, s, b),
           InterfacesOK(r, s), RequestsOK(r, s), b.kind # "section", b.kind = "packet" => b.cut,
           new.requested = r.requested,
           \A p \in 1 .. Len(r.interfaces) : new.interfaces[p] = r.interfaces[p]
    PROVE  RequestsOK(new, t)
<1>0. PICK n \in Nat : n = Len(s)
  OBVIOUS
<1>1. /\ Len(t) = n + 1 /\ t[n + 1] = b /\ \A i \in 1 .. n : t[i] = s[i]
      /\ PacketsIn(s) \subseteq 1 .. n
  BY <1>0 DEF PacketsIn, Extended
<1>2. WholeIn(t) = WholeIn(s)
  BY <1>0, <1>1 DEF WholeIn, PacketsIn
<1>3. WholeIn(s) \in SUBSET (1 .. n) /\ WholeIn(s) \subseteq PacketsIn(s)
  BY <1>1 DEF WholeIn
<1> DEFINE open == OpenIn(TRUE, s, WholeIn(s))
<1>4. open \subseteq PacketsIn(s)
  BY <1>3 DEF OpenIn
<1>5. OpenIn(TRUE, t, WholeIn(s)) = open
  <2>1. Agree(t, s, n)
    BY <1>1 DEF Agree
  <2>2. PICK off \in BOOLEAN : off = TRUE
    OBVIOUS
  <2>3. PICK whole \in SUBSET (1 .. n) : whole = WholeIn(s)
    BY <1>3
  <2>4. OpenIn(off, t, whole) = OpenIn(off, s, whole)
    BY <2>1, OpenStays
  <2> QED
    BY <2>2, <2>3, <2>4, Zenon
<1>6. \A i \in 1 .. n : Current(t, i) <=> Current(s, i)
  <2>1. \A i \in 1 .. Len(s) : Current(t, i) <=> Current(s, i) /\ b.kind # "section"
    BY CurrentAfter
  <2> QED
    BY <1>0, <2>1
<1>7. ASSUME NEW i \in open, Current(s, i)
      PROVE  PacketKey(new, s[i]) = PacketKey(r, s[i])
  <2>1. i \in PacketsIn(s)
    BY <1>4
  <2>2. s[i].interface < Len(r.interfaces)
    BY <1>7, <2>1 DEF InterfacesOK
  <2>3. s[i].interface \in Nat
    BY <2>1, KindOfBlock DEF PacketsIn, PacketTypes
  <2>4. Len(r.interfaces) \in Nat
    BY DEF ReaderTypes
  <2>5. s[i].interface + 1 \in 1 .. Len(r.interfaces)
    BY <2>2, <2>3, <2>4
  <2> QED
    BY <2>5 DEF PacketKey
<1>8. \A i \in open : i \in 1 .. n /\ t[i] = s[i]
  BY <1>1, <1>4
<1>9. /\ \A i \in open : Current(s, i) => /\ PacketKey(r, s[i]) \in DOMAIN r.requested
                                           /\ r.requested[PacketKey(r, s[i])] = s[i].wire_len
      /\ \A key \in DOMAIN r.requested : \E i \in open : Current(s, i) /\ PacketKey(r, s[i]) = key
  BY DEF RequestsOK
<1>10. OpenIn(TRUE, t, WholeIn(t)) = open
  BY <1>2, <1>5
<1> HIDE DEF open
<1>11. \A i \in open : Current(t, i) => /\ PacketKey(new, t[i]) \in DOMAIN new.requested
                                         /\ new.requested[PacketKey(new, t[i])] = t[i].wire_len
  BY <1>6, <1>7, <1>8, <1>9
<1>12. \A key \in DOMAIN new.requested : \E i \in open : Current(t, i) /\ PacketKey(new, t[i]) = key
  BY <1>6, <1>7, <1>8, <1>9
<1> QED
  BY <1>10, <1>11, <1>12 DEF RequestsOK

\* The table's answer to a packet is its partner's length.
Answered(r, s, b, t) ==
    /\ PacketKey(r, b) \in DOMAIN r.requested
          <=> PartnerIn(TRUE, t, Len(s) + 1, WholeIn(t)) # {}
    /\ \A i \in PartnerIn(TRUE, t, Len(s) + 1, WholeIn(t)) :
          r.requested[PacketKey(r, b)] = t[i].wire_len

\* A whole packet replaces or removes the request of its URB.
LEMMA RequestsAfterPacket ==
    ASSUME NEW r \in ReaderTypes, NEW new \in ReaderTypes, NEW s \in Seq(BlockTypes),
           NEW b \in BlockTypes, NEW t, Extended(t, s, b),
           InterfacesOK(r, s), RequestsOK(r, s), AfterPacket(r, b, new)
    PROVE  RequestsOK(new, t) /\ Answered(r, s, b, t)
<1>0. PICK n \in Nat : n = Len(s)
  OBVIOUS
<1>1. b.kind = "packet" /\ ~b.cut /\ b.interface < Len(r.interfaces)
      /\ new.interfaces = r.interfaces
  BY DEF AfterPacket, SameInterfaces
<1>2. PICK key : key = PacketKey(r, b)
  OBVIOUS
<1>3. PICK open : open = OpenIn(TRUE, s, WholeIn(s))
  OBVIOUS
<1>4. /\ open \subseteq PacketsIn(s)
      /\ \A i : i \in OpenIn(TRUE, t, WholeIn(t))
            <=> \/ i \in open /\ ~(Current(s, i) /\ PacketKey(r, s[i]) = key)
                \/ i = n + 1 /\ b.event_type = "S"
      /\ \A i : i \in PartnerIn(TRUE, t, n + 1, WholeIn(t))
            <=> i \in open /\ Current(s, i) /\ PacketKey(r, s[i]) = key
  <2>1. Replaced(r, s, b, t)
    BY <1>1, OpenAfterPacket
  <2> QED
    BY <1>0, <1>2, <1>3, <2>1 DEF Replaced
<1>5. /\ \A i \in 1 .. n : Current(t, i) <=> Current(s, i)
      /\ Current(t, n + 1) /\ t[n + 1] = b /\ \A i \in 1 .. n : t[i] = s[i]
      /\ PacketsIn(s) \subseteq 1 .. n
  <2>1. /\ \A i \in 1 .. Len(s) : Current(t, i) <=> Current(s, i) /\ b.kind # "section"
        /\ Current(t, Len(s) + 1) /\ t[Len(s) + 1] = b
        /\ \A i \in 1 .. Len(s) : t[i] = s[i]
        /\ PacketsIn(s) \subseteq 1 .. Len(s)
    BY CurrentAfter
  <2> QED
    BY <1>0, <1>1, <2>1
<1>6. \A p : PacketKey(new, p) = PacketKey(r, p)
  BY <1>1 DEF PacketKey
<1>7. /\ \A i \in open : Current(s, i) => /\ PacketKey(r, s[i]) \in DOMAIN r.requested
                                           /\ r.requested[PacketKey(r, s[i])] = s[i].wire_len
      /\ \A k \in DOMAIN r.requested : \E i \in open : Current(s, i) /\ PacketKey(r, s[i]) = k
  BY <1>3 DEF RequestsOK
<1>8. \A i \in open : i \in 1 .. n /\ t[i] = s[i] /\ (Current(t, i) <=> Current(s, i))
  BY <1>4, <1>5
<1>9. /\ DOMAIN new.requested = IF b.event_type = "S" THEN {key} \cup DOMAIN r.requested
                                ELSE DOMAIN r.requested \ {key}
      /\ b.event_type = "S" => new.requested[key] = b.wire_len
      /\ \A k \in DOMAIN r.requested : k # key => new.requested[k] = r.requested[k]
  <2>1. CASE b.event_type = "S"
    <3>1. new.requested = Inserted(r.requested, key, b.wire_len)
      BY <1>2, <2>1 DEF AfterPacket
    <3> QED
      BY <2>1, <3>1 DEF Inserted
  <2>2. CASE b.event_type # "S"
    <3>1. new.requested = Removed(r.requested, key)
      BY <1>2, <2>2 DEF AfterPacket
    <3> QED
      BY <2>2, <3>1 DEF Removed
  <2> QED
    BY <2>1, <2>2
<1>10. ASSUME NEW i \in OpenIn(TRUE, t, WholeIn(t)), Current(t, i)
       PROVE  /\ PacketKey(new, t[i]) \in DOMAIN new.requested
              /\ new.requested[PacketKey(new, t[i])] = t[i].wire_len
  <2>1. CASE i \in open /\ ~(Current(s, i) /\ PacketKey(r, s[i]) = key)
    <3>1. Current(s, i) /\ t[i] = s[i] /\ PacketKey(r, s[i]) # key
      BY <1>8, <1>10, <2>1
    <3>2. /\ PacketKey(r, s[i]) \in DOMAIN r.requested
          /\ r.requested[PacketKey(r, s[i])] = s[i].wire_len
      BY <1>7, <2>1, <3>1
    <3> QED
      BY <1>6, <1>9, <3>1, <3>2
  <2>2. CASE i = n + 1 /\ b.event_type = "S"
    <3>1. PacketKey(new, t[i]) = key /\ t[i] = b
      BY <1>2, <1>5, <1>6, <2>2
    <3> QED
      BY <1>9, <2>2, <3>1
  <2> QED
    BY <1>4, <1>10, <2>1, <2>2
<1>11. ASSUME NEW k \in DOMAIN new.requested
       PROVE  \E i \in OpenIn(TRUE, t, WholeIn(t)) : Current(t, i) /\ PacketKey(new, t[i]) = k
  <2>1. CASE k # key
    <3>1. k \in DOMAIN r.requested
      BY <1>9, <1>11, <2>1
    <3>2. PICK i \in open : Current(s, i) /\ PacketKey(r, s[i]) = k
      BY <1>7, <3>1
    <3>3. i \in OpenIn(TRUE, t, WholeIn(t))
      BY <1>4, <2>1, <3>2
    <3>4. Current(t, i) /\ PacketKey(new, t[i]) = k
      BY <1>6, <1>8, <3>2
    <3> QED
      BY <3>3, <3>4
  <2>2. CASE k = key
    <3>1. b.event_type = "S"
      BY <1>9, <1>11, <2>2
    <3>2. n + 1 \in OpenIn(TRUE, t, WholeIn(t))
      BY <1>4, <3>1
    <3>3. Current(t, n + 1) /\ PacketKey(new, t[n + 1]) = k
      BY <1>2, <1>5, <1>6, <2>2
    <3> QED
      BY <3>2, <3>3
  <2> QED
    BY <2>1, <2>2
<1>12. RequestsOK(new, t)
  BY <1>10, <1>11 DEF RequestsOK
<1>13. key \in DOMAIN r.requested <=> PartnerIn(TRUE, t, n + 1, WholeIn(t)) # {}
  <2>1. ASSUME key \in DOMAIN r.requested PROVE PartnerIn(TRUE, t, n + 1, WholeIn(t)) # {}
    <3>1. PICK i \in open : Current(s, i) /\ PacketKey(r, s[i]) = key
      BY <1>7, <2>1
    <3>2. i \in PartnerIn(TRUE, t, n + 1, WholeIn(t))
      BY <1>4, <3>1
    <3> QED
      BY <3>2
  <2>2. ASSUME NEW i \in PartnerIn(TRUE, t, n + 1, WholeIn(t)) PROVE key \in DOMAIN r.requested
    BY <1>4, <1>7, <2>2
  <2> QED
    BY <2>1, <2>2
<1>14. \A i \in PartnerIn(TRUE, t, n + 1, WholeIn(t)) : r.requested[key] = t[i].wire_len
  BY <1>4, <1>7, <1>8
<1> QED
  BY <1>0, <1>2, <1>12, <1>13, <1>14 DEF Answered

\* What the reader does with one block keeps the table exact.
LEMMA RequestsKept ==
    ASSUME NEW r \in ReaderTypes, NEW new \in ReaderTypes, NEW s \in Seq(BlockTypes),
           NEW b \in BlockTypes, NEW t, Extended(t, s, b),
           InterfacesOK(r, s), RequestsOK(r, s),
           \/ AfterSection(r, b, new) \/ AfterInterface(r, b, new) \/ AfterOther(r, b, new)
           \/ AfterCut(r, b, new) \/ AfterPacket(r, b, new)
    PROVE  RequestsOK(new, t)
<1>1. CASE AfterSection(r, b, new)
  <2>1. b.kind = "section" /\ DOMAIN new.requested = {}
    BY <1>1 DEF AfterSection
  <2>2. /\ \A i \in 1 .. Len(s) : Current(t, i) <=> Current(s, i) /\ b.kind # "section"
        /\ PacketsIn(s) \subseteq 1 .. Len(s)
        /\ PacketsIn(t) = IF b.kind = "packet" THEN PacketsIn(s) \cup {Len(s) + 1}
                          ELSE PacketsIn(s)
    BY CurrentAfter
  <2>3. OpenIn(TRUE, t, WholeIn(t)) \subseteq PacketsIn(t)
    BY DEF OpenIn, WholeIn
  <2>4. \A i \in OpenIn(TRUE, t, WholeIn(t)) : ~Current(t, i)
    BY <2>1, <2>2, <2>3
  <2> QED
    BY <2>1, <2>4 DEF RequestsOK
<1>2. CASE AfterInterface(r, b, new)
  <2>1. PICK i \in InterfaceTypes : new.interfaces = Append(r.interfaces, i)
    BY <1>2 DEF AfterInterface
  <2>2. r.interfaces \in Seq(InterfaceTypes)
    BY DEF ReaderTypes
  <2>3. \A p \in 1 .. Len(r.interfaces) : new.interfaces[p] = r.interfaces[p]
    BY <2>1, <2>2
  <2>4. b.kind = "interface" /\ new.requested = r.requested
    BY <1>2 DEF AfterInterface
  <2> QED
    BY <2>3, <2>4, RequestsStay
<1>3. CASE AfterOther(r, b, new) \/ AfterCut(r, b, new)
  <2>1. /\ new.interfaces = r.interfaces /\ new.requested = r.requested
        /\ b.kind # "section" /\ (b.kind = "packet" => b.cut)
    BY <1>3 DEF AfterOther, AfterCut, SameInterfaces
  <2>2. \A p \in 1 .. Len(r.interfaces) : new.interfaces[p] = r.interfaces[p]
    BY <2>1
  <2> QED
    BY <2>1, <2>2, RequestsStay
<1>4. CASE AfterPacket(r, b, new)
  BY <1>4, RequestsAfterPacket
<1> QED
  BY <1>1, <1>2, <1>3, <1>4

\* The requested length of an outcome is that of its partner.
PairFits(s, e) ==
    e.event_type # "S" =>
       /\ e.requested_known <=> PartnerIn(TRUE, s, e.content, WholeIn(s)) # {}
       /\ \A j \in PartnerIn(TRUE, s, e.content, WholeIn(s)) : e.requested_len = s[j].wire_len

\* A later block does not change who an event's partner was.
LEMMA PairStays ==
    ASSUME NEW s \in Seq(BlockTypes), NEW b \in BlockTypes, NEW t, Extended(t, s, b),
           NEW e \in EventTypes(Nat), e.content \in PacketsIn(s), PairFits(s, e)
    PROVE  PairFits(t, e)
<1>0. PICK n \in Nat : n = Len(s)
  OBVIOUS
<1>1. /\ Len(t) = n + 1 /\ t[n + 1] = b /\ \A i \in 1 .. n : t[i] = s[i]
      /\ PacketsIn(s) \subseteq 1 .. n
  BY <1>0 DEF PacketsIn, Extended
<1>2. PICK at \in 1 .. n : at = e.content
  BY <1>1
<1>3. WholeIn(s) \subseteq PacketsIn(s)
  BY DEF WholeIn
<1>4. PICK whole \in SUBSET (1 .. n) : whole = WholeIn(s)
  BY <1>1, <1>3
<1>5. WholeIn(t) = whole \/ WholeIn(t) = whole \cup {n + 1}
  BY <1>0, <1>1, <1>4 DEF WholeIn, PacketsIn
<1>6. PICK off \in BOOLEAN : off = TRUE
  OBVIOUS
<1>7. PartnerIn(off, t, at, whole \cup {n + 1}) = PartnerIn(off, t, at, whole)
  BY EarlierPartner
<1>8. PartnerIn(off, t, at, whole) = PartnerIn(off, s, at, whole)
  <2>1. Agree(t, s, n)
    BY <1>1 DEF Agree
  <2> QED
    BY <2>1, PartnersStay
<1>9. PartnerIn(TRUE, t, e.content, WholeIn(t)) = PartnerIn(TRUE, s, e.content, WholeIn(s))
  BY <1>2, <1>4, <1>5, <1>6, <1>7, <1>8, Zenon
<1>10. PartnerIn(TRUE, s, e.content, WholeIn(s)) \subseteq 1 .. n
  BY <1>1, <1>3 DEF PartnerIn, OpenIn
<1> QED
  BY <1>1, <1>9, <1>10 DEF PairFits

\* The table of requests and what was answered from it.
RequestInv ==
    Offline => /\ ~reader.failed => RequestsOK(reader, input)
               /\ \A n \in DOMAIN returned : PairFits(input, returned[n].event)

\* The table of requests is exact at the start.
LEMMA RequestInit == Init => RequestInv
<1> SUFFICES ASSUME Init PROVE RequestInv
  OBVIOUS
<1>1. input = <<>> /\ returned = <<>> /\ reader.requested = <<>>
  BY DEF Init, ReaderNew
<1>2. OpenIn(TRUE, input, WholeIn(input)) = {}
  BY <1>1 DEF OpenIn, WholeIn, PacketsIn
<1>3. RequestsOK(reader, input)
  <2>1. DOMAIN reader.requested = {}
    BY <1>1
  <2> QED
    BY <1>2, <2>1 DEF RequestsOK
<1>4. DOMAIN returned = {}
  BY <1>1
<1> QED
  BY <1>3, <1>4 DEF RequestInv

\* Every step keeps the table of requests exact.
LEMMA RequestStep ==
    TypeInv /\ HistoryInv /\ SourceInv /\ RequestInv /\ [Next]_vars => RequestInv'
<1> SUFFICES ASSUME TypeInv, HistoryInv, SourceInv, RequestInv, [Next]_vars
             PROVE  RequestInv'
  OBVIOUS
<1>1. CASE UNCHANGED vars
  BY <1>1 DEF RequestInv, Offline, vars
<1>2. CASE Finish
  BY <1>2 DEF RequestInv, Offline, Finish
<1>3. ASSUME NEW b, Fed(b), Offline
      PROVE  /\ Offline' = Offline /\ ~reader.failed
             /\ input \in Seq(BlockTypes) /\ b \in BlockTypes /\ Extended(input', input, b)
             /\ InterfacesOK(reader, input) /\ RequestsOK(reader, input)
             /\ \A n \in DOMAIN returned : PairFits(input', returned[n].event)
  <2>1. Offline' = Offline /\ ~reader.failed
    BY <1>3, FedInput DEF Fed, TypeInv
  <2>2. input \in Seq(BlockTypes) /\ b \in BlockTypes /\ Extended(input', input, b)
        /\ Packets = PacketsIn(input)
    BY <1>3, OfflinePackets DEF Fed, InputTypes, Offline, Extended
  <2>3. InterfacesOK(reader, input) /\ RequestsOK(reader, input)
    BY <1>3, <2>1 DEF SourceInv, RequestInv
  <2>4. ASSUME NEW n \in DOMAIN returned PROVE PairFits(input', returned[n].event)
    <3>1. returned[n] \in OutcomeTypes
      BY DEF TypeInv
    <3>2. returned[n].event \in EventTypes(Nat)
      BY <3>1 DEF OutcomeTypes
    <3>3. returned[n].event.content \in PacketsIn(input)
      BY <2>2 DEF HistoryInv, At
    <3>4. PairFits(input, returned[n].event)
      BY <1>3 DEF RequestInv
    <3> QED
      BY <2>2, <3>2, <3>3, <3>4, PairStays
  <2> QED
    BY <2>1, <2>2, <2>3, <2>4
<1>4. ASSUME NEW b, QuietStep(b) PROVE RequestInv'
  <2>1. Fed(b) /\ Offline /\ reader \in ReaderTypes /\ reader' \in ReaderTypes
        /\ returned' = returned
    BY <1>4 DEF QuietStep, TypeInv
  <2>2. ~reader'.failed => RequestsOK(reader', input')
    <3>1. SUFFICES ASSUME ~reader'.failed PROVE RequestsOK(reader', input')
      OBVIOUS
    <3>2. \/ AfterSection(reader, b, reader') \/ AfterInterface(reader, b, reader')
          \/ AfterOther(reader, b, reader') \/ AfterCut(reader, b, reader')
          \/ AfterPacket(reader, b, reader')
      BY <1>4, <3>1 DEF QuietStep
    <3> QED
      BY <1>3, <2>1, <3>2, RequestsKept
  <2>3. \A n \in (DOMAIN returned)' : PairFits(input', returned'[n].event)
    BY <1>3, <2>1
  <2> QED
    BY <2>2, <2>3 DEF RequestInv
<1>5. ASSUME NEW b, NEW e, EventStep(b, e) PROVE RequestInv'
  <2>1. CASE ~Offline
    <3>1. ~Offline'
      BY <1>5, <2>1, FedInput DEF EventStep
    <3> QED
      BY <3>1 DEF RequestInv
  <2>2. CASE Offline
    <3>1. /\ Fed(b) /\ reader \in ReaderTypes /\ reader' \in ReaderTypes
          /\ AfterPacket(reader, b, reader') /\ EventOf(reader, b, e)
          /\ e \in EventTypes(Nat) /\ e.content = Len(input) + 1 /\ ConsumeEvent(e)
      BY <1>5, <2>2 DEF EventStep, TypeInv
    <3>2. RequestsOK(reader', input') /\ Answered(reader, input, b, input')
      BY <1>3, <2>2, <3>1, RequestsAfterPacket
    <3>3. PairFits(input', e)
      BY <3>1, <3>2 DEF PairFits, EventOf, Answered
    <3>4. PICK what \in Whats, latency \in Seq(Nat), file \in Nat :
             Consumed(e, what, latency, file)
      BY <3>1, ConsumeEffect
    <3>5. /\ DOMAIN returned = 1 .. Len(returned)
          /\ (DOMAIN returned)' = 1 .. Len(returned) + 1 /\ Len(returned) \in Nat
          /\ \A n \in 1 .. Len(returned) : returned'[n] = returned[n]
          /\ returned'[Len(returned) + 1].event = e
      BY <3>1, <3>4, EventReturned DEF Consumed
    <3>6. ASSUME NEW n \in (DOMAIN returned)' PROVE PairFits(input', returned'[n].event)
      <4>1. CASE n \in DOMAIN returned
        BY <1>3, <2>2, <3>1, <3>5, <4>1
      <4>2. CASE n = Len(returned) + 1
        BY <3>3, <3>5, <4>2
      <4> QED
        BY <3>5, <4>1, <4>2
    <3> QED
      BY <3>2, <3>6 DEF RequestInv
  <2> QED
    BY <2>1, <2>2
<1> QED
  BY <1>1, <1>2, <1>4, <1>5, Steps

\* Sources are told apart: two events carry the same source number if and only if
\* they come from the same interface of the same section (next_source_id of the
\* reader goes on through the sections), or from the kernel or an archive alone.
THEOREM SourcesCorrect == Spec => []SourceInv
<1>1. Init => SourceInv
  BY SourceInit
<1>2. TypeInv /\ HistoryInv /\ SourceInv /\ [Next]_vars => SourceInv'
  BY SourceStep
<1> QED
  BY <1>1, <1>2, HistoryCorrect, PTL DEF Spec

\* The requested length that the reader gives a completion is that of the last
\* submission with its id in its own section and interface, unknown if that has had
\* its outcome: no id that is used again, in another interface or section or in the
\* same one, is answered with another URB's length (next_event()'s table).
THEOREM RequestsCorrect == Spec => []RequestsAreScoped
<1>1. Init => RequestInv
  BY RequestInit
<1>2. TypeInv /\ HistoryInv /\ SourceInv /\ RequestInv /\ [Next]_vars => RequestInv'
  BY RequestStep
<1>3. TypeInv /\ RequestInv => RequestsAreScoped
  <2> SUFFICES ASSUME TypeInv, RequestInv, Offline PROVE RequestsAreScoped
    BY DEF RequestsAreScoped
  <2>1. Packets = PacketsIn(input)
    BY OfflinePackets
  <2>2. {j \in Packets : ~input[j].cut} = WholeIn(input)
    BY <2>1 DEF WholeIn
  <2>3. Offline = TRUE
    BY DEF Offline
  <2>4. \A i, inputs : Partner(i, inputs) = PartnerIn(TRUE, input, i, inputs)
    BY <2>3, InState
  <2>5. ASSUME NEW n \in DOMAIN returned, returned[n].event.event_type # "S"
        PROVE  LET e == returned[n].event
                   partner == Partner(At(n), {j \in Packets : ~input[j].cut})
               IN  /\ e.requested_known <=> partner # {}
                   /\ \A j \in partner : e.requested_len = input[j].wire_len
    <3>1. PairFits(input, returned[n].event)
      BY DEF RequestInv
    <3>2. Partner(At(n), {j \in Packets : ~input[j].cut})
             = PartnerIn(TRUE, input, returned[n].event.content, WholeIn(input))
      BY <2>2, <2>4 DEF At
    <3> QED
      BY <2>5, <3>1, <3>2 DEF PairFits
  <2> QED
    BY <2>5 DEF RequestsAreScoped
<1> QED
  BY <1>1, <1>2, <1>3, HistoryCorrect, SourcesCorrect, PTL DEF Spec

-----------------------------------------------------------------------------
(* Latencies *)

\* The outcomes of events that got past the limits and the table's size.
Judged == {"printed", "written", "full", "failed", "rejected"}

\* The latency table holds the submissions that are open among those judged.
Opened(off, s, ret, judged, subs) ==
    /\ \A m \in DOMAIN ret :
          ret[m].event.content \in OpenIn(off, s, judged) =>
             /\ Key(ret[m].event) \in DOMAIN subs
             /\ subs[Key(ret[m].event)] = ret[m].event.timestamp
    /\ \A key \in DOMAIN subs :
          \E m \in DOMAIN ret : /\ ret[m].event.content \in OpenIn(off, s, judged)
                                /\ Key(ret[m].event) = key

\* An outcome's latency is the time since its partner.
Measured(off, s, ret, judged, x) ==
    x.event.event_type # "S" =>
       /\ PartnerIn(off, s, x.event.content, judged) = {} => x.latency = <<>>
       /\ \A m \in DOMAIN ret :
             ret[m].event.content \in PartnerIn(off, s, x.event.content, judged) =>
                x.latency = Elapsed(x.event.timestamp, ret[m].event.timestamp)

\* One more input, and one more event that is named as its key says.
Grown(off, s, t, n, ret, new, k, e) ==
    /\ Agree(t, s, n) /\ t[n + 1].event_type = e.event_type
    /\ DOMAIN ret = 1 .. k /\ DOMAIN new = 1 .. k + 1 /\ Agree(new, ret, k)
    /\ new[k + 1].event = e /\ e.content = n + 1
    /\ \A m \in 1 .. k :
          /\ ret[m].event.content \in 1 .. n
          /\ Key(ret[m].event) = Key(e) <=> SameIn(off, t, ret[m].event.content, n + 1)

\* An event that is ignored or refused leaves the latency table exact, ...
LEMMA OpenedSkipped ==
    ASSUME NEW off \in BOOLEAN, NEW s, NEW t, NEW n \in Nat, NEW ret, NEW new, NEW k \in Nat,
           NEW e, Grown(off, s, t, n, ret, new, k, e), NEW judged \in SUBSET (1 .. n),
           NEW subs, Opened(off, s, ret, judged, subs)
    PROVE  Opened(off, t, new, judged, subs)
<1>1. Agree(t, s, n)
  BY DEF Grown
<1>2. PICK open : open = OpenIn(off, s, judged)
  OBVIOUS
<1>3. OpenIn(off, t, judged) = open
  BY <1>1, <1>2, OpenStays
<1>4. open \subseteq 1 .. n /\ n + 1 \notin open
  <2>1. open \subseteq judged
    BY <1>2 DEF OpenIn
  <2>2. n + 1 \notin 1 .. n
    OBVIOUS
  <2> QED
    BY <2>1, <2>2
<1>5. /\ DOMAIN ret = 1 .. k /\ DOMAIN new = 1 .. k + 1
      /\ \A m \in 1 .. k : new[m] = ret[m]
      /\ new[k + 1].event.content = n + 1
  BY DEF Grown, Agree
<1>6. \A m \in DOMAIN new : new[m].event.content \in open => m \in DOMAIN ret /\ new[m] = ret[m]
  BY <1>4, <1>5
<1>7. \A m \in DOMAIN ret : m \in DOMAIN new /\ new[m] = ret[m]
  BY <1>5
<1>8. /\ \A m \in DOMAIN ret :
            ret[m].event.content \in open =>
               /\ Key(ret[m].event) \in DOMAIN subs
               /\ subs[Key(ret[m].event)] = ret[m].event.timestamp
      /\ \A key \in DOMAIN subs :
            \E m \in DOMAIN ret : ret[m].event.content \in open /\ Key(ret[m].event) = key
  BY <1>2 DEF Opened
<1>9. /\ \A m \in DOMAIN new :
            new[m].event.content \in open =>
               /\ Key(new[m].event) \in DOMAIN subs
               /\ subs[Key(new[m].event)] = new[m].event.timestamp
  BY <1>6, <1>8
<1>10. \A key \in DOMAIN subs :
            \E m \in DOMAIN new : new[m].event.content \in open /\ Key(new[m].event) = key
  BY <1>7, <1>8
<1> QED
  BY <1>3, <1>9, <1>10 DEF Opened

\* HashMap::insert or HashMap::remove, as consume_event() calls them.
Tracked(subs, e) ==
    IF e.event_type = "S" THEN Inserted(subs, Key(e), e.timestamp) ELSE Removed(subs, Key(e))

\* ... and so does one that is inserted or looked up.
LEMMA OpenedJudged ==
    ASSUME NEW off \in BOOLEAN, NEW s, NEW t, NEW n \in Nat, NEW ret, NEW new, NEW k \in Nat,
           NEW e, Grown(off, s, t, n, ret, new, k, e), NEW judged \in SUBSET (1 .. n),
           NEW subs, Opened(off, s, ret, judged, subs)
    PROVE  Opened(off, t, new, judged \cup {n + 1}, Tracked(subs, e))
<1>1. Agree(t, s, n)
  BY DEF Grown
<1>2. PICK open : open = OpenIn(off, s, judged)
  OBVIOUS
<1>3. OpenIn(off, t, judged) = open
  BY <1>1, <1>2, OpenStays
<1>4. open \subseteq 1 .. n /\ n + 1 \notin open
  <2>1. open \subseteq judged
    BY <1>2 DEF OpenIn
  <2>2. n + 1 \notin 1 .. n
    OBVIOUS
  <2> QED
    BY <2>1, <2>2
<1>5. /\ DOMAIN ret = 1 .. k /\ DOMAIN new = 1 .. k + 1
      /\ \A m \in 1 .. k : new[m] = ret[m] /\ ret[m].event.content \in 1 .. n
      /\ new[k + 1].event = e /\ e.content = n + 1
      /\ t[n + 1].event_type = e.event_type
      /\ \A m \in 1 .. k : Key(ret[m].event) = Key(e)
                              <=> SameIn(off, t, ret[m].event.content, n + 1)
  BY DEF Grown, Agree
<1>6. PICK after : after = OpenIn(off, t, judged \cup {n + 1})
  OBVIOUS
<1>7. after = OpenAfter(off, t, judged, n + 1)
  BY <1>6, LatestInput
<1>8. /\ \A i \in after : \/ i \in open /\ ~SameIn(off, t, i, n + 1)
                          \/ i = n + 1 /\ e.event_type = "S"
      /\ \A i \in open : ~SameIn(off, t, i, n + 1) => i \in after
      /\ e.event_type = "S" => n + 1 \in after
  BY <1>3, <1>5, <1>7 DEF OpenAfter
<1>9. /\ \A m \in DOMAIN ret :
            ret[m].event.content \in open =>
               /\ Key(ret[m].event) \in DOMAIN subs
               /\ subs[Key(ret[m].event)] = ret[m].event.timestamp
      /\ \A key \in DOMAIN subs :
            \E m \in DOMAIN ret : ret[m].event.content \in open /\ Key(ret[m].event) = key
  BY <1>2 DEF Opened
<1>10. PICK key : key = Key(e)
  OBVIOUS
<1>11. PICK next : next = Tracked(subs, e)
  OBVIOUS
<1>12. /\ DOMAIN next = IF e.event_type = "S" THEN {key} \cup DOMAIN subs ELSE DOMAIN subs \ {key}
       /\ e.event_type = "S" => next[key] = e.timestamp
       /\ \A x \in DOMAIN subs : x # key => next[x] = subs[x]
  <2>1. CASE e.event_type = "S"
    <3>1. next = Inserted(subs, key, e.timestamp)
      BY <1>10, <1>11, <2>1 DEF Tracked
    <3> QED
      BY <2>1, <3>1 DEF Inserted
  <2>2. CASE e.event_type # "S"
    <3>1. next = Removed(subs, key)
      BY <1>10, <1>11, <2>2 DEF Tracked
    <3> QED
      BY <2>2, <3>1 DEF Removed
  <2> QED
    BY <2>1, <2>2
<1>13. ASSUME NEW m \in DOMAIN new, new[m].event.content \in after
       PROVE  Key(new[m].event) \in DOMAIN next /\ next[Key(new[m].event)] = new[m].event.timestamp
  <2>1. CASE m = k + 1
    <3>1. new[m].event = e /\ n + 1 \in after
      BY <1>5, <1>13, <2>1
    <3>2. e.event_type = "S"
      BY <1>4, <1>8, <3>1
    <3> QED
      BY <1>10, <1>12, <3>1, <3>2
  <2>2. CASE m # k + 1
    <3>1. m \in 1 .. k /\ new[m] = ret[m] /\ ret[m].event.content \in 1 .. n
      BY <1>5, <1>13, <2>2
    <3>2. ret[m].event.content # n + 1
      BY <3>1
    <3>3. ret[m].event.content \in open /\ ~SameIn(off, t, ret[m].event.content, n + 1)
      BY <1>8, <1>13, <3>1, <3>2
    <3>4. Key(ret[m].event) # key
      BY <1>5, <1>10, <3>1, <3>3
    <3>5. Key(ret[m].event) \in DOMAIN subs /\ subs[Key(ret[m].event)] = ret[m].event.timestamp
      BY <1>5, <1>9, <3>1, <3>3
    <3> QED
      BY <1>12, <3>1, <3>4, <3>5
  <2> QED
    BY <2>1, <2>2
<1>14. ASSUME NEW x \in DOMAIN next
       PROVE  \E m \in DOMAIN new : new[m].event.content \in after /\ Key(new[m].event) = x
  <2>1. CASE x = key
    <3>1. e.event_type = "S"
      BY <1>12, <1>14, <2>1
    <3>2. k + 1 \in DOMAIN new /\ new[k + 1].event.content \in after /\ Key(new[k + 1].event) = x
      BY <1>5, <1>8, <1>10, <2>1, <3>1
    <3> QED
      BY <3>2
  <2>2. CASE x # key
    <3>1. x \in DOMAIN subs
      BY <1>12, <1>14, <2>2
    <3>2. PICK m \in DOMAIN ret : ret[m].event.content \in open /\ Key(ret[m].event) = x
      BY <1>9, <3>1
    <3>3. m \in 1 .. k /\ m \in DOMAIN new /\ new[m] = ret[m]
      BY <1>5, <3>2
    <3>4. ~SameIn(off, t, ret[m].event.content, n + 1)
      BY <1>5, <1>10, <2>2, <3>2, <3>3
    <3>5. ret[m].event.content \in after
      BY <1>8, <3>2, <3>4
    <3> QED
      BY <3>2, <3>3, <3>5
  <2> QED
    BY <2>1, <2>2
<1>15. Opened(off, t, new, judged \cup {n + 1}, next)
  BY <1>6, <1>13, <1>14 DEF Opened
<1> QED
  BY <1>11, <1>15

\* The latency of an earlier event stays right, ...
LEMMA MeasuredStays ==
    ASSUME NEW off \in BOOLEAN, NEW s, NEW t, NEW n \in Nat, NEW ret, NEW new, NEW k \in Nat,
           NEW e, Grown(off, s, t, n, ret, new, k, e), NEW judged \in SUBSET (1 .. n),
           NEW x, x.event.content \in 1 .. n, Measured(off, s, ret, judged, x)
    PROVE  /\ Measured(off, t, new, judged, x)
           /\ Measured(off, t, new, judged \cup {n + 1}, x)
<1>1. Agree(t, s, n)
  BY DEF Grown
<1>2. PICK at \in 1 .. n : at = x.event.content
  OBVIOUS
<1>3. PICK partner : partner = PartnerIn(off, s, at, judged)
  OBVIOUS
<1>4. PartnerIn(off, t, at, judged) = partner
  BY <1>1, <1>3, PartnersStay
<1>5. PartnerIn(off, t, at, judged \cup {n + 1}) = partner
  BY <1>4, EarlierPartner
<1>6. n + 1 \notin partner
  BY <1>3 DEF PartnerIn, OpenIn
<1>7. /\ DOMAIN ret = 1 .. k /\ DOMAIN new = 1 .. k + 1
      /\ \A m \in 1 .. k : new[m] = ret[m]
      /\ new[k + 1].event.content = n + 1
  BY DEF Grown, Agree
<1>8. \A m \in DOMAIN new : new[m].event.content \in partner => m \in DOMAIN ret /\ new[m] = ret[m]
  BY <1>6, <1>7
<1>9. x.event.event_type # "S" =>
         /\ partner = {} => x.latency = <<>>
         /\ \A m \in DOMAIN ret :
               ret[m].event.content \in partner =>
                  x.latency = Elapsed(x.event.timestamp, ret[m].event.timestamp)
  BY <1>2, <1>3 DEF Measured
<1>10. x.event.event_type # "S" =>
          /\ partner = {} => x.latency = <<>>
          /\ \A m \in DOMAIN new :
                new[m].event.content \in partner =>
                   x.latency = Elapsed(x.event.timestamp, new[m].event.timestamp)
  BY <1>8, <1>9
<1> QED
  BY <1>2, <1>4, <1>5, <1>10 DEF Measured

\* ... and the one that consume_event() finds for the next is right.
LEMMA MeasuredNext ==
    ASSUME NEW off \in BOOLEAN, NEW s, NEW t, NEW n \in Nat, NEW ret, NEW new, NEW k \in Nat,
           NEW e, Grown(off, s, t, n, ret, new, k, e), NEW judged \in SUBSET (1 .. n),
           NEW subs, Opened(off, s, ret, judged, subs),
           e.event_type # "S" =>
              new[k + 1].latency = IF Key(e) \in DOMAIN subs
                                   THEN Elapsed(e.timestamp, subs[Key(e)]) ELSE <<>>
    PROVE  Measured(off, t, new, judged \cup {n + 1}, new[k + 1])
<1>1. Agree(t, s, n)
  BY DEF Grown
<1>2. PICK open : open = OpenIn(off, s, judged)
  OBVIOUS
<1>3. OpenIn(off, t, judged) = open
  BY <1>1, <1>2, OpenStays
<1>4. open \subseteq 1 .. n /\ n + 1 \notin open
  <2>1. open \subseteq judged
    BY <1>2 DEF OpenIn
  <2>2. n + 1 \notin 1 .. n
    OBVIOUS
  <2> QED
    BY <2>1, <2>2
<1>5. /\ DOMAIN ret = 1 .. k /\ DOMAIN new = 1 .. k + 1
      /\ \A m \in 1 .. k : new[m] = ret[m] /\ ret[m].event.content \in 1 .. n
      /\ new[k + 1].event = e /\ e.content = n + 1
      /\ \A m \in 1 .. k : Key(ret[m].event) = Key(e)
                              <=> SameIn(off, t, ret[m].event.content, n + 1)
  BY DEF Grown, Agree
<1>6. PICK partner : partner = PartnerIn(off, t, n + 1, judged \cup {n + 1})
  OBVIOUS
<1>7. \A j : j \in partner <=> j \in open /\ SameIn(off, t, n + 1, j)
  BY <1>3, <1>6, LatestInput
<1>8. \A j : SameIn(off, t, n + 1, j) <=> SameIn(off, t, j, n + 1)
  BY DEF SameIn
<1>9. /\ \A m \in DOMAIN ret :
            ret[m].event.content \in open =>
               /\ Key(ret[m].event) \in DOMAIN subs
               /\ subs[Key(ret[m].event)] = ret[m].event.timestamp
      /\ \A key \in DOMAIN subs :
            \E m \in DOMAIN ret : ret[m].event.content \in open /\ Key(ret[m].event) = key
  BY <1>2 DEF Opened
<1>10. SUFFICES ASSUME e.event_type # "S"
                PROVE  /\ partner = {} => new[k + 1].latency = <<>>
                       /\ \A m \in DOMAIN new :
                             new[m].event.content \in partner =>
                                new[k + 1].latency
                                   = Elapsed(e.timestamp, new[m].event.timestamp)
  BY <1>5, <1>6 DEF Measured
<1>11. new[k + 1].latency = IF Key(e) \in DOMAIN subs
                            THEN Elapsed(e.timestamp, subs[Key(e)]) ELSE <<>>
  BY <1>10
<1>12. ASSUME Key(e) \in DOMAIN subs PROVE partner # {}
  <2>1. PICK m \in DOMAIN ret : ret[m].event.content \in open /\ Key(ret[m].event) = Key(e)
    BY <1>9, <1>12
  <2>2. SameIn(off, t, ret[m].event.content, n + 1)
    BY <1>5, <2>1
  <2>3. ret[m].event.content \in partner
    BY <1>7, <1>8, <2>1, <2>2
  <2> QED
    BY <2>3
<1>13. ASSUME NEW m \in DOMAIN new, new[m].event.content \in partner
       PROVE  new[k + 1].latency = Elapsed(e.timestamp, new[m].event.timestamp)
  <2>1. new[m].event.content \in open /\ SameIn(off, t, new[m].event.content, n + 1)
    BY <1>7, <1>8, <1>13
  <2>2. m \in 1 .. k /\ new[m] = ret[m]
    BY <1>4, <1>5, <1>13, <2>1
  <2>3. Key(ret[m].event) = Key(e)
    BY <1>5, <2>1, <2>2
  <2>4. Key(e) \in DOMAIN subs /\ subs[Key(e)] = new[m].event.timestamp
    BY <1>5, <1>9, <2>1, <2>2, <2>3
  <2> QED
    BY <1>11, <2>4
<1> QED
  BY <1>11, <1>12, <1>13

\* Keys name URBs: two events have the same key if and only if they name the same
\* URB of the same source.
KeysOK(off, s, ret) ==
    \A m, n \in DOMAIN ret :
       Key(ret[m].event) = Key(ret[n].event)
          <=> SameIn(off, s, ret[m].event.content, ret[n].event.content)

KeysInv == KeysOK(Offline, input, returned)

\* By the numbering of sources, the keys of events do name URBs.
LEMMA KeysAreUrbs == TypeInv /\ HistoryInv /\ SourceInv => KeysInv
<1> SUFFICES ASSUME TypeInv, HistoryInv, SourceInv, NEW m \in DOMAIN returned,
                    NEW n \in DOMAIN returned
             PROVE  Key(returned[m].event) = Key(returned[n].event)
                       <=> SameIn(Offline, input, returned[m].event.content,
                                  returned[n].event.content)
  BY DEF KeysInv, KeysOK
<1>1. returned[m].event.urb_id = input[At(m)].urb_id
      /\ returned[n].event.urb_id = input[At(n)].urb_id
  BY DEF HistoryInv
<1>2. returned[m].event.source_id = returned[n].event.source_id
         <=> OriginIn(Offline, input, At(m)) = OriginIn(Offline, input, At(n))
  BY DEF SourceInv
<1>3. Key(returned[m].event) = Key(returned[n].event)
         <=> /\ returned[m].event.source_id = returned[n].event.source_id
             /\ returned[m].event.urb_id = returned[n].event.urb_id
  BY DEF Key, RequestKey
<1> QED
  BY <1>1, <1>2, <1>3 DEF SameIn, At

\* The latency table and the latencies found in it.
LatencyInv ==
    options.needs_latency =>
       /\ Opened(Offline, input, returned, Became(Judged), submissions)
       /\ \A n \in DOMAIN returned :
             returned[n].what \in Judged =>
                Measured(Offline, input, returned, Became(Judged), returned[n])

\* The latency table is exact at the start.
LEMMA LatencyInit == Init => LatencyInv
<1> SUFFICES ASSUME Init PROVE LatencyInv
  OBVIOUS
<1>1. returned = <<>> /\ submissions = <<>>
  BY DEF Init
<1>2. DOMAIN returned = {} /\ DOMAIN submissions = {}
  BY <1>1
<1> QED
  BY <1>2 DEF LatencyInv, Opened

\* A block that returns no event.
LEMMA LatencyQuiet ==
    ASSUME TypeInv, HistoryInv, LatencyInv, NEW b, QuietStep(b)
    PROVE  LatencyInv'
<1>1. Fed(b) /\ returned' = returned /\ submissions' = submissions
  BY DEF QuietStep, table
<1>2. options' = options /\ Offline' = Offline
  BY <1>1, FedInput DEF Fed
<1> SUFFICES ASSUME options.needs_latency PROVE LatencyInv'
  BY <1>2 DEF LatencyInv
<1>3. PICK off \in BOOLEAN : off = Offline
  BY DEF Offline
<1>4. PICK n \in Nat : n = Len(input)
  BY <1>1, FedInput
<1>5. Agree(input', input, n)
  BY <1>1, <1>4, FedInput DEF Agree
<1>6. \A m \in DOMAIN returned : returned[m].event.content \in 1 .. n
  BY <1>1, <1>4, FedInput DEF HistoryInv, At
<1>7. PICK judged \in SUBSET (1 .. n) : judged = Became(Judged)
  BY <1>6 DEF Became, At
<1>8. Became(Judged)' = judged
  BY <1>1, <1>7 DEF Became, At
<1>9. OpenIn(off, input', judged) = OpenIn(off, input, judged)
  BY <1>5, OpenStays
<1>10. Opened(off, input', returned, judged, submissions)
  <2>1. Opened(off, input, returned, judged, submissions)
    BY <1>3, <1>7 DEF LatencyInv
  <2> QED
    BY <1>9, <2>1 DEF Opened
<1>11. ASSUME NEW m \in DOMAIN returned, returned[m].what \in Judged
       PROVE  Measured(off, input', returned, judged, returned[m])
  <2>1. Measured(off, input, returned, judged, returned[m])
    BY <1>3, <1>7, <1>11 DEF LatencyInv
  <2>2. PICK at \in 1 .. n : at = returned[m].event.content
    BY <1>6
  <2>3. PartnerIn(off, input', at, judged) = PartnerIn(off, input, at, judged)
    BY <1>5, PartnersStay
  <2> QED
    BY <2>1, <2>2, <2>3 DEF Measured
<1>12. Offline' = off
  BY <1>2, <1>3
<1> QED
  BY <1>1, <1>2, <1>8, <1>10, <1>11, <1>12 DEF LatencyInv

\* What an input with its event adds.
LEMMA EventGrown ==
    ASSUME TypeInv, HistoryInv, SourceInv, HistoryInv', SourceInv', TypeInv',
           NEW b, NEW e, EventStep(b, e), NEW what \in Whats,
           NEW latency \in Seq(Nat), NEW file \in Nat, Consumed(e, what, latency, file)
    PROVE  Grown(Offline, input, input', Len(input), returned, returned', Len(returned), e)
<1>1. Fed(b) /\ IsPacket(b) /\ e \in EventTypes(Nat) /\ e.content = Len(input) + 1
      /\ e.event_type = b.event_type
  BY DEF EventStep
<1>2. /\ Len(input) \in Nat /\ Agree(input', input, Len(input)) /\ input'[Len(input) + 1] = b
      /\ Packets \subseteq 1 .. Len(input) /\ Offline' = Offline
  BY <1>1, FedInput DEF Agree
<1>3. /\ Len(returned) \in Nat /\ DOMAIN returned = 1 .. Len(returned)
      /\ (DOMAIN returned)' = 1 .. Len(returned) + 1
      /\ \A m \in 1 .. Len(returned) : returned'[m] = returned[m]
      /\ returned'[Len(returned) + 1].event = e
  BY <1>1, EventReturned DEF Consumed
<1>4. KeysOK(Offline', input', returned')
  <2>1. KeysInv'
    BY KeysAreUrbs, PTL
  <2> QED
    BY <2>1 DEF KeysInv
<1>5. ASSUME NEW m \in 1 .. Len(returned)
      PROVE  /\ returned[m].event.content \in 1 .. Len(input)
             /\ Key(returned[m].event) = Key(e)
                   <=> SameIn(Offline, input', returned[m].event.content, Len(input) + 1)
  <2>1. returned[m].event.content \in 1 .. Len(input)
    BY <1>2, <1>3 DEF HistoryInv, At
  <2>2. m \in DOMAIN returned' /\ Len(returned) + 1 \in DOMAIN returned'
    BY <1>3
  <2>3. Key(returned'[m].event) = Key(returned'[Len(returned) + 1].event)
           <=> SameIn(Offline', input', returned'[m].event.content,
                      returned'[Len(returned) + 1].event.content)
    BY <1>4, <2>2 DEF KeysOK
  <2> QED
    BY <1>1, <1>2, <1>3, <2>1, <2>3
<1> QED
  BY <1>1, <1>2, <1>3, <1>5 DEF Grown, Agree

\* An event that consume_event() takes keeps the latency table exact.
LEMMA LatencyEvent ==
    ASSUME TypeInv, HistoryInv, SourceInv, LatencyInv, TypeInv', HistoryInv', SourceInv',
           NEW b, NEW e, EventStep(b, e)
    PROVE  LatencyInv'
<1>1. Fed(b) /\ e \in EventTypes(Nat) /\ ConsumeEvent(e) /\ e.content = Len(input) + 1
  BY DEF EventStep
<1>2. options' = options /\ Offline' = Offline
  BY <1>1, FedInput DEF Fed
<1> SUFFICES ASSUME options.needs_latency PROVE LatencyInv'
  BY <1>2 DEF LatencyInv
<1>3. PICK what \in Whats, latency \in Seq(Nat), file \in Nat :
         Consumed(e, what, latency, file)
  BY <1>1, ConsumeEffect
<1>4. PICK off \in BOOLEAN : off = Offline
  BY DEF Offline
<1>5. PICK n \in Nat : n = Len(input)
  BY <1>1, FedInput
<1>6. /\ Len(returned) \in Nat /\ DOMAIN returned = 1 .. Len(returned)
      /\ (DOMAIN returned)' = 1 .. Len(returned) + 1
      /\ \A m \in 1 .. Len(returned) : returned'[m] = returned[m]
      /\ returned'[Len(returned) + 1].event = e
      /\ returned'[Len(returned) + 1].latency = latency
      /\ returned'[Len(returned) + 1].what = what
  BY <1>1, <1>3, EventReturned DEF Consumed
<1>7. PICK k \in Nat : k = Len(returned)
  BY <1>6
<1>8. Grown(off, input, input', n, returned, returned', k, e)
  <2>1. Grown(Offline, input, input', Len(input), returned, returned', Len(returned), e)
    BY <1>3, EventGrown
  <2> QED
    BY <1>4, <1>5, <1>7, <2>1
<1>9. \A m \in DOMAIN returned : returned[m].event.content \in 1 .. n
  BY <1>1, <1>5, FedInput DEF HistoryInv, At
<1>10. PICK judged \in SUBSET (1 .. n) : judged = Became(Judged)
  BY <1>9 DEF Became, At
<1>11. Became(Judged)' = IF what \in Judged THEN judged \cup {n + 1} ELSE judged
  <2>1. PICK whats : whats = Judged
    OBVIOUS
  <2>2. Outcome(e, latency, what, file)
    BY <1>3 DEF Consumed
  <2>3. Became(whats)' = IF what \in whats THEN Became(whats) \cup {Len(input) + 1}
                         ELSE Became(whats)
    BY <2>2, BecameMore
  <2> QED
    BY <1>5, <1>10, <2>1, <2>3
<1>12. Opened(off, input, returned, judged, submissions)
  BY <1>4, <1>10 DEF LatencyInv
<1>13. ASSUME NEW m \in 1 .. k, returned'[m].what \in Judged
       PROVE  /\ Measured(off, input', returned', judged, returned'[m])
              /\ Measured(off, input', returned', judged \cup {n + 1}, returned'[m])
  <2>1. m \in DOMAIN returned /\ returned'[m] = returned[m]
    BY <1>6, <1>7
  <2>2. Measured(off, input, returned, judged, returned[m])
    BY <1>4, <1>10, <1>13, <2>1 DEF LatencyInv
  <2>3. returned[m].event.content \in 1 .. n
    BY <1>9, <2>1
  <2>4. /\ Measured(off, input', returned', judged, returned[m])
        /\ Measured(off, input', returned', judged \cup {n + 1}, returned[m])
    BY <1>8, <2>2, <2>3, MeasuredStays
  <2> QED
    BY <2>1, <2>4
<1>14. \A m \in DOMAIN returned' : m \in 1 .. k \/ m = k + 1
  BY <1>6, <1>7
<1>15. Offline' = off
  BY <1>2, <1>4
<1>16. CASE what \in Judged
  <2>1. submissions' = Submissions(e) /\ latency = Latency(e)
    BY <1>3, <1>16 DEF Consumed, Judged
  <2>2. submissions' = Tracked(submissions, e)
    BY <2>1 DEF Submissions, Tracked
  <2>3. Opened(off, input', returned', judged \cup {n + 1}, submissions')
    BY <1>8, <1>12, <2>2, OpenedJudged
  <2>4. e.event_type # "S" =>
           returned'[k + 1].latency = IF Key(e) \in DOMAIN submissions
                                      THEN Elapsed(e.timestamp, submissions[Key(e)]) ELSE <<>>
    BY <1>6, <1>7, <2>1 DEF Latency
  <2>5. Measured(off, input', returned', judged \cup {n + 1}, returned'[k + 1])
    BY <1>8, <1>12, <2>4, MeasuredNext
  <2>6. \A m \in DOMAIN returned' :
           returned'[m].what \in Judged =>
              Measured(off, input', returned', judged \cup {n + 1}, returned'[m])
    BY <1>13, <1>14, <2>5
  <2>7. Became(Judged)' = judged \cup {n + 1}
    BY <1>11, <1>16
  <2> QED
    BY <1>15, <2>3, <2>6, <2>7 DEF LatencyInv
<1>17. CASE what \notin Judged
  <2>1. submissions' = submissions
    BY <1>3, <1>17 DEF Consumed, Judged, Whats
  <2>2. Opened(off, input', returned', judged, submissions')
    BY <1>8, <1>12, <2>1, OpenedSkipped
  <2>3. returned'[k + 1].what \notin Judged
    BY <1>6, <1>7, <1>17
  <2>4. \A m \in DOMAIN returned' :
           returned'[m].what \in Judged =>
              Measured(off, input', returned', judged, returned'[m])
    BY <1>13, <1>14, <2>3
  <2>5. Became(Judged)' = judged
    BY <1>11, <1>17
  <2> QED
    BY <1>15, <2>2, <2>4, <2>5 DEF LatencyInv
<1> QED
  BY <1>16, <1>17

\* Some inputs have all been returned.
AllReturned(ret, inputs) == \A i \in inputs : \E m \in DOMAIN ret : ret[m].event.content = i

\* Every open submission has one entry of the table, and every entry one submission.
LEMMA OneEntryEach ==
    ASSUME NEW off \in BOOLEAN, NEW s, NEW ret, NEW judged \in SUBSET Nat,
           IsFiniteSet(judged), NEW subs, Opened(off, s, ret, judged, subs), KeysOK(off, s, ret),
           AllReturned(ret, judged)
    PROVE  Cardinality(DOMAIN subs) = Cardinality(OpenIn(off, s, judged))
<1>1. PICK open : open = OpenIn(off, s, judged)
  OBVIOUS
<1>2. open \subseteq judged
  BY <1>1 DEF OpenIn
<1> DEFINE index(i) == CHOOSE m \in DOMAIN ret : ret[m].event.content = i
           key == [i \in open |-> Key(ret[index(i)].event)]
<1>3. \A i \in open : index(i) \in DOMAIN ret /\ ret[index(i)].event.content = i
  <2>1. SUFFICES ASSUME NEW i \in open
                 PROVE  index(i) \in DOMAIN ret /\ ret[index(i)].event.content = i
    OBVIOUS
  <2>2. \E m \in DOMAIN ret : ret[m].event.content = i
    BY <1>2 DEF AllReturned
  <2> QED
    BY <2>2
<1> HIDE DEF index
<1>4. /\ \A m \in DOMAIN ret :
            ret[m].event.content \in open => Key(ret[m].event) \in DOMAIN subs
      /\ \A x \in DOMAIN subs :
            \E m \in DOMAIN ret : ret[m].event.content \in open /\ Key(ret[m].event) = x
  BY <1>1 DEF Opened
<1>5. key \in [open -> DOMAIN subs]
  BY <1>3, <1>4
<1>6. ASSUME NEW i \in open, NEW j \in open, key[i] = key[j] PROVE i = j
  <2>1. SameIn(off, s, i, j) /\ SameIn(off, s, j, i)
    BY <1>3, <1>6 DEF KeysOK
  <2>2. j <= i /\ i <= j
    BY <1>1, <1>2, <2>1 DEF OpenIn
  <2>3. i \in Nat /\ j \in Nat
    BY <1>2
  <2> QED
    BY <2>2, <2>3
<1>7. ASSUME NEW x \in DOMAIN subs PROVE \E i \in open : key[i] = x
  <2>1. PICK m \in DOMAIN ret : ret[m].event.content \in open /\ Key(ret[m].event) = x
    BY <1>4
  <2>2. PICK i \in open : i = ret[m].event.content
    BY <2>1
  <2>3. index(i) \in DOMAIN ret /\ ret[index(i)].event.content = i
    BY <1>3
  <2>4. SameIn(off, s, i, i)
    BY DEF SameIn
  <2>5. Key(ret[index(i)].event) = Key(ret[m].event)
    BY <2>2, <2>3, <2>4 DEF KeysOK
  <2> QED
    BY <2>1, <2>5
<1> HIDE DEF key
<1>8. key \in Bijection(open, DOMAIN subs)
  <2>1. key \in Injection(open, DOMAIN subs)
    BY <1>5, <1>6 DEF Injection, IsInjective
  <2>2. key \in Surjection(open, DOMAIN subs)
    BY <1>5, <1>7 DEF Surjection
  <2> QED
    BY <2>1, <2>2 DEF Bijection
<1>9. ExistsBijection(open, DOMAIN subs)
  BY <1>8 DEF ExistsBijection
<1>10. IsFiniteSet(open)
  BY <1>2, FS_Subset
<1> QED
  BY <1>1, <1>9, <1>10, FS_Bijection

\* No two events come from the same input.
LEMMA EventFound ==
    ASSUME TypeInv, HistoryInv, NEW m \in DOMAIN returned
    PROVE  EventAt(At(m)) = returned[m].event
<1>1. DOMAIN returned \subseteq Nat /\ DOMAIN input \subseteq Nat
  BY DEF TypeInv
<1>2. ASSUME NEW j \in DOMAIN returned, At(j) = At(m) PROVE j = m
  <2>1. At(j) \in Nat /\ ~(At(j) < At(j))
    BY <1>1 DEF HistoryInv, Packets
  <2>2. ~(j < m) /\ ~(m < j)
    BY <1>2, <2>1 DEF HistoryInv
  <2> QED
    BY <1>1, <2>2
<1>3. (CHOOSE j \in DOMAIN returned : At(j) = At(m)) = m
  BY <1>2
<1> QED
  BY <1>3 DEF EventAt

\* The time since the partner, if there is one and the clock was not set back.
LEMMA LatencyIsSince ==
    ASSUME TypeInv, HistoryInv, LatencyInv, options.needs_latency,
           NEW n \in DOMAIN returned, returned[n].what \in Judged,
           returned[n].event.event_type # "S"
    PROVE  Range(returned[n].latency)
              = {t \in {returned[n].event.timestamp - EventAt(j).timestamp :
                           j \in Partner(At(n), Became(Judged))} : t >= 0}
<1>1. PICK judged : judged = Became(Judged)
  OBVIOUS
<1>2. PICK partner : partner = PartnerIn(Offline, input, At(n), judged)
  OBVIOUS
<1>3. Partner(At(n), judged) = partner
  BY <1>2, InState
<1>4. /\ partner = {} => returned[n].latency = <<>>
      /\ \A m \in DOMAIN returned :
            At(m) \in partner =>
               returned[n].latency
                  = Elapsed(returned[n].event.timestamp, returned[m].event.timestamp)
  BY <1>1, <1>2 DEF LatencyInv, Measured, At
<1>5. CASE partner = {}
  <2>1. DOMAIN returned[n].latency = {}
    BY <1>4, <1>5
  <2>2. Range(returned[n].latency) = {}
    BY <2>1 DEF Range
  <2> QED
    BY <1>1, <1>3, <1>5, <2>2
<1>6. CASE partner # {}
  <2>1. PICK j : j \in partner
    BY <1>6
  <2>2. \A i \in partner : /\ i \in judged /\ SameIn(Offline, input, At(n), i)
                           /\ \A x \in partner : SameIn(Offline, input, i, x) => x <= i
    BY <1>2 DEF PartnerIn, OpenIn
  <2>3. \A i \in judged : \E m \in DOMAIN returned : At(m) = i
    BY <1>1 DEF Became
  <2>4. \A i \in judged : i \in Nat
    <3>1. DOMAIN input \subseteq Nat
      BY DEF TypeInv
    <3> QED
      BY <2>3, <3>1 DEF HistoryInv, Packets
  <2>5. partner = {j}
    <3>1. SUFFICES ASSUME NEW i \in partner PROVE i = j
      BY <2>1
    <3>2. SameIn(Offline, input, i, j) /\ SameIn(Offline, input, j, i)
      BY <2>1, <2>2 DEF SameIn
    <3>3. j <= i /\ i <= j
      BY <2>1, <2>2, <3>2
    <3>4. i \in Nat /\ j \in Nat
      BY <2>1, <2>2, <2>4
    <3> QED
      BY <3>3, <3>4
  <2>6. PICK m \in DOMAIN returned : At(m) = j
    BY <2>1, <2>2, <2>3
  <2>7. EventAt(j) = returned[m].event
    BY <2>6, EventFound
  <2>8. PICK now \in Nat, start \in Nat : /\ now = returned[n].event.timestamp
                                          /\ start = returned[m].event.timestamp
    <3>1. returned[n] \in OutcomeTypes /\ returned[m] \in OutcomeTypes
      BY DEF TypeInv
    <3>2. returned[n].event \in EventTypes(Nat) /\ returned[m].event \in EventTypes(Nat)
      BY <3>1 DEF OutcomeTypes
    <3>3. returned[n].event.timestamp \in Nat /\ returned[m].event.timestamp \in Nat
      BY <3>2 DEF EventTypes
    <3> QED
      BY <3>3
  <2>9. returned[n].latency = Elapsed(now, start)
    BY <1>4, <2>5, <2>6, <2>8
  <2>10. {returned[n].event.timestamp - EventAt(i).timestamp : i \in partner} = {now - start}
    BY <2>5, <2>7, <2>8
  <2>11. Range(Elapsed(now, start)) = {t \in {now - start} : t >= 0}
    <3>1. CASE now >= start
      <4>1. Elapsed(now, start) = <<now - start>>
        BY <3>1 DEF Elapsed
      <4>2. Range(<<now - start>>) = {now - start}
        BY DEF Range
      <4>3. now - start >= 0
        BY <3>1
      <4> QED
        BY <4>1, <4>2, <4>3
    <3>2. CASE ~(now >= start)
      <4>1. Elapsed(now, start) = <<>>
        BY <3>2 DEF Elapsed
      <4>2. Range(<<>>) = {}
        BY DEF Range
      <4>3. ~(now - start >= 0)
        BY <3>2
      <4> QED
        BY <4>1, <4>2, <4>3
    <3> QED
      BY <3>1, <3>2
  <2> QED
    BY <1>1, <1>3, <2>9, <2>10, <2>11
<1> QED
  BY <1>5, <1>6

\* The latency that consume_event() gives an outcome is the time since the open
\* submission of the same URB in the same source, none if the clock was set back or
\* there is no such submission; the table has an entry for each submission that is
\* open and no other, so its limit is met by open submissions alone.
THEOREM LatenciesCorrect == Spec => []LatencyIsScoped
<1>1. Init => LatencyInv
  BY LatencyInit
<1>2. /\ TypeInv /\ HistoryInv /\ SourceInv /\ LatencyInv /\ [Next]_vars
      /\ TypeInv' /\ HistoryInv' /\ SourceInv'
      => LatencyInv'
  <2> SUFFICES ASSUME TypeInv, HistoryInv, SourceInv, LatencyInv, [Next]_vars,
                      TypeInv', HistoryInv', SourceInv'
               PROVE  LatencyInv'
    OBVIOUS
  <2>1. CASE UNCHANGED vars
    BY <2>1 DEF LatencyInv, Offline, Became, At, vars, table
  <2>2. CASE Finish
    BY <2>2 DEF LatencyInv, Offline, Became, At, Finish, table
  <2> QED
    BY <2>1, <2>2, Steps, LatencyQuiet, LatencyEvent
<1>3. TypeInv /\ HistoryInv /\ SourceInv /\ LatencyInv => LatencyIsScoped
  <2> SUFFICES ASSUME TypeInv, HistoryInv, SourceInv, LatencyInv, options.needs_latency
               PROVE  LatencyIsScoped
    BY DEF LatencyIsScoped
  <2>1. PICK judged : judged = Became(Judged)
    OBVIOUS
  <2>2. PICK n \in Nat : n = Len(input) /\ DOMAIN input = 1 .. n
    BY DEF TypeInv
  <2>3. \A m \in DOMAIN returned : At(m) \in 1 .. n
    BY <2>2 DEF HistoryInv, Packets
  <2>4. judged \in SUBSET (1 .. n) /\ \A i \in judged : \E m \in DOMAIN returned : At(m) = i
    BY <2>1, <2>3 DEF Became
  <2>5. Cardinality(DOMAIN submissions) = Cardinality(Open(judged))
    <3>1. PICK off \in BOOLEAN : off = Offline
      BY DEF Offline
    <3>2. Opened(off, input, returned, judged, submissions)
      BY <2>1, <3>1 DEF LatencyInv
    <3>3. KeysOK(off, input, returned)
      BY <3>1, KeysAreUrbs DEF KeysInv
    <3>4. AllReturned(returned, judged)
      BY <2>4 DEF At, AllReturned
    <3>5. Cardinality(DOMAIN submissions) = Cardinality(OpenIn(off, input, judged))
      <4>1. judged \in SUBSET Nat /\ IsFiniteSet(1 .. n)
        BY <2>4, FS_Interval
      <4>2. IsFiniteSet(judged)
        BY <2>4, <4>1, FS_Subset
      <4> QED
        BY <3>2, <3>3, <3>4, <4>1, <4>2, OneEntryEach
    <3> QED
      BY <3>1, <3>5, InState
  <2>6. ASSUME NEW m \in DOMAIN returned, returned[m].event.event_type # "S", At(m) \in judged
        PROVE  Range(returned[m].latency)
                  = {t \in {returned[m].event.timestamp - EventAt(j).timestamp :
                               j \in Partner(At(m), judged)} : t >= 0}
    <3>1. PICK k \in DOMAIN returned : At(k) = At(m) /\ returned[k].what \in Judged
      BY <2>1, <2>6 DEF Became
    <3>2. k = m
      <4>1. DOMAIN returned \subseteq Nat /\ At(m) \in Nat
        BY <2>3 DEF TypeInv
      <4>2. ~(k < m) /\ ~(m < k)
        BY <3>1, <4>1 DEF HistoryInv
      <4> QED
        BY <4>1, <4>2
    <3> QED
      BY <2>1, <2>6, <3>1, <3>2, LatencyIsSince
  <2> QED
    BY <2>1, <2>5, <2>6 DEF LatencyIsScoped, Judged
<1> QED
  BY <1>1, <1>2, <1>3, HistoryCorrect, SourcesCorrect, PTL DEF Spec

-----------------------------------------------------------------------------
(* Folds *)

\* A set of numbers that is not empty has a least one.
LEMMA LeastExists ==
    ASSUME NEW T \in SUBSET Nat, T # {}
    PROVE  \E n \in T : \A k \in T : n <= k
<1>1. PICK n \in T : \A k \in T : ~(<<k, n>> \in OpToRel(<, Nat))
  BY NatLessThanWellFounded, WFMin, Zenon
<1>2. ASSUME NEW k \in T PROVE n <= k
  <2>1. ~(<<k, n>> \in {p \in Nat \X Nat : p[1] < p[2]})
    BY <1>1 DEF OpToRel
  <2> QED
    BY <2>1
<1> QED
  BY <1>2

\* The library's Min and Max are what their names say.
LEMMA MinIs ==
    ASSUME NEW S \in SUBSET Int, NEW m \in S, \A x \in S : m <= x
    PROVE  Min(S) = m
<1> DEFINE P(x) == x \in S /\ \A y \in S : x <= y
<1>1. Min(S) = CHOOSE x : P(x)
  BY DEF Min
<1>2. P(m)
  OBVIOUS
<1> HIDE DEF P
<1>3. P(Min(S))
  BY <1>1, <1>2
<1>4. Min(S) \in Int /\ m \in Int /\ Min(S) <= m /\ m <= Min(S)
  BY <1>3 DEF P
<1> QED
  BY <1>4

\* The same of the greatest element.
LEMMA MaxIs ==
    ASSUME NEW S \in SUBSET Int, NEW m \in S, \A x \in S : x <= m
    PROVE  Max(S) = m
<1> DEFINE P(x) == x \in S /\ \A y \in S : x >= y
<1>1. Max(S) = CHOOSE x : P(x)
  BY DEF Max
<1>2. P(m)
  OBVIOUS
<1> HIDE DEF P
<1>3. P(Max(S))
  BY <1>1, <1>2
<1>4. Max(S) \in Int /\ m \in Int /\ Max(S) >= m /\ Max(S) <= m
  BY <1>3 DEF P
<1> QED
  BY <1>4

\* One round of a fold over w with the function F, from the values that it has
\* on the smaller sets of positions.
Round(it, F, base, w, s) == IF s = {} THEN base ELSE F[<<it[s \ {Max(s)}], w[Max(s)]>>]

\* The recursive function of a fold over the first m elements.
IteratesTo(it, S, F, base, w, m) ==
    /\ it \in [SUBSET (1 .. m) -> S]
    /\ \A s \in SUBSET (1 .. m) : it[s] = Round(it, F, base, w, s)

\* It exists for m + 1 if it exists for m.
LEMMA IterateFurther ==
    ASSUME NEW S, NEW B, NEW base \in S, NEW F \in [S \X B -> S], NEW w,
           NEW m \in Nat, w[m + 1] \in B, NEW it, IteratesTo(it, S, F, base, w, m)
    PROVE  \E jt : IteratesTo(jt, S, F, base, w, m + 1)
<1> DEFINE jt == [s \in SUBSET (1 .. (m + 1)) |->
                     IF m + 1 \in s THEN F[<<it[s \ {m + 1}], w[m + 1]>>] ELSE it[s]]
<1>1. \A s \in SUBSET (1 .. (m + 1)) :
         /\ s \ {m + 1} \in SUBSET (1 .. m)
         /\ m + 1 \notin s => s \in SUBSET (1 .. m)
  OBVIOUS
<1>2. \A s \in SUBSET (1 .. m) : it[s] \in S /\ it[s] = Round(it, F, base, w, s)
  BY DEF IteratesTo
<1>3. jt \in [SUBSET (1 .. (m + 1)) -> S]
  <2>1. ASSUME NEW s \in SUBSET (1 .. (m + 1))
        PROVE  (IF m + 1 \in s THEN F[<<it[s \ {m + 1}], w[m + 1]>>] ELSE it[s]) \in S
    <3>1. it[s \ {m + 1}] \in S /\ (m + 1 \notin s => it[s] \in S)
      BY <1>1, <1>2
    <3>2. <<it[s \ {m + 1}], w[m + 1]>> \in S \X B
      BY <3>1
    <3>3. F[<<it[s \ {m + 1}], w[m + 1]>>] \in S
      BY <3>2
    <3> QED
      BY <3>1, <3>3
  <2> QED
    BY <2>1
<1>4. ASSUME NEW s \in SUBSET (1 .. (m + 1)) PROVE jt[s] = Round(jt, F, base, w, s)
  <2>1. CASE s = {}
    <3>1. {} \in SUBSET (1 .. m) /\ m + 1 \notin {}
      OBVIOUS
    <3>2. jt[s] = it[{}]
      BY <2>1, <3>1
    <3> QED
      BY <1>2, <2>1, <3>1, <3>2 DEF Round
  <2>2. CASE m + 1 \in s
    <3>1. Max(s) = m + 1
      <4>1. s \in SUBSET Int /\ \A x \in s : x <= m + 1
        OBVIOUS
      <4> QED
        BY <2>2, <4>1, MaxIs
    <3>2. jt[s \ {m + 1}] = it[s \ {m + 1}]
      BY <1>1
    <3>3. jt[s] = F[<<it[s \ {m + 1}], w[m + 1]>>]
      BY <2>2
    <3> HIDE DEF jt
    <3> QED
      BY <2>2, <3>1, <3>2, <3>3 DEF Round
  <2>3. CASE m + 1 \notin s /\ s # {}
    <3>1. s \in SUBSET (1 .. m)
      BY <1>1, <2>3
    <3>2. s \ {Max(s)} \in SUBSET (1 .. m) /\ m + 1 \notin s \ {Max(s)}
          /\ s \ {Max(s)} \in SUBSET (1 .. (m + 1))
      BY <2>3, <3>1
    <3>3. jt[s] = it[s] /\ jt[s \ {Max(s)}] = it[s \ {Max(s)}]
      BY <2>3, <3>2
    <3> HIDE DEF jt
    <3> QED
      BY <1>2, <2>3, <3>1, <3>3 DEF Round
  <2> QED
    BY <2>1, <2>2, <2>3
<1> HIDE DEF jt
<1>5. IteratesTo(jt, S, F, base, w, m + 1)
  BY <1>3, <1>4 DEF IteratesTo
<1> QED
  BY <1>5

\* The recursive function of a fold over a sequence exists.
LEMMA IterateExists ==
    ASSUME NEW S, NEW B, NEW base \in S, NEW F \in [S \X B -> S], NEW w \in Seq(B)
    PROVE  \E it : IteratesTo(it, S, F, base, w, Len(w))
<1>1. PICK n \in Nat : n = Len(w)
  OBVIOUS
<1>2. \A k \in 1 .. n : w[k] \in B
  BY <1>1
<1> DEFINE Bad == {m \in 0 .. n : ~\E it : IteratesTo(it, S, F, base, w, m)}
<1>3. SUFFICES ASSUME ~\E it : IteratesTo(it, S, F, base, w, n) PROVE FALSE
  BY <1>1
<1>4. n \in Bad /\ Bad \in SUBSET Nat
  BY <1>3
<1>5. PICK m \in Bad : \A x \in Bad : m <= x
  BY <1>4, LeastExists
<1>6. m # 0
  <2> DEFINE none == [s \in SUBSET (1 .. 0) |-> base]
  <2>1. SUBSET (1 .. 0) = {{}}
    OBVIOUS
  <2>2. none \in [SUBSET (1 .. 0) -> S] /\ none[{}] = base
    BY <2>1
  <2> HIDE DEF none
  <2>3. IteratesTo(none, S, F, base, w, 0)
    BY <2>1, <2>2 DEF IteratesTo, Round
  <2> QED
    BY <1>5, <2>3
<1>7. m - 1 \in Nat /\ m - 1 \in 0 .. n /\ (m - 1) + 1 = m /\ m \in 1 .. n
  BY <1>5, <1>6
<1>8. m - 1 \notin Bad
  BY <1>5, <1>7
<1>9. PICK it : IteratesTo(it, S, F, base, w, m - 1)
  BY <1>7, <1>8
<1>10. w[(m - 1) + 1] \in B
  BY <1>2, <1>7
<1>11. \E jt : IteratesTo(jt, S, F, base, w, (m - 1) + 1)
  BY <1>7, <1>9, <1>10, IterateFurther
<1>12. \E jt : IteratesTo(jt, S, F, base, w, m)
  BY <1>7, <1>11
<1> QED
  BY <1>5, <1>12

\* The greatest of some positions.
LEMMA MaxOfPositions ==
    ASSUME NEW n \in Nat, NEW s \in SUBSET (1 .. n), s # {}
    PROVE  Max(s) \in s
<1>1. s \in SUBSET Nat /\ s \in SUBSET Int
  OBVIOUS
<1> DEFINE above == {n - y : y \in s}
<1>2. above \in SUBSET Nat /\ above # {}
  <2>1. \A y \in s : n - y \in Nat
    OBVIOUS
  <2>2. PICK y \in s : TRUE
    OBVIOUS
  <2>3. n - y \in above
    OBVIOUS
  <2> QED
    BY <2>1, <2>3
<1>3. PICK a \in above : \A c \in above : a <= c
  BY <1>2, LeastExists
<1>4. PICK x \in s : a = n - x
  BY <1>3
<1>5. \A y \in s : n - x <= n - y
  BY <1>3, <1>4
<1>6. \A y \in s : y <= x
  BY <1>1, <1>5
<1>7. Max(s) = x
  BY <1>1, <1>6, MaxIs
<1> QED
  BY <1>7

\* Of the first k positions k is the last, and the others are the first k - 1.
LEMMA FirstPositions ==
    ASSUME NEW n \in Nat, NEW k \in 1 .. n
    PROVE  /\ 1 .. k \in SUBSET (1 .. n) /\ 1 .. k # {}
           /\ Max(1 .. k) = k /\ (1 .. k) \ {k} = 1 .. (k - 1)
<1>1. k \in Nat /\ 1 <= k /\ k <= n /\ k \in 1 .. k
  OBVIOUS
<1>2. \A x \in 1 .. k : x \in 1 .. n
  BY <1>1
<1>3. 1 .. k \in SUBSET Int /\ \A x \in 1 .. k : x <= k
  OBVIOUS
<1>4. Max(1 .. k) = k
  BY <1>1, <1>3, MaxIs
<1>5. (1 .. k) \ {k} = 1 .. (k - 1)
  OBVIOUS
<1> QED
  BY <1>1, <1>2, <1>4, <1>5

\* g[k] is the fold over the first k elements of w, as long as it stays in S.
Folded(g, S, F, base, w, n) ==
    /\ g[0] = base
    /\ \A k \in 1 .. n : g[k - 1] \in S => g[k] = F[<<g[k - 1], w[k]>>]

\* It stays in S.
LEMMA FoldedStays ==
    ASSUME NEW S, NEW B, NEW base \in S, NEW F \in [S \X B -> S], NEW n \in Nat,
           NEW w, \A k \in 1 .. n : w[k] \in B, NEW g, Folded(g, S, F, base, w, n)
    PROVE  \A k \in 0 .. n : g[k] \in S
<1> DEFINE Bad == {k \in 0 .. n : g[k] \notin S}
<1> SUFFICES ASSUME Bad # {} PROVE FALSE
  OBVIOUS
<1>1. Bad \in SUBSET Nat
  OBVIOUS
<1>2. PICK k \in Bad : \A x \in Bad : k <= x
  BY <1>1, LeastExists
<1>3. k # 0
  BY <1>2 DEF Folded
<1>4. k \in 1 .. n /\ k - 1 \in 0 .. n /\ k - 1 \notin Bad
  BY <1>2, <1>3
<1>5. g[k - 1] \in S /\ w[k] \in B
  BY <1>4
<1>6. g[k] = F[<<g[k - 1], w[k]>>]
  BY <1>4, <1>5 DEF Folded
<1>7. <<g[k - 1], w[k]>> \in S \X B
  BY <1>5
<1>8. g[k] \in S
  BY <1>6, <1>7
<1> QED
  BY <1>2, <1>8

\* Two sequences that agree up to n have the same folds up to n.
LEMMA FoldedAgrees ==
    ASSUME NEW S, NEW F, NEW base, NEW v, NEW w, NEW m \in Nat, NEW n \in Nat, n <= m,
           NEW g, Folded(g, S, F, base, w, n), \A k \in 0 .. n : g[k] \in S,
           NEW h, Folded(h, S, F, base, v, m), Agree(v, w, n)
    PROVE  h[n] = g[n]
<1> DEFINE Bad == {k \in 0 .. n : h[k] # g[k]}
<1>1. SUFFICES ASSUME h[n] # g[n] PROVE FALSE
  OBVIOUS
<1>2. n \in Bad /\ Bad \in SUBSET Nat
  BY <1>1
<1>3. PICK k \in Bad : \A x \in Bad : k <= x
  BY <1>2, LeastExists
<1>4. k # 0
  BY <1>3 DEF Folded
<1>5. k \in 1 .. n /\ k \in 1 .. m /\ k - 1 \in 0 .. n /\ k - 1 \notin Bad
  BY <1>3, <1>4
<1>6. h[k - 1] = g[k - 1] /\ g[k - 1] \in S
  BY <1>5
<1>7. v[k] = w[k]
  BY <1>5 DEF Agree
<1>8. g[k] = F[<<g[k - 1], w[k]>>]
  BY <1>5, <1>6 DEF Folded
<1>9. h[k] = F[<<h[k - 1], v[k]>>]
  BY <1>5, <1>6 DEF Folded
<1> QED
  BY <1>3, <1>6, <1>7, <1>8, <1>9

\* The fold h over v is that of w with one element more.
FoldsOn(g, h, S, F, w, v, b) ==
    g[Len(w)] \in S /\ h[Len(v)] = F[<<g[Len(w)], b>>]

\* The fold over a sequence with one element more.
LEMMA FoldedAppend ==
    ASSUME NEW S, NEW B, NEW base \in S, NEW F \in [S \X B -> S],
           NEW w \in Seq(B), NEW b \in B, NEW v, Extended(v, w, b),
           NEW g, Folded(g, S, F, base, w, Len(w)), NEW h, Folded(h, S, F, base, v, Len(v))
    PROVE  FoldsOn(g, h, S, F, w, v, b)
<1>1. PICK n \in Nat : n = Len(w)
  OBVIOUS
<1>2. (\A k \in 1 .. n : w[k] \in B /\ v[k] = w[k]) /\ v[n + 1] = b /\ Len(v) = n + 1
  BY <1>1 DEF Extended
<1>4. Folded(g, S, F, base, w, n) /\ Folded(h, S, F, base, v, n + 1)
  BY <1>1, <1>2
<1>5. \A k \in 0 .. n : g[k] \in S
  BY <1>2, <1>4, FoldedStays
<1>6. Agree(v, w, n)
  BY <1>2 DEF Agree
<1>7. h[n] = g[n]
  BY <1>4, <1>5, <1>6, FoldedAgrees
<1>8. g[n] \in S
  BY <1>5
<1>9. n + 1 \in 1 .. (n + 1) /\ (n + 1) - 1 = n
  OBVIOUS
<1>10. h[n + 1] = F[<<h[n], v[n + 1]>>]
  BY <1>4, <1>7, <1>8, <1>9 DEF Folded
<1> QED
  BY <1>1, <1>2, <1>7, <1>8, <1>10 DEF FoldsOn

-----------------------------------------------------------------------------
(* The size of a file *)

\* What a writer writes.
WrittenBlocks == {b \in BlockTypes : b.kind \in {"section", "interface", "packet"}}

\* The size of a block is a number.
LEMMA SizeType ==
    ASSUME NEW b \in WrittenBlocks
    PROVE  Size(b) \in Nat
<1>1. b \in BlockTypes /\ b.kind \in {"section", "interface", "packet"}
  BY DEF WrittenBlocks
<1>2. CASE b.kind = "packet"
  <2>1. b \in PacketTypes
    BY <1>1, <1>2, KindOfBlock
  <2>2. PICK n \in Nat : n = Len(b.frames)
    BY <2>1 DEF PacketTypes
  <2>3. PICK m \in Nat : m = b.payload_len
    BY <2>1 DEF PacketTypes
  <2> DEFINE caplen == 64 + 16 * n + m
  <2>4. caplen \in Nat
    OBVIOUS
  <2> HIDE DEF caplen
  <2>5. (4 - (caplen % 4)) % 4 \in Nat
    BY <2>4
  <2>6. caplen + ((4 - (caplen % 4)) % 4) + 32 \in Nat
    BY <2>4, <2>5
  <2>7. PacketSize(b) = caplen + ((4 - (caplen % 4)) % 4) + 32
    BY <2>2, <2>3 DEF PacketSize, caplen
  <2> QED
    BY <1>2, <2>6, <2>7 DEF Size
<1> QED
  BY <1>1, <1>2 DEF Size

\* Adding the size of a block, as a function.
AddSize == [p \in Nat \X WrittenBlocks |-> p[1] + Size(p[2])]

\* It keeps numbers.
LEMMA AddSizeType == AddSize \in [Nat \X WrittenBlocks -> Nat]
<1>1. \A p \in Nat \X WrittenBlocks : p[1] + Size(p[2]) \in Nat
  <2> SUFFICES ASSUME NEW p \in Nat \X WrittenBlocks PROVE p[1] + Size(p[2]) \in Nat
    OBVIOUS
  <2>1. p[1] \in Nat /\ Size(p[2]) \in Nat
    BY SizeType
  <2> QED
    BY <2>1
<1> QED
  BY <1>1 DEF AddSize

\* Bytes is such a fold.
LEMMA BytesFolded ==
    ASSUME NEW w \in Seq(WrittenBlocks)
    PROVE  \E g : Folded(g, Nat, AddSize, 0, w, Len(w)) /\ Bytes(w) = g[Len(w)]
<1>1. PICK n \in Nat : n = Len(w)
  OBVIOUS
<1>2. DOMAIN w = 1 .. n /\ \A k \in 1 .. n : w[k] \in WrittenBlocks
  BY <1>1
<1> DEFINE Body(it) == [s \in SUBSET (DOMAIN w) |->
                           IF s = {} THEN 0 ELSE it[s \ {Max(s)}] + Size(w[Max(s)])]
           iter == CHOOSE it : it = Body(it)
<1>3. Bytes(w) = iter[DOMAIN w]
  BY DEF Bytes, FoldLeft, MapThenFoldSet
<1>4. PICK jt : IteratesTo(jt, Nat, AddSize, 0, w, n)
  <2>1. \E it : IteratesTo(it, Nat, AddSize, 0, w, Len(w))
    BY AddSizeType, IterateExists
  <2> QED
    BY <1>1, <2>1
<1>5. iter = Body(iter)
  <2>1. \A s \in SUBSET (1 .. n) : jt[s] \in Nat /\ jt[s] = Round(jt, AddSize, 0, w, s)
    BY <1>4 DEF IteratesTo
  <2>2. ASSUME NEW s \in SUBSET (1 .. n)
        PROVE  jt[s] = IF s = {} THEN 0 ELSE jt[s \ {Max(s)}] + Size(w[Max(s)])
    <3>1. CASE s = {}
      BY <2>1, <3>1 DEF Round
    <3>2. CASE s # {}
      <4>1. s \ {Max(s)} \in SUBSET (1 .. n) /\ Max(s) \in 1 .. n
        BY <3>2, MaxOfPositions
      <4>2. <<jt[s \ {Max(s)}], w[Max(s)]>> \in Nat \X WrittenBlocks
        BY <1>2, <2>1, <4>1
      <4>3. AddSize[<<jt[s \ {Max(s)}], w[Max(s)]>>] = jt[s \ {Max(s)}] + Size(w[Max(s)])
        BY <4>2 DEF AddSize
      <4> QED
        BY <2>1, <3>2, <4>3 DEF Round
    <3> QED
      BY <3>1, <3>2
  <2>3. jt = Body(jt)
    BY <1>2, <1>4, <2>2 DEF IteratesTo
  <2> HIDE DEF Body
  <2> QED
    BY <2>3
<1> HIDE DEF iter
<1>6. \A s \in SUBSET (1 .. n) :
         iter[s] = IF s = {} THEN 0 ELSE iter[s \ {Max(s)}] + Size(w[Max(s)])
  BY <1>2, <1>5
<1> DEFINE g == [k \in 0 .. n |-> iter[1 .. k]]
<1>7. g[0] = 0
  <2>1. 1 .. 0 = {} /\ {} \in SUBSET (1 .. n) /\ 0 \in 0 .. n
    OBVIOUS
  <2>2. iter[{}] = 0
    BY <1>6, <2>1
  <2>3. g[0] = iter[1 .. 0]
    BY <2>1
  <2> QED
    BY <2>1, <2>2, <2>3
<1>8. ASSUME NEW k \in 1 .. n, g[k - 1] \in Nat PROVE g[k] = AddSize[<<g[k - 1], w[k]>>]
  <2>1. /\ 1 .. k \in SUBSET (1 .. n) /\ 1 .. k # {}
        /\ Max(1 .. k) = k /\ (1 .. k) \ {k} = 1 .. (k - 1)
    BY FirstPositions
  <2>2. iter[1 .. k] = iter[1 .. (k - 1)] + Size(w[k])
    BY <1>6, <2>1
  <2>3. k \in 0 .. n /\ k - 1 \in 0 .. n
    OBVIOUS
  <2>4. g[k] = g[k - 1] + Size(w[k])
    BY <2>2, <2>3
  <2>5. <<g[k - 1], w[k]>> \in Nat \X WrittenBlocks
    BY <1>2, <1>8
  <2> HIDE DEF g
  <2> QED
    BY <2>4, <2>5 DEF AddSize
<1>9. Bytes(w) = g[n]
  BY <1>2, <1>3
<1> HIDE DEF g
<1>10. Folded(g, Nat, AddSize, 0, w, n)
  BY <1>7, <1>8 DEF Folded
<1> QED
  BY <1>1, <1>9, <1>10

\* A file grows by the size of each block.
LEMMA BytesMore ==
    ASSUME NEW w \in Seq(WrittenBlocks), NEW b \in WrittenBlocks
    PROVE  Bytes(w) \in Nat /\ Bytes(Append(w, b)) = Bytes(w) + Size(b)
<1>1. PICK v : v = Append(w, b)
  OBVIOUS
<1>2. v \in Seq(WrittenBlocks) /\ Len(v) = Len(w) + 1
  BY <1>1
<1>3. PICK g : Folded(g, Nat, AddSize, 0, w, Len(w)) /\ Bytes(w) = g[Len(w)]
  BY BytesFolded
<1>4. PICK h : Folded(h, Nat, AddSize, 0, v, Len(v)) /\ Bytes(v) = h[Len(v)]
  BY <1>2, BytesFolded
<1>5. Extended(v, w, b)
  BY <1>1 DEF Extended
<1>6. FoldsOn(g, h, Nat, AddSize, w, v, b)
  BY <1>3, <1>4, <1>5, AddSizeType, FoldedAppend
<1>7. g[Len(w)] \in Nat /\ h[Len(v)] = AddSize[<<g[Len(w)], b>>]
  BY <1>6 DEF FoldsOn
<1>8. AddSize[<<g[Len(w)], b>>] = g[Len(w)] + Size(b)
  BY <1>7 DEF AddSize
<1> QED
  BY <1>1, <1>3, <1>4, <1>7, <1>8

\* An empty sequence has no size.
LEMMA NoBytes == Bytes(<<>>) = 0
<1>1. <<>> \in Seq(WrittenBlocks) /\ Len(<<>>) = 0
  OBVIOUS
<1>2. PICK g : Folded(g, Nat, AddSize, 0, <<>>, Len(<<>>)) /\ Bytes(<<>>) = g[Len(<<>>)]
  BY <1>1, BytesFolded, Zenon
<1> QED
  BY <1>1, <1>2 DEF Folded

-----------------------------------------------------------------------------
(* Rotation *)

\* The events that were returned and went into a file.
Held(ret, k) == {n \in DOMAIN ret : ret[n].file = k}

\* When the first of them was.
FirstTime(ret, k) == ret[Min(Held(ret, k))].event.timestamp

\* One more event, and what file it went into.
OneMore(ret, new, n, e, file) ==
    /\ n \in Nat /\ DOMAIN ret = 1 .. n /\ DOMAIN new = 1 .. (n + 1)
    /\ \A i \in 1 .. n : new[i] = ret[i]
    /\ new[n + 1].event = e /\ new[n + 1].file = file

\* It is the last of its file.
LEMMA HeldMore ==
    ASSUME NEW ret, NEW new, NEW n, NEW e, NEW file, OneMore(ret, new, n, e, file), NEW k
    PROVE  /\ Held(new, k) = IF k = file THEN Held(ret, k) \cup {n + 1} ELSE Held(ret, k)
           /\ Held(ret, k) \subseteq 1 .. n /\ n \in Nat
BY DEF OneMore, Held

\* The least of some positions.
LEMMA MinOfPositions ==
    ASSUME NEW s \in SUBSET Nat, s # {}
    PROVE  Min(s) \in s /\ \A x \in s : Min(s) <= x
<1>1. PICK m \in s : \A x \in s : m <= x
  BY LeastExists
<1>2. s \in SUBSET Int
  OBVIOUS
<1>3. Min(s) = m
  BY <1>1, <1>2, MinIs
<1> QED
  BY <1>1, <1>3

\* The first event of a file remains the first.
LEMMA FirstStays ==
    ASSUME NEW ret, NEW new, NEW n, NEW e, NEW file, OneMore(ret, new, n, e, file), NEW k,
           Held(ret, k) # {}
    PROVE  /\ Held(new, k) # {}
           /\ Min(Held(new, k)) = Min(Held(ret, k)) /\ Min(Held(ret, k)) \in Held(ret, k)
           /\ FirstTime(new, k) = FirstTime(ret, k)
<1>1. /\ Held(new, k) = IF k = file THEN Held(ret, k) \cup {n + 1} ELSE Held(ret, k)
      /\ Held(ret, k) \subseteq 1 .. n /\ n \in Nat
  BY HeldMore
<1>2. PICK m : m = Min(Held(ret, k))
  OBVIOUS
<1>3. Held(ret, k) \in SUBSET Nat
  BY <1>1
<1>4. m \in Held(ret, k) /\ \A x \in Held(ret, k) : m <= x
  BY <1>2, <1>3, MinOfPositions
<1>5. m \in 1 .. n /\ m <= n + 1
  BY <1>1, <1>4
<1>6. Held(new, k) \in SUBSET Int /\ m \in Held(new, k) /\ \A x \in Held(new, k) : m <= x
  BY <1>1, <1>4, <1>5
<1>7. Min(Held(new, k)) = m
  BY <1>6, MinIs
<1>8. new[m] = ret[m]
  BY <1>5 DEF OneMore
<1> QED
  BY <1>2, <1>4, <1>6, <1>7, <1>8 DEF FirstTime

\* The first event of a new file.
LEMMA FirstNew ==
    ASSUME NEW ret, NEW new, NEW n, NEW e, NEW file, OneMore(ret, new, n, e, file),
           Held(ret, file) = {}
    PROVE  /\ Held(new, file) # {} /\ Min(Held(new, file)) = n + 1
           /\ FirstTime(new, file) = e.timestamp
<1>1. Held(new, file) = {n + 1} /\ n \in Nat
  BY HeldMore
<1>2. Held(new, file) \in SUBSET Int /\ n + 1 \in Held(new, file)
      /\ \A x \in Held(new, file) : n + 1 <= x
  BY <1>1
<1>3. Min(Held(new, file)) = n + 1
  BY <1>2, MinIs
<1> QED
  BY <1>2, <1>3 DEF FirstTime, OneMore

\* The packets among some blocks.
PacketsOf(blocks) == {n \in DOMAIN blocks : blocks[n].kind = "packet"}

\* What was in the file before the blocks of an event.
Before(blocks, n) ==
    SubSeq(blocks, 1, IF blocks[n - 1].kind = "interface" THEN n - 2 ELSE n - 1)

\* A file is large or old enough.
AtLimit(o, first, blocks, now) ==
    \/ Reached(o.size, Bytes(blocks))
    \/ o.seconds # <<>> /\ now - first >= o.seconds[1] * NsPerSecond

\* A packet is that of an event of the file: the first one, or one that found room.
InPlace(o, ret, k, blocks, n) ==
    \E m \in Held(ret, k) :
       /\ ret[m].event.content = blocks[n].content
       /\ \/ m = Min(Held(ret, k))
          \/ ~AtLimit(o, FirstTime(ret, k), Before(blocks, n), ret[m].event.timestamp)

\* What a file holds: one packet for each of its events.
FileOK(o, ret, k, w) ==
    /\ w.blocks \in Seq(WrittenBlocks) /\ w.bytes = Bytes(w.blocks)
    /\ Len(w.blocks) >= 2 /\ w.blocks[1].kind # "packet"
    /\ Held(ret, k) # {} => w.blocks[Len(w.blocks)].kind = "packet"
    /\ Cardinality(Held(ret, k)) = Cardinality(PacketsOf(w.blocks))
    /\ \A n \in PacketsOf(w.blocks) : InPlace(o, ret, k, w.blocks, n)
    /\ \A m \in Held(ret, k) : \E n \in PacketsOf(w.blocks) :
          w.blocks[n].content = ret[m].event.content

\* Writer::new starts a file without events.
LEMMA FileNew ==
    ASSUME NEW o, NEW ret, NEW k, Held(ret, k) = {}
    PROVE  FileOK(o, ret, k, WriterNew)
<1>1. PICK blocks : blocks = <<Section, OutputInterface>>
  OBVIOUS
<1>2. WriterNew.blocks = blocks /\ WriterNew.bytes = 48
  BY <1>1 DEF WriterNew
<1>3. Section \in WrittenBlocks /\ OutputInterface \in WrittenBlocks
  BY PcapngAssumption
     DEF WrittenBlocks, BlockTypes, Section, OutputInterface, Interface, USB_LINUX_MMAPPED
<1>4. Section.kind = "section" /\ OutputInterface.kind = "interface"
  BY DEF Section, OutputInterface, Interface
<1>5. /\ blocks \in Seq(WrittenBlocks) /\ Len(blocks) = 2 /\ DOMAIN blocks = 1 .. 2
      /\ blocks[1] = Section /\ blocks[2] = OutputInterface
  BY <1>1, <1>3
<1>6. PacketsOf(blocks) = {}
  BY <1>4, <1>5 DEF PacketsOf
<1>7. Bytes(blocks) = 48
  <2>0. <<>> \in Seq(WrittenBlocks)
    OBVIOUS
  <2>1. PICK none \in Seq(WrittenBlocks) : none = <<>>
    BY <2>0, Zenon
  <2>2. PICK one : one = Append(none, Section)
    OBVIOUS
  <2>3. blocks = Append(one, OutputInterface) /\ one \in Seq(WrittenBlocks)
    BY <1>1, <1>3, <2>1, <2>2
  <2>4. Bytes(none) = 0
    BY <2>1, NoBytes
  <2>5. Size(Section) = 28 /\ Size(OutputInterface) = 20
    BY <1>4 DEF Size
  <2>6. Bytes(one) = Bytes(none) + Size(Section)
    BY <1>3, <2>2, BytesMore
  <2>7. Bytes(blocks) = Bytes(one) + Size(OutputInterface)
    BY <1>3, <2>3, BytesMore
  <2> QED
    BY <2>4, <2>5, <2>6, <2>7
<1> QED
  BY <1>2, <1>4, <1>5, <1>6, <1>7 DEF FileOK

\* The blocks of one event.
Grows(w, new, e, before, p) ==
    /\ p \in WrittenBlocks /\ p.kind = "packet" /\ p.content = e.content
    /\ before = w.blocks \/ before = Append(w.blocks, OutputInterface)
    /\ new.blocks = Append(before, p)
    /\ new.bytes = Bytes(before) + Size(p)

\* write_event() counts what it writes.
LEMMA WriteEffect ==
    ASSUME NEW w \in WriterTypes, NEW e \in EventTypes(Nat),
           w.blocks \in Seq(WrittenBlocks), w.bytes = Bytes(w.blocks)
    PROVE  \E before \in Seq(WrittenBlocks), p \in WrittenBlocks : Grows(w, WriteEvent(w, e), e, before, p)
<1> DEFINE known == e.source_id \in DOMAIN w.interfaces
           index == IF known THEN w.interfaces[e.source_id]
                    ELSE Cardinality(DOMAIN w.interfaces)
           added == IF known \/ index = 0 THEN <<>> ELSE <<OutputInterface>>
           p == Packet(e, index)
           before == w.blocks \o added
<1>1. WriteEvent(w, e).blocks = before \o <<p>>
      /\ WriteEvent(w, e).bytes = w.bytes + InterfaceSize * Len(added) + PacketSize(e)
  BY DEF WriteEvent
<1>2. WriteEvent(w, e) \in WriterTypes
  BY WriteEventType
<1>3. added = <<>> \/ added = <<OutputInterface>>
  OBVIOUS
<1>4. p.kind = "packet" /\ p.content = e.content /\ p.frames = e.frames
      /\ p.payload_len = e.payload_len
  BY DEF Packet
<1> HIDE DEF p, added, index, known
<1>5. OutputInterface \in WrittenBlocks /\ Size(OutputInterface) = 20
  BY PcapngAssumption
     DEF WrittenBlocks, BlockTypes, OutputInterface, Interface, USB_LINUX_MMAPPED, Size
<1>6. /\ before \in Seq(WrittenBlocks)
      /\ before = w.blocks \/ before = Append(w.blocks, OutputInterface)
  <2>1. CASE added = <<>>
    <3>1. w.blocks \o <<>> = w.blocks
      OBVIOUS
    <3> QED
      BY <2>1, <3>1
  <2>2. CASE added = <<OutputInterface>>
    <3>1. w.blocks \o <<OutputInterface>> = Append(w.blocks, OutputInterface)
          /\ Append(w.blocks, OutputInterface) \in Seq(WrittenBlocks)
      BY <1>5
    <3> QED
      BY <2>2, <3>1
  <2> QED
    BY <1>3, <2>1, <2>2
<1>7. Bytes(before) = w.bytes + InterfaceSize * Len(added)
  <2>1. CASE added = <<>>
    <3>1. before = w.blocks /\ Len(added) = 0
      BY <2>1
    <3>2. Bytes(w.blocks) \in Nat
      BY <1>5, BytesMore
    <3> QED
      BY <3>1, <3>2 DEF InterfaceSize
  <2>2. CASE added = <<OutputInterface>>
    <3>1. before = Append(w.blocks, OutputInterface) /\ Len(added) = 1
      BY <2>2
    <3>2. Bytes(w.blocks) \in Nat
          /\ Bytes(Append(w.blocks, OutputInterface)) = Bytes(w.blocks) + Size(OutputInterface)
      BY <1>5, BytesMore
    <3> QED
      BY <1>5, <3>1, <3>2 DEF InterfaceSize
  <2> QED
    BY <1>3, <2>1, <2>2
<1>8. p \in WrittenBlocks
  <2>1. PICK bs : bs = WriteEvent(w, e).blocks
    OBVIOUS
  <2>2. bs \in Seq(BlockTypes)
    BY <1>2, <2>1 DEF WriterTypes
  <2>3. bs = before \o <<p>> /\ Len(before) \in Nat
    BY <1>1, <1>6, <2>1
  <2> HIDE DEF before
  <2>4. Len(before) + 1 \in DOMAIN bs /\ bs[Len(before) + 1] = p
    BY <1>6, <2>3
  <2>5. p \in BlockTypes
    BY <2>2, <2>4
  <2> QED
    BY <1>4, <2>5 DEF WrittenBlocks
<1>9. Size(p) = PacketSize(e)
  BY <1>4 DEF Size, PacketSize
<1> HIDE DEF before
<1>10. before \o <<p>> = Append(before, p)
  BY <1>6, <1>8
<1>11. Grows(w, WriteEvent(w, e), e, before, p)
  BY <1>1, <1>4, <1>6, <1>7, <1>8, <1>9, <1>10 DEF Grows
<1> QED
  BY <1>6, <1>8, <1>11

\* Sequences that agree have the same prefixes.
LEMMA PrefixesAgree ==
    ASSUME NEW B, NEW s \in Seq(B), NEW t \in Seq(B), NEW m \in Int,
           m <= Len(s), m <= Len(t), Agree(t, s, m)
    PROVE  SubSeq(t, 1, m) = SubSeq(s, 1, m)
<1>1. SubSeq(t, 1, m) = [i \in 1 .. m |-> t[i]]
  OBVIOUS
<1>2. SubSeq(s, 1, m) = [i \in 1 .. m |-> s[i]]
  OBVIOUS
<1>3. \A i \in 1 .. m : t[i] = s[i]
  BY DEF Agree
<1> QED
  BY <1>1, <1>2, <1>3

\* A whole sequence is a prefix of itself.
LEMMA WholePrefix ==
    ASSUME NEW B, NEW s \in Seq(B)
    PROVE  SubSeq(s, 1, Len(s)) = s
OBVIOUS

\* An event of another file changes nothing about this one.
LEMMA FileStays ==
    ASSUME NEW o, NEW ret, NEW new, NEW n, NEW e, NEW file, OneMore(ret, new, n, e, file),
           NEW k, k # file, NEW w, FileOK(o, ret, k, w)
    PROVE  FileOK(o, new, k, w)
<1>1. Held(new, k) = Held(ret, k) /\ Held(ret, k) \subseteq 1 .. n
  BY HeldMore
<1>2. \A m \in Held(ret, k) : new[m] = ret[m]
  BY <1>1 DEF OneMore
<1>3. \A i \in PacketsOf(w.blocks) : InPlace(o, new, k, w.blocks, i)
  <2> SUFFICES ASSUME NEW i \in PacketsOf(w.blocks) PROVE InPlace(o, new, k, w.blocks, i)
    OBVIOUS
  <2>1. InPlace(o, ret, k, w.blocks, i)
    BY DEF FileOK
  <2>2. Held(ret, k) # {}
    BY <2>1 DEF InPlace
  <2>3. FirstTime(new, k) = FirstTime(ret, k)
    BY <2>2, FirstStays
  <2> QED
    BY <1>1, <1>2, <2>1, <2>3 DEF InPlace
<1> QED
  BY <1>1, <1>2, <1>3 DEF FileOK

\* The packet of an event is the last block, perhaps behind that of an interface.
BlocksGrown(w, new, p, len, j) ==
    /\ new.blocks \in Seq(WrittenBlocks)
    /\ Len(new.blocks) = j /\ Agree(new.blocks, w.blocks, len)
    /\ new.blocks[j] = p
    /\ j = len + 2 => new.blocks[len + 1] = OutputInterface
    /\ PacketsOf(new.blocks) = PacketsOf(w.blocks) \cup {j}

\* The blocks of an event, by their places.
LEMMA BlocksMore ==
    ASSUME NEW w, w.blocks \in Seq(WrittenBlocks), NEW new, NEW e,
           NEW before \in Seq(WrittenBlocks), NEW p, Grows(w, new, e, before, p),
           NEW len \in Nat, len = Len(w.blocks)
    PROVE  \E j \in {len + 1, len + 2} : BlocksGrown(w, new, p, len, j)
<1>1. p \in WrittenBlocks /\ new.blocks = Append(before, p) /\ p.kind = "packet"
  BY DEF Grows
<1>2. PICK s \in Seq(WrittenBlocks) : s = w.blocks
  OBVIOUS
<1>3. PICK t : t = new.blocks
  OBVIOUS
<1>4. t = Append(before, p) /\ t \in Seq(WrittenBlocks)
  BY <1>1, <1>3
<1>5. OutputInterface.kind = "interface" /\ OutputInterface \in WrittenBlocks
  BY PcapngAssumption
     DEF WrittenBlocks, BlockTypes, OutputInterface, Interface, USB_LINUX_MMAPPED
<1>6. CASE before = s
  <2>1. /\ Len(t) = len + 1 /\ t[len + 1] = p /\ DOMAIN t = 1 .. (len + 1)
        /\ DOMAIN s = 1 .. len /\ \A i \in 1 .. len : t[i] = s[i]
    BY <1>1, <1>2, <1>4, <1>6
  <2>2. PacketsOf(t) = PacketsOf(s) \cup {len + 1}
    BY <1>1, <2>1 DEF PacketsOf
  <2> QED
    BY <1>2, <1>3, <1>4, <2>1, <2>2 DEF Agree, BlocksGrown
<1>7. CASE before = Append(s, OutputInterface)
  <2>0. /\ Len(before) = len + 1 /\ before[len + 1] = OutputInterface
        /\ \A i \in 1 .. len : before[i] = s[i]
    BY <1>2, <1>5, <1>7
  <2>1. /\ Len(t) = len + 2 /\ t[len + 2] = p /\ DOMAIN t = 1 .. (len + 2)
        /\ \A i \in 1 .. (len + 1) : t[i] = before[i]
    BY <1>1, <1>4, <2>0
  <2>2. DOMAIN s = 1 .. len /\ \A i \in 1 .. len : t[i] = s[i]
    BY <1>2, <2>0, <2>1
  <2>3. t[len + 1] = OutputInterface
    BY <2>0, <2>1
  <2>4. PacketsOf(t) = PacketsOf(s) \cup {len + 2}
    <3>1. ASSUME NEW i \in 1 .. (len + 2)
          PROVE  i \in PacketsOf(t) <=> i \in PacketsOf(s) \cup {len + 2}
      <4>1. i \in 1 .. len \/ i = len + 1 \/ i = len + 2
        BY SMTT(30)
      <4>2. len + 1 \notin PacketsOf(s) /\ len + 2 \notin PacketsOf(s)
        BY <2>2 DEF PacketsOf
      <4>3. len + 1 \notin PacketsOf(t) /\ len + 2 \in PacketsOf(t)
        BY <1>1, <1>5, <2>1, <2>3 DEF PacketsOf
      <4>4. i \in 1 .. len => (i \in PacketsOf(t) <=> i \in PacketsOf(s))
        BY <2>1, <2>2 DEF PacketsOf
      <4> QED
        BY <4>1, <4>2, <4>3, <4>4
    <3>2. PacketsOf(t) \subseteq 1 .. (len + 2) /\ PacketsOf(s) \subseteq 1 .. len
      BY <2>1, <2>2 DEF PacketsOf
    <3> QED
      BY <3>1, <3>2
  <2> QED
    BY <1>2, <1>3, <1>4, <2>1, <2>2, <2>3, <2>4 DEF Agree, BlocksGrown
<1> QED
  BY <1>2, <1>6, <1>7 DEF Grows

\* An event of this file that finds room, or is the first.
LEMMA FileGrows ==
    ASSUME NEW o, NEW ret, NEW new, NEW n, NEW e, NEW k, OneMore(ret, new, n, e, k),
           NEW w, FileOK(o, ret, k, w),
           Held(ret, k) # {} => ~AtLimit(o, FirstTime(ret, k), w.blocks, e.timestamp),
           NEW w2, NEW before \in Seq(WrittenBlocks), NEW p, Grows(w, w2, e, before, p)
    PROVE  FileOK(o, new, k, w2)
<1>0. /\ Held(new, k) = Held(ret, k) \cup {n + 1} /\ Held(ret, k) \subseteq 1 .. n
      /\ n \in Nat /\ n + 1 \notin Held(ret, k)
  BY HeldMore
<1>1. w.blocks \in Seq(WrittenBlocks)
  BY DEF FileOK
<1>2. PICK len \in Nat : len = Len(w.blocks)
  BY <1>1
<1>a. PICK j \in {len + 1, len + 2} : BlocksGrown(w, w2, p, len, j)
  BY <1>1, <1>2, BlocksMore
<1>3. /\ w2.blocks \in Seq(WrittenBlocks)
      /\ Len(w2.blocks) = j /\ Agree(w2.blocks, w.blocks, len)
      /\ w2.blocks[j] = p
      /\ j = len + 2 => w2.blocks[len + 1] = OutputInterface
      /\ PacketsOf(w2.blocks) = PacketsOf(w.blocks) \cup {j}
  BY <1>a DEF BlocksGrown
<1>4. p.kind = "packet" /\ p.content = e.content /\ p \in WrittenBlocks
      /\ w2.bytes = Bytes(w2.blocks)
  <2>1. Bytes(Append(before, p)) = Bytes(before) + Size(p)
    BY BytesMore DEF Grows
  <2> QED
    BY <2>1 DEF Grows
<1>5. PacketsOf(w.blocks) \subseteq 1 .. len /\ j \notin PacketsOf(w.blocks)
  BY <1>1, <1>2 DEF PacketsOf
<1>6. len >= 2 /\ w.blocks[1].kind # "packet"
  BY <1>2 DEF FileOK
<1>7. w2.blocks[1].kind # "packet" /\ Len(w2.blocks) >= 2
  BY <1>3, <1>6 DEF Agree
<1>8. Cardinality(Held(new, k)) = Cardinality(PacketsOf(w2.blocks))
  <2>1. IsFiniteSet(Held(ret, k)) /\ IsFiniteSet(PacketsOf(w.blocks))
    <3>1. IsFiniteSet(1 .. n) /\ IsFiniteSet(1 .. len)
      BY <1>0, FS_Interval
    <3> QED
      BY <1>0, <1>5, <3>1, FS_Subset
  <2>2. Cardinality(Held(new, k)) = Cardinality(Held(ret, k)) + 1
    BY <1>0, <2>1, FS_AddElement
  <2>3. Cardinality(PacketsOf(w2.blocks)) = Cardinality(PacketsOf(w.blocks)) + 1
    BY <1>3, <1>5, <2>1, FS_AddElement
  <2> QED
    BY <2>2, <2>3 DEF FileOK
<1>9. \A m \in Held(ret, k) : new[m] = ret[m]
  BY <1>0 DEF OneMore
<1>10. new[n + 1].event = e
  BY DEF OneMore
<1>11. \A m \in Held(new, k) : \E i \in PacketsOf(w2.blocks) :
          w2.blocks[i].content = new[m].event.content
  <2> SUFFICES ASSUME NEW m \in Held(new, k)
               PROVE  \E i \in PacketsOf(w2.blocks) :
                         w2.blocks[i].content = new[m].event.content
    OBVIOUS
  <2>1. CASE m = n + 1
    BY <1>3, <1>4, <1>10, <2>1
  <2>2. CASE m \in Held(ret, k)
    <3>1. PICK i \in PacketsOf(w.blocks) : w.blocks[i].content = ret[m].event.content
      BY <2>2 DEF FileOK
    <3>2. w2.blocks[i] = w.blocks[i]
      BY <1>3, <1>5 DEF Agree
    <3> QED
      BY <1>3, <1>9, <2>2, <3>1, <3>2
  <2> QED
    BY <1>0, <2>1, <2>2
<1>12. ASSUME NEW i \in PacketsOf(w.blocks) PROVE InPlace(o, new, k, w2.blocks, i)
  <2>1. InPlace(o, ret, k, w.blocks, i)
    BY DEF FileOK
  <2>2. PICK m \in Held(ret, k) :
           /\ ret[m].event.content = w.blocks[i].content
           /\ \/ m = Min(Held(ret, k))
              \/ ~AtLimit(o, FirstTime(ret, k), Before(w.blocks, i), ret[m].event.timestamp)
    BY <2>1 DEF InPlace
  <2>3. Min(Held(new, k)) = Min(Held(ret, k)) /\ FirstTime(new, k) = FirstTime(ret, k)
    BY FirstStays
  <2>4. i \in 2 .. len
    <3>1. i \in 1 .. len /\ i # 1
      BY <1>5, <1>6 DEF PacketsOf
    <3> QED
      BY <3>1
  <2>5. w2.blocks[i] = w.blocks[i] /\ w2.blocks[i - 1] = w.blocks[i - 1]
    BY <1>3, <2>4 DEF Agree
  <2>6. Before(w2.blocks, i) = Before(w.blocks, i)
    <3>1. PICK q \in Int : q = IF w.blocks[i - 1].kind = "interface" THEN i - 2 ELSE i - 1
      BY <2>4
    <3>2. q <= len /\ len <= j
      BY <2>4, <3>1
    <3>3. Agree(w2.blocks, w.blocks, q)
      BY <1>3, <3>2 DEF Agree
    <3>4. SubSeq(w2.blocks, 1, q) = SubSeq(w.blocks, 1, q)
      BY <1>1, <1>2, <1>3, <3>2, <3>3, PrefixesAgree, SMTT(30)
    <3> QED
      BY <2>5, <3>1, <3>4 DEF Before
  <2>7. m \in Held(new, k) /\ new[m] = ret[m]
    BY <1>0, <1>9
  <2> QED
    BY <2>2, <2>3, <2>5, <2>6, <2>7 DEF InPlace
<1>13. InPlace(o, new, k, w2.blocks, j)
  <2>1. n + 1 \in Held(new, k) /\ new[n + 1].event.content = w2.blocks[j].content
    BY <1>0, <1>3, <1>4, <1>10
  <2>2. CASE Held(ret, k) = {}
    <3>1. Min(Held(new, k)) = n + 1
      BY <2>2, FirstNew
    <3> QED
      BY <2>1, <3>1 DEF InPlace
  <2>3. CASE Held(ret, k) # {}
    <3>1. FirstTime(new, k) = FirstTime(ret, k)
      BY <2>3, FirstStays
    <3>2. w.blocks[len].kind = "packet"
      BY <1>2, <2>3 DEF FileOK
    <3>3. OutputInterface.kind = "interface"
      BY DEF OutputInterface, Interface
    <3>4. w2.blocks[len] = w.blocks[len]
      BY <1>3, <1>6 DEF Agree
    <3>5. (IF w2.blocks[j - 1].kind = "interface" THEN j - 2 ELSE j - 1) = len
      <4>1. CASE j = len + 1
        BY <3>2, <3>4, <4>1
      <4>2. CASE j = len + 2
        BY <1>3, <3>3, <4>2
      <4> QED
        BY <4>1, <4>2
    <3>6. SubSeq(w2.blocks, 1, len) = SubSeq(w.blocks, 1, len)
      <4>1. len \in Int /\ len <= Len(w.blocks) /\ len <= Len(w2.blocks)
        BY <1>2, <1>3
      <4> QED
        BY <1>1, <1>3, <4>1, PrefixesAgree
    <3>7. SubSeq(w.blocks, 1, Len(w.blocks)) = w.blocks
      BY <1>1, WholePrefix
    <3>8. Before(w2.blocks, j) = w.blocks
      BY <1>2, <3>5, <3>6, <3>7 DEF Before
    <3> QED
      BY <1>10, <2>1, <2>3, <3>1, <3>8 DEF InPlace
  <2> QED
    BY <2>2, <2>3
<1>14. w2.blocks[Len(w2.blocks)].kind = "packet"
  BY <1>3, <1>4
<1>15. \A i \in PacketsOf(w2.blocks) : InPlace(o, new, k, w2.blocks, i)
  BY <1>3, <1>12, <1>13
<1> QED
  BY <1>3, <1>4, <1>7, <1>8, <1>11, <1>14, <1>15 DEF FileOK

\* Whole seconds reach a limit when the time does; a clock that was set back does not.
LEMMA SecondsReached ==
    ASSUME NEW x \in Int, NEW s \in Nat \ {0}
    PROVE  Max({0, x}) \div NsPerSecond >= s <=> x >= s * NsPerSecond
<1>1. PICK N \in Nat \ {0} : N = NsPerSecond
  <2>1. NsPerUs \in Nat \ {0} /\ UsPerSecond \in Nat \ {0}
    BY PcapngAssumption
  <2>2. NsPerUs * UsPerSecond \in Nat \ {0}
    BY <2>1
  <2> QED
    BY <2>2 DEF NsPerSecond
<1>2. PICK m \in Nat : m = Max({0, x}) /\ m >= x /\ m \in {0, x}
  <2>1. CASE x >= 0
    <3>1. Max({0, x}) = x
      BY <2>1, MaxIs
    <3> QED
      BY <2>1, <3>1
  <2>2. CASE x < 0
    <3>1. Max({0, x}) = 0
      BY <2>2, MaxIs
    <3> QED
      BY <2>2, <3>1
  <2> QED
    BY <2>1, <2>2
<1>3. PICK q \in Nat : q = m \div N
  OBVIOUS
<1>4. q * N <= m /\ m < (q + 1) * N
  BY <1>3
<1>5. ASSUME q >= s PROVE x >= s * N
  <2>1. s * N <= q * N /\ s * N >= 1
    BY <1>5
  <2>2. m >= 1
    BY <1>4, <2>1
  <2> QED
    BY <1>2, <1>4, <2>1, <2>2
<1>6. ASSUME ~(q >= s) PROVE ~(x >= s * N)
  <2>1. q + 1 <= s
    BY <1>6
  <2>2. (q + 1) * N <= s * N
    BY <2>1
  <2> QED
    BY <1>2, <1>4, <2>2
<1> QED
  BY <1>1, <1>2, <1>3, <1>5, <1>6

-----------------------------------------------------------------------------
(* The files *)

\* The files that were closed, the open one and the limit of -W.
Rotated(o, ret, fs, evs, st) ==
    /\ \A n \in DOMAIN ret : ret[n].file \in 0 .. Len(fs)
    /\ fs # <<>> =>
          /\ evs = 0 <=> Held(ret, Len(fs)) = {}
          /\ evs = 0 => Len(fs) = 1 /\ st = <<>>
          /\ evs # 0 => st = <<FirstTime(ret, Len(fs))>>
    /\ \A k \in 1 .. (Len(fs) - 1) :
          /\ Held(ret, k) # {}
          /\ AtLimit(o, FirstTime(ret, k), fs[k].blocks, FirstTime(ret, k + 1))
    /\ \A k \in 1 .. Len(fs) : FileOK(o, ret, k, fs[k])
    /\ o.max_files # <<>> => Len(fs) <= o.max_files[1]

\* Why the last file is full.
FullOK(o, ret, fs) ==
    /\ o.max_files # <<>> /\ Len(fs) = o.max_files[1] /\ fs # <<>>
    /\ Held(ret, Len(fs)) # {}
    /\ \E n \in DOMAIN ret :
          /\ ret[n].what = "full"
          /\ AtLimit(o, FirstTime(ret, Len(fs)), fs[Len(fs)].blocks, ret[n].event.timestamp)

\* All files but one, and the events that tell their times, stay.
LEMMA OthersStay ==
    ASSUME NEW o, NEW ret, NEW new, NEW n, NEW e, NEW file, OneMore(ret, new, n, e, file),
           NEW fs \in Seq(WriterTypes), NEW evs, NEW st, Rotated(o, ret, fs, evs, st),
           NEW k \in 1 .. (Len(fs) - 1)
    PROVE  /\ Held(new, k) # {} /\ Held(new, k + 1) # {}
           /\ AtLimit(o, FirstTime(new, k), fs[k].blocks, FirstTime(new, k + 1))
<1>1. PICK len \in Nat : len = Len(fs)
  OBVIOUS
<1>2. k \in 1 .. (len - 1)
  BY <1>1
<1>3. Held(ret, k) # {} /\ AtLimit(o, FirstTime(ret, k), fs[k].blocks, FirstTime(ret, k + 1))
  BY DEF Rotated
<1>4. Held(ret, k + 1) # {}
  <2>1. CASE k + 1 \in 1 .. (len - 1)
    BY <1>1, <2>1 DEF Rotated
  <2>2. CASE k + 1 = len
    <3>1. fs # <<>> /\ len # 1
      BY <1>1, <1>2, <2>2
    <3>2. evs # 0
      BY <1>1, <3>1 DEF Rotated
    <3> QED
      BY <1>1, <2>2, <3>1, <3>2 DEF Rotated
  <2> QED
    BY <1>2, <2>1, <2>2
<1>5. Held(new, k) # {} /\ FirstTime(new, k) = FirstTime(ret, k)
  BY <1>3, FirstStays
<1>6. Held(new, k + 1) # {} /\ FirstTime(new, k + 1) = FirstTime(ret, k + 1)
  BY <1>4, FirstStays
<1> QED
  BY <1>3, <1>5, <1>6

\* An event that is not written.
LEMMA RotatedKept ==
    ASSUME NEW o, NEW ret, NEW new, NEW n, NEW e, OneMore(ret, new, n, e, 0),
           NEW fs \in Seq(WriterTypes), NEW evs, NEW st, Rotated(o, ret, fs, evs, st)
    PROVE  Rotated(o, new, fs, evs, st)
<1>1. PICK len \in Nat : len = Len(fs)
  OBVIOUS
<1>2. \A i \in DOMAIN new : new[i].file \in 0 .. len
  <2>1. \A i \in DOMAIN ret : ret[i].file \in 0 .. len
    BY <1>1 DEF Rotated
  <2> QED
    BY <2>1 DEF OneMore
<1>3. \A k \in 1 .. len : FileOK(o, new, k, fs[k])
  <2> SUFFICES ASSUME NEW k \in 1 .. len PROVE FileOK(o, new, k, fs[k])
    OBVIOUS
  <2>1. FileOK(o, ret, k, fs[k]) /\ k # 0
    BY <1>1 DEF Rotated
  <2> QED
    BY <2>1, FileStays
<1>4. \A k \in 1 .. (len - 1) :
         /\ Held(new, k) # {}
         /\ AtLimit(o, FirstTime(new, k), fs[k].blocks, FirstTime(new, k + 1))
  BY <1>1, OthersStay
<1>5. ASSUME fs # <<>>
      PROVE  /\ evs = 0 <=> Held(new, len) = {}
             /\ evs = 0 => len = 1 /\ st = <<>>
             /\ evs # 0 => st = <<FirstTime(new, len)>>
  <2>1. len # 0
    BY <1>1, <1>5
  <2>2. Held(new, len) = Held(ret, len)
    BY <2>1, HeldMore
  <2>3. Held(ret, len) # {} => FirstTime(new, len) = FirstTime(ret, len)
    BY FirstStays
  <2>4. /\ evs = 0 <=> Held(ret, len) = {}
        /\ evs = 0 => len = 1 /\ st = <<>>
        /\ evs # 0 => st = <<FirstTime(ret, len)>>
    BY <1>1, <1>5 DEF Rotated
  <2> QED
    BY <2>2, <2>3, <2>4
<1>6. o.max_files # <<>> => len <= o.max_files[1]
  BY <1>1 DEF Rotated
<1> QED
  BY <1>1, <1>2, <1>3, <1>4, <1>5, <1>6 DEF Rotated

\* An event that goes into the open file.
LEMMA RotatedSame ==
    ASSUME NEW o, NEW ret, NEW new, NEW n, NEW e,
           NEW fs \in Seq(WriterTypes), NEW evs \in Nat, NEW st, Rotated(o, ret, fs, evs, st),
           NEW len \in Nat, len = Len(fs), len # 0, OneMore(ret, new, n, e, len),
           NEW fs2 \in Seq(WriterTypes), len = Len(fs2), Agree(fs2, fs, len - 1),
           FileOK(o, new, len, fs2[len]), NEW st2,
           st2 = IF st = <<>> THEN <<e.timestamp>> ELSE st
    PROVE  Rotated(o, new, fs2, evs + 1, st2)
<1>1. \A i \in DOMAIN new : new[i].file \in 0 .. len
  <2>1. \A i \in DOMAIN ret : ret[i].file \in 0 .. len
    BY DEF Rotated
  <2> QED
    BY <2>1 DEF OneMore
<1>2. \A k \in 1 .. (len - 1) : fs2[k] = fs[k]
  BY DEF Agree
<1>3. ASSUME NEW k \in 1 .. len PROVE FileOK(o, new, k, fs2[k])
  <2>1. CASE k = len
    BY <2>1
  <2>2. CASE k # len
    <3>1. k \in 1 .. (len - 1)
      BY <2>2
    <3>2. FileOK(o, ret, k, fs[k])
      BY DEF Rotated
    <3>3. FileOK(o, new, k, fs[k])
      BY <2>2, <3>2, FileStays
    <3> QED
      BY <1>2, <3>1, <3>3
  <2> QED
    BY <2>1, <2>2
<1>4. ASSUME NEW k \in 1 .. (len - 1)
      PROVE  /\ Held(new, k) # {}
             /\ AtLimit(o, FirstTime(new, k), fs2[k].blocks, FirstTime(new, k + 1))
  <2>1. k \in 1 .. (Len(fs) - 1)
    OBVIOUS
  <2>2. /\ Held(new, k) # {}
        /\ AtLimit(o, FirstTime(new, k), fs[k].blocks, FirstTime(new, k + 1))
    BY <2>1, OthersStay
  <2> QED
    BY <1>2, <2>2
<1>5. fs # <<>> /\ fs2 # <<>>
  OBVIOUS
<1>6. /\ evs = 0 <=> Held(ret, len) = {}
      /\ evs = 0 => len = 1 /\ st = <<>>
      /\ evs # 0 => st = <<FirstTime(ret, len)>>
  BY <1>5 DEF Rotated
<1>7. evs + 1 # 0 /\ Held(new, len) # {}
  <2>1. Held(new, len) = Held(ret, len) \cup {n + 1}
    BY HeldMore
  <2> QED
    BY <2>1
<1>8. st2 = <<FirstTime(new, len)>>
  <2>1. CASE evs = 0
    <3>1. FirstTime(new, len) = e.timestamp
      BY <1>6, <2>1, FirstNew
    <3> QED
      BY <1>6, <2>1, <3>1
  <2>2. CASE evs # 0
    <3>1. FirstTime(new, len) = FirstTime(ret, len)
      BY <1>6, <2>2, FirstStays
    <3>2. st # <<>>
      <4>1. PICK t : t = FirstTime(ret, len)
        OBVIOUS
      <4>2. <<t>> # <<>>
        OBVIOUS
      <4> QED
        BY <1>6, <2>2, <4>1, <4>2
    <3> QED
      BY <1>6, <2>2, <3>1, <3>2
  <2> QED
    BY <2>1, <2>2
<1>9. o.max_files # <<>> => len <= o.max_files[1]
  BY DEF Rotated
<1> QED
  BY <1>1, <1>3, <1>4, <1>5, <1>7, <1>8, <1>9 DEF Rotated

\* An event that goes into a new file.
LEMMA RotatedNext ==
    ASSUME NEW o, NEW ret, NEW new, NEW n, NEW e,
           NEW fs \in Seq(WriterTypes), NEW evs, NEW st, Rotated(o, ret, fs, evs, st),
           NEW len \in Nat, len = Len(fs), len # 0, evs # 0,
           OneMore(ret, new, n, e, len + 1),
           NEW fs2 \in Seq(WriterTypes), len + 1 = Len(fs2), Agree(fs2, fs, len),
           FileOK(o, new, len + 1, fs2[len + 1]),
           AtLimit(o, FirstTime(ret, len), fs[len].blocks, e.timestamp),
           o.max_files # <<>> => len + 1 <= o.max_files[1]
    PROVE  Rotated(o, new, fs2, 1, <<e.timestamp>>)
<1>0. \A i \in DOMAIN ret : ret[i].file \in 0 .. len
  BY DEF Rotated
<1>1. \A i \in DOMAIN new : new[i].file \in 0 .. (len + 1)
  BY <1>0 DEF OneMore
<1>2. \A k \in 1 .. len : fs2[k] = fs[k]
  BY DEF Agree
<1>3. ASSUME NEW k \in 1 .. (len + 1) PROVE FileOK(o, new, k, fs2[k])
  <2>1. CASE k = len + 1
    BY <2>1
  <2>2. CASE k # len + 1
    <3>1. k \in 1 .. len
      BY <2>2
    <3>2. FileOK(o, ret, k, fs[k])
      BY <3>1 DEF Rotated
    <3>3. FileOK(o, new, k, fs[k])
      BY <2>2, <3>2, FileStays
    <3> QED
      BY <1>2, <3>1, <3>3
  <2> QED
    BY <2>1, <2>2
<1>4. Held(ret, len + 1) = {}
  BY <1>0 DEF Held
<1>5. FirstTime(new, len + 1) = e.timestamp /\ Held(new, len + 1) # {}
  BY <1>4, FirstNew
<1>6. Held(ret, len) # {}
  BY DEF Rotated
<1>7. Held(new, len) # {} /\ FirstTime(new, len) = FirstTime(ret, len)
  BY <1>6, FirstStays
<1>8. ASSUME NEW k \in 1 .. len
      PROVE  /\ Held(new, k) # {}
             /\ AtLimit(o, FirstTime(new, k), fs2[k].blocks, FirstTime(new, k + 1))
  <2>1. CASE k = len
    BY <1>2, <1>5, <1>7, <2>1
  <2>2. CASE k # len
    <3>1. k \in 1 .. (Len(fs) - 1)
      BY <2>2
    <3>2. /\ Held(new, k) # {}
          /\ AtLimit(o, FirstTime(new, k), fs[k].blocks, FirstTime(new, k + 1))
      BY <3>1, OthersStay
    <3> QED
      BY <1>2, <3>2
  <2> QED
    BY <2>1, <2>2
<1>9. (len + 1) - 1 = len /\ fs2 # <<>> /\ 1 # 0
  OBVIOUS
<1> QED
  BY <1>1, <1>3, <1>5, <1>8, <1>9 DEF Rotated

\* What consume_event() does to the files.
Filed(e, what, file) ==
    \/ /\ what # "full" /\ file = 0 /\ output_full' = output_full
       /\ UNCHANGED <<files, events, started>>
    \/ /\ what = "full" /\ file = 0 /\ Full(e) /\ options.write
       /\ ~output_full /\ output_full' = TRUE
       /\ UNCHANGED <<files, events, started>>
    \/ /\ what = "written" /\ file = Len(files') /\ Write(e) /\ ~Full(e) /\ options.write
       /\ ~output_full /\ output_full' = output_full

\* Every outcome is one of these.
LEMMA FilesEffect ==
    ASSUME TypeInv, NEW e \in EventTypes(Nat), ConsumeEvent(e)
    PROVE  \E what \in Whats, latency \in Seq(Nat), file \in Nat :
              Outcome(e, latency, what, file) /\ Filed(e, what, file)
<1> DEFINE effect == \E what \in Whats, latency \in Seq(Nat), file \in Nat :
                        Outcome(e, latency, what, file) /\ Filed(e, what, file)
<1>0. <<>> \in Seq(Nat) /\ 0 \in Nat /\ Latency(e) \in Seq(Nat) /\ output_full \in BOOLEAN
  BY LatencyType DEF TypeInv
<1>1. CASE /\ Outcome(e, <<>>, "ignored", 0)
           /\ UNCHANGED <<table, files, events, started, written, output_full, status>>
  <2>1. Filed(e, "ignored", 0)
    BY <1>1 DEF Filed
  <2> QED
    BY <1>0, <1>1, <2>1 DEF Whats
<1>2. CASE Outcome(e, <<>>, "refused", 0) /\ UNCHANGED <<table, output>>
  <2>1. Filed(e, "refused", 0)
    BY <1>2 DEF Filed, output
  <2> QED
    BY <1>0, <1>2, <2>1 DEF Whats
<1>3. CASE Outcome(e, Latency(e), "rejected", 0) /\ UNCHANGED <<iso_stats, output, status>>
  <2>1. Filed(e, "rejected", 0)
    BY <1>3 DEF Filed, output
  <2> QED
    BY <1>0, <1>3, <2>1 DEF Whats
<1>4. CASE ~Limited /\ Emit(e)
  <2>0. ~output_full
    BY <1>4 DEF Limited
  <2>1. CASE /\ Outcome(e, Latency(e), "printed", 0)
             /\ UNCHANGED <<files, events, started, output_full, status>>
    <3>1. Filed(e, "printed", 0)
      BY <2>1 DEF Filed
    <3> QED
      BY <1>0, <2>1, <3>1 DEF Whats
  <2>2. CASE /\ options.write /\ Full(e) /\ Outcome(e, Latency(e), "full", 0)
             /\ output_full' = TRUE /\ UNCHANGED <<files, events, started, written, status>>
    <3>1. Filed(e, "full", 0)
      BY <2>0, <2>2 DEF Filed
    <3> QED
      BY <1>0, <2>2, <3>1 DEF Whats
  <2>3. CASE Outcome(e, Latency(e), "failed", 0) /\ UNCHANGED output
    <3>1. Filed(e, "failed", 0)
      BY <2>3 DEF Filed, output
    <3> QED
      BY <1>0, <2>3, <3>1 DEF Whats
  <2>4. CASE /\ options.write /\ ~Full(e) /\ Write(e)
             /\ Outcome(e, Latency(e), "written", Len(files'))
             /\ UNCHANGED <<output_full, status>>
    <3>1. Filed(e, "written", Len(files'))
      BY <2>0, <2>4 DEF Filed
    <3>2. Len(files') \in Nat
      BY <2>4, WriteTypes
    <3> QED
      BY <1>0, <2>4, <3>1, <3>2 DEF Whats
  <2> QED
    BY <1>4, <2>1, <2>2, <2>3, <2>4 DEF Emit
<1> QED
  BY <1>1, <1>2, <1>3, <1>4 DEF ConsumeEvent

\* The files and the history agree; the output is open as long as the program runs.
RotationInv ==
    /\ Rotated(options, returned, files, events, started)
    /\ output_full => FullOK(options, returned, files)
    /\ status = "running" /\ options.write => files # <<>>

\* The limits of the command line are positive.
LEMMA LimitTypes ==
    ASSUME options \in Scenarios
    PROVE  \A limit \in {options.size, options.seconds, options.max_files} :
              limit # <<>> => limit[1] \in Nat \ {0}
<1> SUFFICES ASSUME NEW limit \in {options.size, options.seconds, options.max_files},
                    limit # <<>>
             PROVE  limit[1] \in Nat \ {0}
  OBVIOUS
<1>1. limit \in Seq(Nat) /\ Len(limit) <= 1 /\ limit # <<0>>
  BY ConvertAssumption
<1>2. limit[1] \in Nat /\ limit[1] # 0
  BY <1>1, OptionalNumber
<1> QED
  BY <1>2

\* The files are as they should be at the start.
LEMMA RotationInit == Init => RotationInv
<1> SUFFICES ASSUME Init PROVE RotationInv
  OBVIOUS
<1>1. /\ options \in Scenarios /\ returned = <<>> /\ events = 0 /\ started = <<>>
      /\ ~output_full /\ (status = "running" /\ options.write => files = <<WriterNew>>)
      /\ files = <<>> \/ files = <<WriterNew>>
  BY DEF Init
<1>2. DOMAIN returned = {} /\ \A k : Held(returned, k) = {}
  BY <1>1 DEF Held
<1>3. PICK len \in {0, 1} : len = Len(files) /\ (len = 1 => files[1] = WriterNew)
                            /\ (len = 0 => files = <<>>)
  BY <1>1
<1>4. options.max_files # <<>> => len <= options.max_files[1]
  <2>1. options.max_files # <<>> => options.max_files[1] \in Nat \ {0}
    BY <1>1, LimitTypes
  <2> QED
    BY <2>1
<1>5. \A k \in 1 .. len : FileOK(options, returned, k, files[k])
  <2> SUFFICES ASSUME NEW k \in 1 .. len PROVE FileOK(options, returned, k, files[k])
    OBVIOUS
  <2>1. files[k] = WriterNew
    BY <1>3
  <2> QED
    BY <1>2, <2>1, FileNew
<1>6. 1 .. (len - 1) = {}
  OBVIOUS
<1>7. Rotated(options, returned, files, events, started)
  BY <1>1, <1>2, <1>3, <1>4, <1>5, <1>6 DEF Rotated
<1>8. <<WriterNew>> # <<>>
  OBVIOUS
<1> QED
  BY <1>1, <1>7, <1>8 DEF RotationInv

\* A file is closed when it is at its limit.
LEMMA DueIsLimit ==
    ASSUME TypeInv, RotationInv, NEW e \in EventTypes(Nat), files # <<>>
    PROVE  Due(e) <=> /\ events # 0
                      /\ AtLimit(options, FirstTime(returned, Len(files)),
                                 files[Len(files)].blocks, e.timestamp)
<1>1. PICK len \in Nat : len = Len(files) /\ len # 0
  BY DEF TypeInv
<1>2. Last(files) = files[len]
  BY <1>1 DEF Last
<1>3. files[len].bytes = Bytes(files[len].blocks)
  BY <1>1 DEF RotationInv, Rotated, FileOK
<1>4. CASE events = 0
  BY <1>4 DEF Due
<1>5. CASE events # 0
  <2>1. started = <<FirstTime(returned, len)>> /\ Held(returned, len) # {}
    BY <1>1, <1>5 DEF RotationInv, Rotated
  <2>2. PICK first \in Nat : first = FirstTime(returned, len)
    <3>1. Held(returned, len) \in SUBSET Nat
      BY DEF TypeInv, Held
    <3>2. Min(Held(returned, len)) \in DOMAIN returned
      BY <2>1, <3>1, MinOfPositions DEF Held
    <3>3. returned[Min(Held(returned, len))] \in OutcomeTypes
      BY <3>2 DEF TypeInv
    <3>4. returned[Min(Held(returned, len))].event.timestamp \in Nat
      BY <3>3 DEF OutcomeTypes, EventTypes
    <3> QED
      BY <3>4 DEF FirstTime
  <2>3. started # <<>> /\ started[1] = first
    <3>1. <<first>> # <<>> /\ <<first>>[1] = first
      OBVIOUS
    <3> QED
      BY <2>1, <2>2, <3>1
  <2>4. PICK now \in Nat : now = e.timestamp
    BY DEF EventTypes
  <2>5. ASSUME options.seconds # <<>>
        PROVE  Reached(options.seconds, Max({0, now - first}) \div NsPerSecond)
                  <=> now - first >= options.seconds[1] * NsPerSecond
    <3>1. options.seconds[1] \in Nat \ {0}
      BY <2>5, LimitTypes DEF TypeInv
    <3>2. now - first \in Int
      OBVIOUS
    <3>3. Max({0, now - first}) \div NsPerSecond >= options.seconds[1]
             <=> now - first >= options.seconds[1] * NsPerSecond
      BY <3>1, <3>2, SecondsReached
    <3> QED
      BY <2>5, <3>3 DEF Reached
  <2>6. options.seconds = <<>> =>
           ~Reached(options.seconds, Max({0, now - first}) \div NsPerSecond)
    BY DEF Reached
  <2>7. Due(e) <=> \/ Reached(options.size, Bytes(files[len].blocks))
                   \/ Reached(options.seconds, Max({0, now - first}) \div NsPerSecond)
    BY <1>2, <1>3, <1>5, <2>3, <2>4 DEF Due
  <2> QED
    BY <1>1, <1>5, <2>2, <2>4, <2>5, <2>6, <2>7 DEF AtLimit
<1> QED
  BY <1>4, <1>5

\* The reason why the last file is full remains.
LEMMA FullStays ==
    ASSUME NEW o, NEW ret, NEW new, NEW n, NEW e, OneMore(ret, new, n, e, 0), NEW fs,
           FullOK(o, ret, fs)
    PROVE  FullOK(o, new, fs)
<1>1. PICK i \in DOMAIN ret :
         /\ ret[i].what = "full"
         /\ AtLimit(o, FirstTime(ret, Len(fs)), fs[Len(fs)].blocks, ret[i].event.timestamp)
  BY DEF FullOK
<1>2. i \in DOMAIN new /\ new[i] = ret[i]
  BY DEF OneMore
<1>3. Held(new, Len(fs)) # {} /\ FirstTime(new, Len(fs)) = FirstTime(ret, Len(fs))
  BY FirstStays DEF FullOK
<1> QED
  BY <1>1, <1>2, <1>3 DEF FullOK

\* Every event that is written goes into the open file while there is room, else
\* into the next.
LEMMA RotationWritten ==
    ASSUME TypeInv, RotationInv, NEW e \in EventTypes(Nat), files # <<>>,
           Write(e), ~Full(e),
           NEW n, OneMore(returned, returned', n, e, Len(files'))
    PROVE  Rotated(options, returned', files', events', started') /\ files' # <<>>
<1>0. PICK new : new = returned'
  OBVIOUS
<1>1. PICK fs2 \in Seq(WriterTypes) : fs2 = files'
  BY WriteTypes
<1>2. files \in Seq(WriterTypes) /\ events \in Nat /\ options \in Scenarios
  BY DEF TypeInv
<1>3. PICK len \in Nat : len = Len(files) /\ len # 0
  BY <1>2
<1>4. Rotated(options, returned, files, events, started)
  BY DEF RotationInv
<1>5. Due(e) <=> /\ events # 0
                 /\ AtLimit(options, FirstTime(returned, len), files[len].blocks, e.timestamp)
  BY <1>3, DueIsLimit
<1>6. files[len] \in WriterTypes /\ FileOK(options, returned, len, files[len])
  BY <1>2, <1>3, <1>4 DEF Rotated
<1>7. CASE Due(e)
  <2> DEFINE w2 == WriteEvent(WriterNew, e)
  <2>1. fs2 = Append(files, w2) /\ events' = 1 /\ started' = <<e.timestamp>>
    BY <1>1, <1>7 DEF Write
  <2>2. WriterNew \in WriterTypes /\ w2 \in WriterTypes
    BY WriterNewType, WriteEventType
  <2>3. /\ Len(fs2) = len + 1 /\ fs2[len + 1] = w2 /\ fs2 # <<>>
        /\ \A i \in 1 .. len : fs2[i] = files[i]
    <3> HIDE DEF w2
    <3> QED
      BY <1>2, <1>3, <2>1, <2>2
  <2>4. OneMore(returned, new, n, e, len + 1)
    BY <1>0, <1>1, <2>3
  <2>5. Held(returned, len + 1) = {}
    BY <1>3, <1>4 DEF Rotated, Held
  <2>6. FileOK(options, returned, len + 1, WriterNew)
    BY <2>5, FileNew
  <2>7. PICK before \in Seq(WrittenBlocks), p \in WrittenBlocks : Grows(WriterNew, w2, e, before, p)
    BY <2>2, <2>6, WriteEffect DEF FileOK
  <2> HIDE DEF w2
  <2>8. FileOK(options, new, len + 1, w2)
    BY <2>4, <2>5, <2>6, <2>7, FileGrows
  <2>9. options.max_files # <<>> => len + 1 <= options.max_files[1]
    <3>1. ~Reached(options.max_files, len)
      BY <1>3, <1>7 DEF Full
    <3>2. options.max_files # <<>> => options.max_files[1] \in Nat
      BY <1>2, LimitTypes
    <3> QED
      BY <3>1, <3>2 DEF Reached
  <2>10. Agree(fs2, files, len)
    BY <2>3 DEF Agree
  <2>11. AtLimit(options, FirstTime(returned, len), files[len].blocks, e.timestamp)
         /\ events # 0
    BY <1>5, <1>7
  <2>12. Rotated(options, new, fs2, 1, <<e.timestamp>>)
    BY <1>2, <1>3, <1>4, <2>3, <2>4, <2>8, <2>9, <2>10, <2>11, RotatedNext
  <2> QED
    BY <1>0, <1>1, <2>1, <2>3, <2>12
<1>8. CASE ~Due(e)
  <2> DEFINE w2 == WriteEvent(files[len], e)
  <2>1. fs2 = [files EXCEPT ![len] = w2] /\ events' = events + 1
        /\ started' = IF started = <<>> THEN <<e.timestamp>> ELSE started
    BY <1>1, <1>3, <1>8 DEF Write
  <2>2. w2 \in WriterTypes
    BY <1>6, WriteEventType
  <2>3. PICK before \in Seq(WrittenBlocks), p \in WrittenBlocks : Grows(files[len], w2, e, before, p)
    BY <1>6, WriteEffect DEF FileOK
  <2> HIDE DEF w2
  <2>4. /\ Len(fs2) = len /\ fs2[len] = w2 /\ fs2 # <<>>
        /\ \A i \in 1 .. (len - 1) : fs2[i] = files[i]
    BY <1>1, <1>2, <1>3, <2>1, <2>2
  <2>5. OneMore(returned, new, n, e, len)
    BY <1>0, <1>1, <2>4
  <2>6. Held(returned, len) # {} =>
           ~AtLimit(options, FirstTime(returned, len), files[len].blocks, e.timestamp)
    <3>1. events = 0 <=> Held(returned, len) = {}
      BY <1>3, <1>4 DEF Rotated
    <3> QED
      BY <1>5, <1>8, <3>1
  <2>7. FileOK(options, new, len, w2)
    BY <1>6, <2>3, <2>5, <2>6, FileGrows
  <2>8. Agree(fs2, files, len - 1)
    BY <2>4 DEF Agree
  <2>9. PICK st2 : st2 = IF started = <<>> THEN <<e.timestamp>> ELSE started
    OBVIOUS
  <2>10. FileOK(options, new, len, fs2[len])
    BY <2>4, <2>7
  <2>11. Rotated(options, new, fs2, events + 1, st2)
    BY <1>2, <1>3, <1>4, <2>4, <2>5, <2>8, <2>9, <2>10, RotatedSame
  <2> QED
    BY <1>0, <1>1, <2>1, <2>4, <2>9, <2>11
<1> QED
  BY <1>7, <1>8

\* Every step keeps the files and the history in agreement.
LEMMA RotationStep == TypeInv /\ RotationInv /\ [Next]_vars => RotationInv'
<1> SUFFICES ASSUME TypeInv, RotationInv, [Next]_vars PROVE RotationInv'
  OBVIOUS
<1>0. /\ Rotated(options, returned, files, events, started)
      /\ output_full => FullOK(options, returned, files)
      /\ status = "running" /\ options.write => files # <<>>
  BY DEF RotationInv
<1>1. CASE UNCHANGED vars
  <2>1. UNCHANGED <<options, returned, files, events, started, output_full, status>>
    BY <1>1 DEF vars, output
  <2> QED
    BY <1>0, <2>1 DEF RotationInv
<1>2. CASE Finish
  <2>1. UNCHANGED <<options, returned, files, events, started, output_full>>
        /\ status' = "done"
    BY <1>2 DEF Finish, output
  <2> QED
    BY <1>0, <2>1 DEF RotationInv
<1>3. ASSUME NEW b, QuietStep(b) PROVE RotationInv'
  <2>1. UNCHANGED <<options, returned, files, events, started, output_full>>
        /\ status = "running"
    BY <1>3 DEF QuietStep, Fed, output
  <2> QED
    BY <1>0, <2>1 DEF RotationInv
<1>4. ASSUME NEW b, NEW e, EventStep(b, e) PROVE RotationInv'
  <2>1. options' = options /\ status = "running" /\ e \in EventTypes(Nat) /\ ConsumeEvent(e)
    BY <1>4 DEF EventStep, Fed
  <2>2. PICK what \in Whats, latency \in Seq(Nat), file \in Nat :
           Outcome(e, latency, what, file) /\ Filed(e, what, file)
    BY <2>1, FilesEffect
  <2>3. PICK n \in Nat : n = Len(returned)
    BY DEF TypeInv
  <2>4. OneMore(returned, returned', n, e, file)
        /\ returned'[n + 1].what = what /\ n + 1 \in DOMAIN (returned')
    BY <2>1, <2>2, <2>3, EventReturned DEF OneMore
  <2>5. PICK new : new = returned'
    OBVIOUS
  <2>6. OneMore(returned, new, n, e, file) /\ new[n + 1].what = what /\ n + 1 \in DOMAIN new
    BY <2>4, <2>5
  <2>7. files \in Seq(WriterTypes) /\ options \in Scenarios
    BY DEF TypeInv
  <2>8. CASE file = 0 /\ UNCHANGED <<files, events, started>>
    <3>1. Rotated(options, new, files, events, started)
      BY <1>0, <2>6, <2>7, <2>8, RotatedKept
    <3>2. output_full => FullOK(options, new, files)
      BY <1>0, <2>6, <2>8, FullStays
    <3>3. CASE output_full' = output_full
      BY <1>0, <2>1, <2>5, <2>8, <3>1, <3>2, <3>3 DEF RotationInv
    <3>4. CASE what = "full" /\ Full(e) /\ options.write
      <4>1. files # <<>>
        BY <1>0, <2>1, <3>4
      <4>2. PICK len \in Nat : len = Len(files) /\ len # 0
        BY <2>7, <4>1
      <4>3. events # 0
            /\ AtLimit(options, FirstTime(returned, len), files[len].blocks, e.timestamp)
        BY <2>1, <3>4, <4>1, <4>2, DueIsLimit DEF Full
      <4>4. Held(returned, len) # {}
        BY <1>0, <4>1, <4>2, <4>3 DEF Rotated
      <4>5. Held(new, len) # {} /\ FirstTime(new, len) = FirstTime(returned, len)
        BY <2>6, <4>4, FirstStays
      <4>6. options.max_files # <<>> /\ len = options.max_files[1]
        <5>1. options.max_files # <<>> /\ len >= options.max_files[1]
          BY <3>4, <4>2 DEF Full, Reached
        <5>2. options.max_files[1] \in Nat /\ len <= options.max_files[1]
          BY <1>0, <2>7, <4>2, <5>1, LimitTypes DEF Rotated
        <5> QED
          BY <5>1, <5>2
      <4>7. new[n + 1].event = e
        BY <2>6 DEF OneMore
      <4>8. FullOK(options, new, files)
        BY <2>6, <3>4, <4>1, <4>2, <4>3, <4>5, <4>6, <4>7 DEF FullOK
      <4> QED
        BY <2>1, <2>5, <2>8, <3>1, <4>1, <4>8 DEF RotationInv
    <3> QED
      BY <2>2, <2>8, <3>3, <3>4 DEF Filed
  <2>9. CASE file = Len(files') /\ Write(e) /\ ~Full(e) /\ options.write
             /\ ~output_full /\ output_full' = output_full
    <3>1. files # <<>>
      BY <1>0, <2>1, <2>9
    <3>2. Rotated(options, returned', files', events', started') /\ files' # <<>>
      BY <2>1, <2>4, <2>9, <3>1, RotationWritten
    <3> QED
      BY <2>1, <2>9, <3>2 DEF RotationInv
  <2> QED
    BY <2>2, <2>8, <2>9 DEF Filed
<1> QED
  BY <1>1, <1>2, <1>3, <1>4, Steps

\* The events of a file, by their places in the input.
LEMMA HeldIsInFile ==
    ASSUME TypeInv, HistoryInv, NEW k
    PROVE  /\ InFile(k) = {At(n) : n \in Held(returned, k)}
           /\ Cardinality(InFile(k)) = Cardinality(Held(returned, k))
           /\ Held(returned, k) # {} =>
                 EventAt(Min(InFile(k))) = returned[Min(Held(returned, k))].event
<1>0. PICK held : held = Held(returned, k)
  OBVIOUS
<1>1. InFile(k) = {At(n) : n \in held}
  BY <1>0 DEF InFile, Held
<1>2. held \subseteq DOMAIN returned /\ held \in SUBSET Nat
  BY <1>0 DEF Held, TypeInv
<1>3. \A n \in held : At(n) \in Nat
  BY <1>2 DEF HistoryInv, Packets, TypeInv
<1>4. \A m, n \in held : m < n => At(m) < At(n)
  BY <1>2 DEF HistoryInv
<1>5. Cardinality(InFile(k)) = Cardinality(held)
  <2> DEFINE at == [n \in held |-> At(n)]
  <2>1. at \in [held -> InFile(k)]
    BY <1>1
  <2>2. \A m, n \in held : at[m] = at[n] => m = n
    <3> SUFFICES ASSUME NEW m \in held, NEW n \in held, at[m] = at[n] PROVE m = n
      OBVIOUS
    <3>1. At(m) = At(n) /\ At(m) \in Nat /\ At(n) \in Nat /\ m \in Nat /\ n \in Nat
      BY <1>2, <1>3
    <3>2. ~(m < n) /\ ~(n < m)
      BY <1>4, <3>1
    <3> QED
      BY <3>1, <3>2
  <2>3. \A i \in InFile(k) : \E n \in held : at[n] = i
    BY <1>1
  <2> HIDE DEF at
  <2>4. at \in Bijection(held, InFile(k))
    <3>1. at \in Injection(held, InFile(k))
      BY <2>1, <2>2 DEF Injection, IsInjective
    <3>2. at \in Surjection(held, InFile(k))
      BY <2>1, <2>3 DEF Surjection
    <3> QED
      BY <3>1, <3>2 DEF Bijection
  <2>5. ExistsBijection(held, InFile(k))
    BY <2>4 DEF ExistsBijection
  <2>6. IsFiniteSet(held)
    <3>1. PICK n \in Nat : n = Len(returned)
      BY DEF TypeInv
    <3>2. DOMAIN returned = 1 .. n
      BY <3>1 DEF TypeInv
    <3>3. IsFiniteSet(1 .. n)
      BY FS_Interval
    <3> QED
      BY <1>2, <3>2, <3>3, FS_Subset
  <2> QED
    BY <2>5, <2>6, FS_Bijection
<1>6. ASSUME held # {} PROVE EventAt(Min(InFile(k))) = returned[Min(held)].event
  <2>1. PICK n \in held : n = Min(held) /\ \A x \in held : n <= x
    BY <1>2, <1>6, MinOfPositions
  <2>2. ASSUME NEW i \in InFile(k) PROVE At(n) <= i
    <3>1. PICK m \in held : i = At(m)
      BY <1>1
    <3>2. n <= m /\ n \in Nat /\ m \in Nat /\ At(n) \in Nat /\ At(m) \in Nat
      BY <1>2, <1>3, <2>1
    <3>3. n = m \/ At(n) < At(m)
      BY <1>4, <3>2
    <3> QED
      BY <3>1, <3>2, <3>3
  <2>3. InFile(k) \in SUBSET Int /\ At(n) \in InFile(k)
    BY <1>1, <1>3
  <2>4. Min(InFile(k)) = At(n)
    BY <2>2, <2>3, MinIs
  <2>5. EventAt(At(n)) = returned[n].event
    BY <1>2, EventFound
  <2> QED
    BY <2>1, <2>4, <2>5
<1> QED
  BY <1>0, <1>1, <1>5, <1>6

\* The invariant says what the property does, of the events by their places.
LEMMA RotationIsExact == TypeInv /\ HistoryInv /\ RotationInv => RotationExact
<1> SUFFICES ASSUME TypeInv, HistoryInv, RotationInv PROVE RotationExact
  OBVIOUS
<1> DEFINE first(k) == EventAt(Min(InFile(k)))
<1>0. /\ Rotated(options, returned, files, events, started)
      /\ output_full => FullOK(options, returned, files)
  BY DEF RotationInv
<1>1. PICK len \in Nat : len = Len(files) /\ DOMAIN files = 1 .. len
  BY DEF TypeInv
<1>2. ASSUME NEW k, Held(returned, k) # {}
      PROVE  /\ first(k) = returned[Min(Held(returned, k))].event
             /\ first(k).timestamp = FirstTime(returned, k)
  BY <1>2, HeldIsInFile DEF FirstTime
<1>3. \A k : InFile(k) = {At(n) : n \in Held(returned, k)}
             /\ Cardinality(InFile(k)) = Cardinality(Held(returned, k))
  BY HeldIsInFile
<1> HIDE DEF first
<1>4. \A k \in 1 .. len : Held(returned, k) = {} => k = 1 /\ len = 1
  <2> SUFFICES ASSUME NEW k \in 1 .. len, Held(returned, k) = {} PROVE k = 1 /\ len = 1
    OBVIOUS
  <2>1. k \notin 1 .. (len - 1)
    BY <1>0, <1>1 DEF Rotated
  <2>2. k = len /\ files # <<>>
    BY <1>1, <2>1
  <2>3. len = 1
    BY <1>0, <1>1, <2>2 DEF Rotated
  <2> QED
    BY <2>2, <2>3
<1>5. ASSUME NEW k \in 1 .. len, InFile(k) = {} PROVE k = 1 /\ len = 1
  BY <1>3, <1>4, <1>5
<1>6. ASSUME NEW k \in 1 .. len
      PROVE  /\ InFile(k) = {files[k].blocks[n].content : n \in PacketsOf(files[k].blocks)}
             /\ Cardinality(InFile(k)) = Cardinality(PacketsOf(files[k].blocks))
             /\ \A n \in PacketsOf(files[k].blocks) :
                   files[k].blocks[n].content # first(k).content =>
                      ~AtLimit(options, first(k).timestamp, Before(files[k].blocks, n),
                               EventAt(files[k].blocks[n].content).timestamp)
  <2>1. FileOK(options, returned, k, files[k])
    BY <1>0, <1>1 DEF Rotated
  <2>2. PICK blocks : blocks = files[k].blocks
    OBVIOUS
  <2>3. /\ Cardinality(Held(returned, k)) = Cardinality(PacketsOf(blocks))
        /\ \A n \in PacketsOf(blocks) : InPlace(options, returned, k, blocks, n)
        /\ \A m \in Held(returned, k) : \E n \in PacketsOf(blocks) :
              blocks[n].content = At(m)
    BY <2>1, <2>2 DEF FileOK, At
  <2>4. ASSUME NEW n \in PacketsOf(blocks)
        PROVE  \E m \in Held(returned, k) :
                  /\ blocks[n].content = At(m)
                  /\ \/ m = Min(Held(returned, k))
                     \/ ~AtLimit(options, FirstTime(returned, k), Before(blocks, n),
                                 returned[m].event.timestamp)
    BY <2>3 DEF InPlace, At
  <2>5. InFile(k) = {blocks[n].content : n \in PacketsOf(blocks)}
    <3>1. \A i \in InFile(k) : \E n \in PacketsOf(blocks) : i = blocks[n].content
      BY <1>3, <2>3
    <3>2. \A n \in PacketsOf(blocks) : blocks[n].content \in InFile(k)
      BY <1>3, <2>4
    <3> QED
      BY <3>1, <3>2
  <2>6. ASSUME NEW n \in PacketsOf(blocks), blocks[n].content # first(k).content
        PROVE  ~AtLimit(options, first(k).timestamp, Before(blocks, n),
                        EventAt(blocks[n].content).timestamp)
    <3>1. PICK m \in Held(returned, k) :
             /\ blocks[n].content = At(m)
             /\ \/ m = Min(Held(returned, k))
                \/ ~AtLimit(options, FirstTime(returned, k), Before(blocks, n),
                            returned[m].event.timestamp)
      BY <2>4
    <3>2. /\ first(k) = returned[Min(Held(returned, k))].event
          /\ first(k).timestamp = FirstTime(returned, k)
      BY <1>2
    <3>3. m # Min(Held(returned, k))
      BY <2>6, <3>1, <3>2 DEF At
    <3>4. EventAt(At(m)) = returned[m].event
      BY EventFound DEF Held
    <3> QED
      BY <3>1, <3>2, <3>3, <3>4
  <2> QED
    BY <1>3, <2>2, <2>3, <2>5, <2>6
<1>7. ASSUME NEW k \in 1 .. len, k > 1
      PROVE  AtLimit(options, first(k - 1).timestamp, files[k - 1].blocks, first(k).timestamp)
  <2>1. k - 1 \in 1 .. (len - 1) /\ (k - 1) + 1 = k
    BY <1>7
  <2>2. /\ Held(returned, k - 1) # {}
        /\ AtLimit(options, FirstTime(returned, k - 1), files[k - 1].blocks,
                   FirstTime(returned, k))
    BY <1>0, <1>1, <2>1 DEF Rotated
  <2>3. Held(returned, k) # {}
    BY <1>4, <1>7
  <2> QED
    BY <1>2, <2>2, <2>3
<1>8. options.max_files # <<>> => len <= options.max_files[1]
  BY <1>0, <1>1 DEF Rotated
<1>9. ASSUME output_full
      PROVE  /\ len = options.max_files[1]
             /\ \E n \in DOMAIN returned :
                   /\ returned[n].what = "full"
                   /\ AtLimit(options, first(len).timestamp, Last(files).blocks,
                              returned[n].event.timestamp)
  <2>1. FullOK(options, returned, files) /\ Last(files) = files[len]
    BY <1>0, <1>1, <1>9 DEF Last
  <2>2. first(len).timestamp = FirstTime(returned, len)
    BY <1>1, <1>2, <2>1 DEF FullOK
  <2> QED
    BY <1>1, <2>1, <2>2 DEF FullOK
<1> USE DEF first
<1>10. \A k \in DOMAIN files :
          /\ InFile(k) = {} => k = 1 /\ Len(files) = 1
          /\ InFile(k) = {files[k].blocks[n].content :
                             n \in {n \in DOMAIN files[k].blocks :
                                       files[k].blocks[n].kind = "packet"}}
          /\ Cardinality(InFile(k))
                = Cardinality({n \in DOMAIN files[k].blocks :
                                  files[k].blocks[n].kind = "packet"})
  BY <1>1, <1>5, <1>6 DEF PacketsOf
<1> QED
  BY <1>1, <1>6, <1>7, <1>8, <1>9, <1>10 DEF RotationExact, AtLimit, Before, PacketsOf

\* The files and the history agree at all times.
THEOREM FilesCorrect == Spec => []RotationInv
<1>1. Init => RotationInv
  BY RotationInit
<1>2. TypeInv /\ RotationInv /\ [Next]_vars => RotationInv'
  BY RotationStep
<1> QED
  BY <1>1, <1>2, HistoryCorrect, PTL DEF Spec

\* Events are never split between files and no file is empty but the first: a file is
\* closed exactly when what it holds has reached the size or the time of -C and -G, and
\* -W is obeyed, for any limits, clocks and sequence of events.
THEOREM RotationCorrect == Spec => []RotationExact
<1>1. TypeInv /\ HistoryInv /\ RotationInv => RotationExact
  BY RotationIsExact
<1> QED
  BY <1>1, HistoryCorrect, FilesCorrect, PTL

-----------------------------------------------------------------------------
(* Reading back one block *)

\* The i-th interface of a written file, as the reader keeps it.
WrittenInterface(i) ==
    [source_id |-> i - 1, linktype |-> USB_LINUX_MMAPPED, units |-> UsPerSecond, offset |-> 0]

\* The reader of a written file with n interfaces, as long as it has not given up.
Ready(r, n) ==
    /\ r \in ReaderTypes /\ ~r.failed /\ r.section /\ r.incomplete = 0
    /\ r.next_source_id = n /\ Len(r.interfaces) = n
    /\ \A i \in 1 .. n : r.interfaces[i] = WrittenInterface(i)

\* A written time is read as whole microseconds.
LEMMA WrittenTime ==
    ASSUME NEW t \in Nat
    PROVE  /\ t \div NsPerUs \in Nat
           /\ (t \div NsPerUs) * NsPerUs \in Nat
           /\ ((t \div NsPerUs) * NsPerUs) \div NsPerUs = t \div NsPerUs
           /\ ((t \div NsPerUs) * NsPerUs) % NsPerUs = 0
           /\ ((t \div NsPerUs) * NsPerSecond) \div UsPerSecond + 0 * NsPerSecond
                 = (t \div NsPerUs) * NsPerUs
<1>1. PICK u \in Nat \ {0} : u = NsPerUs
  BY PcapngAssumption
<1>2. PICK s \in Nat \ {0} : s = UsPerSecond
  BY PcapngAssumption
<1>3. PICK q \in Nat : q = t \div NsPerUs
  BY <1>1
<1>4. PICK p \in Nat : p = q * u
  OBVIOUS
<1>5. p \div u = q /\ p % u = 0
  BY <1>4
<1>6. (q * (u * s)) \div s = p
  <2>1. q * (u * s) = p * s
    BY <1>4
  <2>2. (p * s) \div s = p
    OBVIOUS
  <2> QED
    BY <2>1, <2>2
<1>7. NsPerSecond = u * s /\ u * s \in Nat
  BY <1>1, <1>2 DEF NsPerSecond
<1>8. (q * NsPerSecond) \div s + 0 * NsPerSecond = p
  BY <1>6, <1>7
<1> QED
  BY <1>1, <1>2, <1>3, <1>4, <1>5, <1>8

\* A further interface of the file.
LEMMA ReadWrittenInterface ==
    ASSUME NEW n \in Nat, NEW r, Ready(r, n)
    PROVE  LET new == ReadBlock(r, OutputInterface)
           IN  Ready(new, n + 1) /\ new.requested = r.requested /\ new.event = <<>>
<1> DEFINE q == [r EXCEPT !.event = <<>>]
           new == ReadBlock(r, OutputInterface)
           i == [source_id |-> n, linktype |-> USB_LINUX_MMAPPED, units |-> UsPerSecond,
                 offset |-> 0]
<1>0. /\ r \in ReaderTypes /\ ~r.failed /\ r.section /\ r.incomplete = 0
      /\ r.next_source_id = n /\ Len(r.interfaces) = n
      /\ \A k \in 1 .. n : r.interfaces[k] = WrittenInterface(k)
  BY DEF Ready
<1>1. /\ q \in ReaderTypes /\ ~q.failed /\ q.event = <<>> /\ q.section
      /\ q.interfaces = r.interfaces /\ q.next_source_id = n
      /\ q.requested = r.requested /\ q.incomplete = 0
  <2>1. <<>> \in Seq(EventTypes(Nat))
    OBVIOUS
  <2>2. q \in ReaderTypes
    BY <1>0, <2>1, ReaderUpdated
  <2> QED
    BY <1>0, <2>2 DEF ReaderTypes
<1>2. OutputInterface.kind = "interface"
  BY DEF OutputInterface, Interface
<1>3. new = ReadInterface(q, OutputInterface)
  BY <1>1, <1>2 DEF ReadBlock
<1>4. new = [q EXCEPT !.interfaces = Append(q.interfaces, i), !.next_source_id = n + 1]
  BY <1>1, <1>3 DEF ReadInterface, OutputInterface, Interface
<1>5. i \in InterfaceTypes /\ i = WrittenInterface(n + 1)
  BY PcapngAssumption DEF InterfaceTypes, WrittenInterface, USB_LINUX_MMAPPED
<1> HIDE DEF i
<1>6. Append(q.interfaces, i) \in Seq(InterfaceTypes) /\ n + 1 \in Nat
  BY <1>1, <1>5 DEF ReaderTypes
<1>7. new \in ReaderTypes
  <2> HIDE DEF q, new
  <2> QED
    BY <1>1, <1>4, <1>6, ReaderUpdated
<1>8. /\ new.interfaces = Append(r.interfaces, i) /\ new.next_source_id = n + 1
      /\ ~new.failed /\ new.section /\ new.incomplete = 0
      /\ new.requested = r.requested /\ new.event = <<>>
  BY <1>1, <1>4 DEF ReaderTypes
<1> HIDE DEF q, new
<1>9. /\ Len(new.interfaces) = n + 1 /\ new.interfaces[n + 1] = i
      /\ \A k \in 1 .. n : new.interfaces[k] = r.interfaces[k]
  <2>1. r.interfaces \in Seq(InterfaceTypes)
    BY <1>0 DEF ReaderTypes
  <2> QED
    BY <1>0, <1>5, <1>8, <2>1
<1>10. \A k \in 1 .. (n + 1) : new.interfaces[k] = WrittenInterface(k)
  <2>1. \A k \in 1 .. (n + 1) : k \in 1 .. n \/ k = n + 1
    OBVIOUS
  <2> QED
    BY <1>0, <1>5, <1>9, <2>1
<1>11. Ready(new, n + 1)
  BY <1>7, <1>8, <1>9, <1>10 DEF Ready
<1> QED
  BY <1>8, <1>11 DEF new

\* The reader gives up on the packet of an event: its table is full, or a frame lies
\* outside the buffer that the table has for it.
Refused(r, index, e) ==
    IF e.event_type = "S" THEN Cardinality(DOMAIN r.requested) >= MaxUnmatched
    ELSE /\ RequestKey(index, e.urb_id) \in DOMAIN r.requested
         /\ \E f \in Range(e.frames) :
               f.offset + f.length > r.requested[RequestKey(index, e.urb_id)]

\* The event that is read when e was written to an interface.
BackOf(r, index, e, x) ==
    /\ x \in EventTypes(Nat) /\ x.source_id = index
    /\ x.content = e.content /\ x.urb_id = e.urb_id /\ x.event_type = e.event_type
    /\ x.event_type = "S" => x.requested_len = e.requested_len
    /\ Kept(x) = Kept(e) /\ x.timestamp % NsPerUs = 0
    /\ e.event_type # "S" =>
          /\ x.requested_known <=> RequestKey(index, e.urb_id) \in DOMAIN r.requested
          /\ x.requested_known => x.requested_len = r.requested[RequestKey(index, e.urb_id)]

\* What becomes of the reader.
ReadOn(r, n, index, e, new) ==
    IF Refused(r, index, e)
    THEN new \in ReaderTypes /\ new.failed /\ new.incomplete = 0 /\ new.event = <<>>
    ELSE /\ Ready(new, n)
         /\ new.requested = IF e.event_type = "S"
                            THEN Inserted(r.requested, RequestKey(index, e.urb_id), e.requested_len)
                            ELSE Removed(r.requested, RequestKey(index, e.urb_id))
         /\ \E x : new.event = <<x>> /\ BackOf(r, index, e, x)

\* What next_event() does with the packet of an event that can be read.
LEMMA ReadWrittenPacket ==
    ASSUME NEW n \in Nat, NEW r, Ready(r, n), NEW e \in EventTypes(Nat), WholeEvent(e),
           NEW index \in Nat, index < n
    PROVE  ReadOn(r, n, index, e, ReadBlock(r, Packet(e, index)))
<1> DEFINE q == [r EXCEPT !.event = <<>>]
           new == ReadBlock(r, Packet(e, index))
           key == RequestKey(index, e.urb_id)
           i == WrittenInterface(index + 1)
           submission == e.event_type = "S"
           requested == IF submission THEN <<WireLen(e)>>
                        ELSE IF key \in DOMAIN r.requested THEN <<r.requested[key]>>
                        ELSE <<>>
           after == IF submission THEN Inserted(r.requested, key, WireLen(e))
                    ELSE Removed(r.requested, key)
           time == (e.timestamp \div NsPerUs) * NsPerUs
           x == [source_id |-> index, urb_id |-> e.urb_id,
                 event_type |-> e.event_type, in |-> e.in, iso |-> e.iso,
                 timestamp |-> time,
                 requested_len |-> IF requested = <<>> THEN 0 ELSE requested[1],
                 actual_len |-> IF submission THEN 0 ELSE WireLen(e),
                 has_data |-> e.has_data, payload_len |-> e.payload_len,
                 frames |-> e.frames, content |-> e.content,
                 identity_known |-> FALSE,
                 requested_known |-> requested # <<>>]
<1>0. /\ r \in ReaderTypes /\ ~r.failed /\ r.section /\ r.incomplete = 0
      /\ r.next_source_id = n /\ Len(r.interfaces) = n
      /\ \A k \in 1 .. n : r.interfaces[k] = WrittenInterface(k)
  BY DEF Ready
<1>1. /\ q \in ReaderTypes /\ ~q.failed /\ q.event = <<>> /\ q.section
      /\ q.interfaces = r.interfaces /\ q.next_source_id = n
      /\ q.requested = r.requested /\ q.incomplete = 0
  <2>1. <<>> \in Seq(EventTypes(Nat))
    OBVIOUS
  <2>2. q \in ReaderTypes
    BY <1>0, <2>1, ReaderUpdated
  <2> QED
    BY <1>0, <2>2 DEF ReaderTypes
<1> HIDE DEF q
<1>2. PICK p : p = Packet(e, index)
  OBVIOUS
<1>3. /\ p.kind = "packet" /\ p.interface = index /\ p.ticks = e.timestamp \div NsPerUs
      /\ ~p.cut /\ p.urb_id = e.urb_id /\ p.event_type = e.event_type
      /\ p.in = e.in /\ p.iso = e.iso /\ p.has_data = e.has_data /\ p.wire_len = WireLen(e)
      /\ p.payload_len = e.payload_len /\ p.frames = e.frames /\ p.content = e.content
  BY <1>2 DEF Packet
<1>4. new = ReadPacket(q, p)
  BY <1>1, <1>2, <1>3 DEF ReadBlock, q
<1>5. q.interfaces[index + 1] = i /\ Len(q.interfaces) = n
  <2>1. index + 1 \in 1 .. n
    OBVIOUS
  <2> QED
    BY <1>0, <1>1, <2>1
<1>6. /\ i.source_id = index /\ i.linktype = USB_LINUX_MMAPPED
      /\ i.units = UsPerSecond /\ i.offset = 0
  BY DEF WrittenInterface
<1> HIDE DEF i
<1>7. PacketTime(i, p) = time /\ time \in Nat
  <2>1. e.timestamp \in Nat
    BY DEF EventTypes
  <2> QED
    BY <1>3, <1>6, <2>1, WrittenTime DEF PacketTime
<1> HIDE DEF time
<1>8. /\ e.requested_len \in Nat /\ e.actual_len \in Nat /\ e.urb_id \in Nat
      /\ WireLen(e) \in Nat /\ (submission => WireLen(e) = e.requested_len)
      /\ (~submission => WireLen(e) = e.actual_len)
  BY DEF EventTypes, WireLen
<1>9. ValidPacket(p) /\ ~Omitted(p)
  BY <1>3 DEF WholeEvent, ValidPacket, Omitted, DataPhase
<1>10. FramesFit(p, requested) <=> submission \/ ~Refused(r, index, e)
  <2>1. \A f \in Range(e.frames) : e.has_data /\ f.length # 0 => f.offset + f.length <= e.payload_len
    BY DEF WholeEvent
  <2>2. CASE submission
    <3>1. \A f \in Range(e.frames) : f.offset + f.length <= requested[1]
      BY <1>8, <2>2 DEF WholeEvent
    <3> QED
      BY <1>3, <2>1, <2>2, <3>1 DEF FramesFit
  <2>3. CASE ~submission /\ key \in DOMAIN r.requested
    <3>1. requested # <<>> /\ requested[1] = r.requested[key] /\ r.requested[key] \in Nat
      BY <1>0, <2>3, TableEntries DEF ReaderTypes
    <3>2. ASSUME NEW f \in Range(e.frames)
          PROVE  f.offset + f.length <= r.requested[key] <=> ~(f.offset + f.length > r.requested[key])
      <4>1. PICK k \in DOMAIN e.frames : f = e.frames[k]
        BY DEF Range
      <4>2. f \in FrameTypes
        BY <4>1 DEF EventTypes
      <4>3. f.offset \in Nat /\ f.length \in Nat
        BY <4>2 DEF FrameTypes
      <4> QED
        BY <3>1, <4>3
    <3> HIDE DEF requested
    <3>3. FramesFit(p, requested) <=> \A f \in Range(e.frames) : f.offset + f.length <= r.requested[key]
      BY <1>3, <2>1, <3>1 DEF FramesFit
    <3>4. Refused(r, index, e) <=> \E f \in Range(e.frames) : f.offset + f.length > r.requested[key]
      BY <2>3 DEF Refused
    <3> QED
      BY <2>3, <3>2, <3>3, <3>4
  <2>4. CASE ~submission /\ key \notin DOMAIN r.requested
    BY <1>3, <2>1, <2>4 DEF FramesFit, Refused
  <2> QED
    BY <2>2, <2>3, <2>4
<1>11. Refused(r, index, e) <=> \/ submission /\ Cardinality(DOMAIN r.requested) >= MaxUnmatched
                               \/ ~FramesFit(p, requested)
  BY <1>10 DEF Refused
<1>12. index < n /\ ~(index >= n) /\ ~(time < 0)
  BY <1>7
<1>13. CASE Refused(r, index, e)
  <2>1. new = [q EXCEPT !.failed = TRUE]
    BY <1>1, <1>3, <1>4, <1>5, <1>6, <1>7, <1>9, <1>11, <1>12, <1>13 DEF ReadPacket
  <2>2. new \in ReaderTypes /\ new.failed /\ new.incomplete = 0 /\ new.event = <<>>
    BY <1>1, <2>1 DEF ReaderTypes
  <2> QED
    BY <1>13, <2>2 DEF ReadOn
<1>14. CASE ~Refused(r, index, e)
  <2>1. new = [q EXCEPT !.requested = after, !.event = <<x>>]
    BY <1>1, <1>3, <1>4, <1>5, <1>6, <1>7, <1>9, <1>11, <1>12, <1>14 DEF ReadPacket
  <2>2. key \in Nat \X Nat /\ r.requested \in Tables
    BY <1>0, <1>8 DEF RequestKey, ReaderTypes
  <2>3. after \in Tables
    BY <1>8, <2>2, TablesStay
  <2>4. requested \in Seq(Nat) /\ Len(requested) <= 1
    BY <1>8, <2>2, TableEntries
  <2>5. x \in EventTypes(Nat)
    <3>1. x.requested_len \in Nat /\ x.actual_len \in Nat
      BY <1>8, <2>4
    <3> QED
      BY <1>7, <3>1 DEF EventTypes
  <2>6. Kept(x) = Kept(e) /\ x.timestamp % NsPerUs = 0
    <3>1. time \div NsPerUs = e.timestamp \div NsPerUs /\ time % NsPerUs = 0
      BY WrittenTime DEF time, EventTypes
    <3>2. (IF x.event_type = "S" THEN x.requested_len ELSE x.actual_len)
             = IF e.event_type = "S" THEN e.requested_len ELSE e.actual_len
      BY <1>8
    <3>3. /\ x.content = e.content /\ x.urb_id = e.urb_id /\ x.event_type = e.event_type
          /\ x.in = e.in /\ x.iso = e.iso /\ x.timestamp = time /\ x.has_data = e.has_data
          /\ x.payload_len = e.payload_len /\ x.frames = e.frames
      OBVIOUS
    <3> HIDE DEF x
    <3> QED
      BY <3>1, <3>2, <3>3 DEF Kept
  <2>7. BackOf(r, index, e, x)
    <3>1. e.event_type # "S" =>
             /\ x.requested_known <=> key \in DOMAIN r.requested
             /\ x.requested_known => x.requested_len = r.requested[key]
      OBVIOUS
    <3>2. /\ x.source_id = index /\ x.content = e.content /\ x.urb_id = e.urb_id
          /\ x.event_type = e.event_type
          /\ x.event_type = "S" => x.requested_len = e.requested_len
      BY <1>8
    <3> HIDE DEF x
    <3> QED
      BY <2>5, <2>6, <3>1, <3>2 DEF BackOf
  <2>8. /\ new.requested = after /\ new.event = <<x>>
        /\ new.interfaces = r.interfaces /\ new.next_source_id = n
        /\ ~new.failed /\ new.section /\ new.incomplete = 0
    BY <1>1, <2>1 DEF ReaderTypes
  <2>9. new \in ReaderTypes
    <3>1. <<x>> \in Seq(EventTypes(Nat))
      BY <2>5
    <3> HIDE DEF after, x, new
    <3> QED
      BY <1>1, <2>1, <2>3, <3>1, ReaderUpdated
  <2>10. Ready(new, n)
    <3> HIDE DEF new, after, x
    <3> QED
      BY <1>0, <2>8, <2>9 DEF Ready
  <2>11. after = IF e.event_type = "S" THEN Inserted(r.requested, key, e.requested_len)
                 ELSE Removed(r.requested, key)
    BY <1>8
  <2> HIDE DEF new, after, x
  <2>12. ReadOn(r, n, index, e, new)
    BY <1>14, <2>7, <2>8, <2>10, <2>11 DEF ReadOn
  <2> QED
    BY <2>12 DEF new
<1> QED
  BY <1>13, <1>14

-----------------------------------------------------------------------------
(* Reading back a file *)

\* The states of reading back.
BackTypes == [reader : ReaderTypes, events : Seq(EventTypes(Nat))]

BackNew == [reader |-> ReaderNew, events |-> <<>>]

\* One block more.
BackNext(sum, b) ==
    LET r == ReadBlock(sum.reader, b)
    IN  [reader |-> r, events |-> sum.events \o r.event]

\* The same as a function.
ReadOne == [p \in BackTypes \X WrittenBlocks |-> BackNext(p[1], p[2])]

\* A reader stays a reader, also one that has given up.
LEMMA ReadBlockType ==
    ASSUME NEW r \in ReaderTypes, NEW b \in BlockTypes
    PROVE  /\ ReadBlock(r, b) \in ReaderTypes
           /\ r.failed => ReadBlock(r, b) = [r EXCEPT !.event = <<>>]
<1>1. CASE r.failed
  <2>1. <<>> \in Seq(EventTypes(Nat))
    OBVIOUS
  <2>2. [r EXCEPT !.event = <<>>] \in ReaderTypes
    BY <2>1, ReaderUpdated
  <2>3. [r EXCEPT !.event = <<>>].failed
    BY <1>1 DEF ReaderTypes
  <2>4. ReadBlock(r, b) = [r EXCEPT !.event = <<>>]
    BY <2>3 DEF ReadBlock
  <2> QED
    BY <2>2, <2>4
<1>2. CASE ~r.failed
  BY <1>2, ReadEffect
<1> QED
  BY <1>1, <1>2

\* What BackNext does.
LEMMA BackNextIs ==
    ASSUME NEW sum \in BackTypes, NEW b \in WrittenBlocks
    PROVE  /\ BackNext(sum, b) \in BackTypes
           /\ BackNext(sum, b).reader = ReadBlock(sum.reader, b)
           /\ BackNext(sum, b).events = sum.events \o ReadBlock(sum.reader, b).event
<1>1. sum.reader \in ReaderTypes /\ sum.events \in Seq(EventTypes(Nat)) /\ b \in BlockTypes
  BY DEF BackTypes, WrittenBlocks
<1>2. PICK r \in ReaderTypes : r = ReadBlock(sum.reader, b)
  BY <1>1, ReadBlockType
<1>3. r.event \in Seq(EventTypes(Nat))
  BY DEF ReaderTypes
<1>4. PICK evs \in Seq(EventTypes(Nat)) : evs = sum.events \o r.event
  <2>1. sum.events \o r.event \in Seq(EventTypes(Nat))
    BY <1>1, <1>3
  <2> QED
    BY <2>1, Zenon
<1>5. BackNext(sum, b) = [reader |-> r, events |-> evs]
  BY <1>2, <1>4 DEF BackNext
<1>6. [reader |-> r, events |-> evs] \in BackTypes
  BY DEF BackTypes
<1>7. BackNext(sum, b).reader = r /\ BackNext(sum, b).events = evs
  BY <1>5
<1>8. BackNext(sum, b).events = sum.events \o ReadBlock(sum.reader, b).event
  BY <1>2, <1>4, <1>7
<1> QED
  BY <1>2, <1>5, <1>6, <1>7, <1>8

\* It keeps the types.
LEMMA ReadOneType == ReadOne \in [BackTypes \X WrittenBlocks -> BackTypes]
<1>1. \A p \in BackTypes \X WrittenBlocks : BackNext(p[1], p[2]) \in BackTypes
  <2> SUFFICES ASSUME NEW p \in BackTypes \X WrittenBlocks
               PROVE  BackNext(p[1], p[2]) \in BackTypes
    OBVIOUS
  <2>1. p[1] \in BackTypes /\ p[2] \in WrittenBlocks
    OBVIOUS
  <2> QED
    BY <2>1, BackNextIs
<1> QED
  BY <1>1 DEF ReadOne

\* The state before the first block.
LEMMA BackNewType == BackNew \in BackTypes
<1>1. <<>> \in Seq(EventTypes(Nat))
  OBVIOUS
<1> QED
  BY <1>1, ReaderNewType DEF BackNew, BackTypes

\* ReadBack is a fold of this function.
LEMMA BackFolded ==
    ASSUME NEW w \in Seq(WrittenBlocks)
    PROVE  \E g : Folded(g, BackTypes, ReadOne, BackNew, w, Len(w)) /\ ReadBack(w) = g[Len(w)]
<1>1. PICK n \in Nat : n = Len(w)
  OBVIOUS
<1>2. DOMAIN w = 1 .. n /\ \A k \in 1 .. n : w[k] \in WrittenBlocks
  BY <1>1
<1> DEFINE Body(it) == [s \in SUBSET (DOMAIN w) |->
                           IF s = {} THEN BackNew ELSE BackNext(it[s \ {Max(s)}], w[Max(s)])]
           iter == CHOOSE it : it = Body(it)
<1>3. ReadBack(w) = iter[DOMAIN w]
  BY DEF ReadBack, FoldLeft, MapThenFoldSet, BackNext, BackNew
<1>4. PICK jt : IteratesTo(jt, BackTypes, ReadOne, BackNew, w, n)
  <2>1. \E it : IteratesTo(it, BackTypes, ReadOne, BackNew, w, Len(w))
    BY ReadOneType, BackNewType, IterateExists
  <2> QED
    BY <1>1, <2>1
<1>5. iter = Body(iter)
  <2>1. \A s \in SUBSET (1 .. n) : jt[s] \in BackTypes /\ jt[s] = Round(jt, ReadOne, BackNew, w, s)
    BY <1>4 DEF IteratesTo
  <2>2. ASSUME NEW s \in SUBSET (1 .. n)
        PROVE  jt[s] = IF s = {} THEN BackNew ELSE BackNext(jt[s \ {Max(s)}], w[Max(s)])
    <3>1. CASE s = {}
      BY <2>1, <3>1 DEF Round
    <3>2. CASE s # {}
      <4>1. s \ {Max(s)} \in SUBSET (1 .. n) /\ Max(s) \in 1 .. n
        BY <3>2, MaxOfPositions
      <4>2. <<jt[s \ {Max(s)}], w[Max(s)]>> \in BackTypes \X WrittenBlocks
        BY <1>2, <2>1, <4>1
      <4>3. ReadOne[<<jt[s \ {Max(s)}], w[Max(s)]>>] = BackNext(jt[s \ {Max(s)}], w[Max(s)])
        BY <4>2 DEF ReadOne
      <4> QED
        BY <2>1, <3>2, <4>3 DEF Round
    <3> QED
      BY <3>1, <3>2
  <2>3. jt = Body(jt)
    BY <1>2, <1>4, <2>2 DEF IteratesTo
  <2> HIDE DEF Body
  <2> QED
    BY <2>3
<1> HIDE DEF iter
<1>6. \A s \in SUBSET (1 .. n) :
         iter[s] = IF s = {} THEN BackNew ELSE BackNext(iter[s \ {Max(s)}], w[Max(s)])
  BY <1>2, <1>5
<1> DEFINE g == [k \in 0 .. n |-> iter[1 .. k]]
<1>7. g[0] = BackNew
  <2>1. 1 .. 0 = {} /\ {} \in SUBSET (1 .. n) /\ 0 \in 0 .. n
    OBVIOUS
  <2>2. iter[{}] = BackNew
    BY <1>6, <2>1
  <2>3. g[0] = iter[1 .. 0]
    BY <2>1
  <2> QED
    BY <2>1, <2>2, <2>3
<1>8. ASSUME NEW k \in 1 .. n, g[k - 1] \in BackTypes PROVE g[k] = ReadOne[<<g[k - 1], w[k]>>]
  <2>1. /\ 1 .. k \in SUBSET (1 .. n) /\ 1 .. k # {}
        /\ Max(1 .. k) = k /\ (1 .. k) \ {k} = 1 .. (k - 1)
    BY FirstPositions
  <2>2. iter[1 .. k] = BackNext(iter[1 .. (k - 1)], w[k])
    BY <1>6, <2>1
  <2>3. k \in 0 .. n /\ k - 1 \in 0 .. n
    OBVIOUS
  <2>4. g[k] = BackNext(g[k - 1], w[k])
    BY <2>2, <2>3
  <2>5. <<g[k - 1], w[k]>> \in BackTypes \X WrittenBlocks
    BY <1>2, <1>8
  <2> HIDE DEF g
  <2> QED
    BY <2>4, <2>5 DEF ReadOne
<1>9. ReadBack(w) = g[n]
  BY <1>2, <1>3
<1> HIDE DEF g
<1>10. Folded(g, BackTypes, ReadOne, BackNew, w, n)
  BY <1>7, <1>8 DEF Folded
<1> QED
  BY <1>1, <1>9, <1>10

\* Each further block is read after the others.
LEMMA BackMore ==
    ASSUME NEW w \in Seq(WrittenBlocks), NEW b \in WrittenBlocks
    PROVE  ReadBack(w) \in BackTypes /\ ReadBack(Append(w, b)) = BackNext(ReadBack(w), b)
<1>1. PICK v : v = Append(w, b)
  OBVIOUS
<1>2. v \in Seq(WrittenBlocks) /\ Len(v) = Len(w) + 1
  BY <1>1
<1>3. PICK g : Folded(g, BackTypes, ReadOne, BackNew, w, Len(w)) /\ ReadBack(w) = g[Len(w)]
  BY BackFolded
<1>4. PICK h : Folded(h, BackTypes, ReadOne, BackNew, v, Len(v)) /\ ReadBack(v) = h[Len(v)]
  BY <1>2, BackFolded
<1>5. Extended(v, w, b)
  BY <1>1 DEF Extended
<1>6. FoldsOn(g, h, BackTypes, ReadOne, w, v, b)
  BY <1>3, <1>4, <1>5, BackNewType, ReadOneType, FoldedAppend
<1>7. g[Len(w)] \in BackTypes /\ h[Len(v)] = ReadOne[<<g[Len(w)], b>>]
  BY <1>6 DEF FoldsOn
<1>8. ReadOne[<<g[Len(w)], b>>] = BackNext(g[Len(w)], b)
  BY <1>7 DEF ReadOne
<1> QED
  BY <1>1, <1>3, <1>4, <1>7, <1>8

\* Before the first block.
LEMMA NoBack == ReadBack(<<>>) = BackNew
<1>1. <<>> \in Seq(WrittenBlocks) /\ Len(<<>>) = 0
  OBVIOUS
<1>2. PICK g : /\ Folded(g, BackTypes, ReadOne, BackNew, <<>>, Len(<<>>))
              /\ ReadBack(<<>>) = g[Len(<<>>)]
  BY <1>1, BackFolded, Zenon
<1> QED
  BY <1>1, <1>2 DEF Folded

-----------------------------------------------------------------------------
(* What reading back gives *)

\* The inputs whose events went into a file.
Inputs(ret, k) == {ret[m].event.content : m \in Held(ret, k)}

\* How many interfaces a file has: that of the header, and one for each further source.
Interfaces(ifs) == IF DOMAIN ifs = {} THEN 1 ELSE Cardinality(DOMAIN ifs)

\* The sources of a file have interfaces of their own.
IndexesOK(ret, k, ifs) ==
    /\ ifs \in SourceMaps
    /\ DOMAIN ifs = {ret[m].event.source_id : m \in Held(ret, k)}
    /\ \A a, b \in DOMAIN ifs : ifs[a] = ifs[b] => a = b
    /\ \A a \in DOMAIN ifs : ifs[a] < Cardinality(DOMAIN ifs)

\* The reader gives up at this event.
Bad(off, s, ret, inputs, e) ==
    IF e.event_type = "S"
    THEN Cardinality(OpenIn(off, s, {j \in inputs : j < e.content})) >= MaxUnmatched
    ELSE \E m \in DOMAIN ret :
            /\ ret[m].event.content \in PartnerIn(off, s, e.content, inputs)
            /\ \E f \in Range(e.frames) : f.offset + f.length > ret[m].event.requested_len

\* x was paired with its submission, if that is in the file.
PairBack(off, s, ret, inputs, x) ==
    x.event_type # "S" =>
       /\ x.requested_known <=> PartnerIn(off, s, x.content, inputs) # {}
       /\ \A m \in DOMAIN ret :
             ret[m].event.content \in PartnerIn(off, s, x.content, inputs) =>
                x.requested_len = ret[m].event.requested_len

\* x is what was read when e was written.
SameEvent(e, ifs, x) ==
    /\ x.content = e.content /\ x.urb_id = e.urb_id /\ x.event_type = e.event_type
    /\ x.source_id = ifs[e.source_id]
    /\ x.event_type = "S" => x.requested_len = e.requested_len
    /\ Kept(x) = Kept(e) /\ x.timestamp % NsPerUs = 0

\* The i-th of the events that were read is the i-th that was written.
BackIs(off, s, ret, k, ifs, evs, i) ==
    /\ \E m \in Held(ret, k) : SameEvent(ret[m].event, ifs, evs[i])
    /\ {evs[j].content : j \in 1 .. (i - 1)} = {c \in Inputs(ret, k) : c < evs[i].content}
    /\ PairBack(off, s, ret, Inputs(ret, k), evs[i])

\* Events with their requested length in the place where Opened looks for a time.
Asked(e) ==
    [source_id |-> e.source_id, urb_id |-> e.urb_id, event_type |-> e.event_type,
     content |-> e.content, timestamp |-> e.requested_len]
AskedAll(evs) == [i \in DOMAIN evs |-> [event |-> Asked(evs[i])]]

\* The reader has not given up: it has read everything, and its table holds the open
\* submissions of the file.
Going(off, s, ret, k, ifs, back) ==
    /\ Ready(back.reader, Interfaces(ifs))
    /\ Inputs(ret, k) = {back.events[i].content : i \in DOMAIN back.events}
    /\ Opened(off, s, AskedAll(back.events), Inputs(ret, k), back.reader.requested)

\* The reader gives up at one of a file's events.
Doomed(off, s, ret, k) ==
    \E m \in Held(ret, k) : Bad(off, s, ret, Inputs(ret, k), ret[m].event)

\* What was read is what was written.
AllBack(off, s, ret, k, ifs, evs) ==
    \A i \in DOMAIN evs : BackIs(off, s, ret, k, ifs, evs, i)

\* What reading a file back gives.
BackOK(off, s, ret, k, ifs, back) ==
    /\ back \in BackTypes /\ back.reader.incomplete = 0
    /\ IndexesOK(ret, k, ifs)
    /\ back.reader.failed <=> Doomed(off, s, ret, k)
    /\ AllBack(off, s, ret, k, ifs, back.events)
    /\ ~back.reader.failed => Going(off, s, ret, k, ifs, back)

\* Every file can be read back as far as it can be read at all.
BackInv ==
    \A k \in DOMAIN files :
       BackOK(Offline, input, returned, k, files[k].interfaces, ReadBack(files[k].blocks))

\* One more input, and at most one more event, that of this input.
Carried(s, t, n, ret, new) ==
    /\ Agree(t, s, n) /\ DOMAIN ret \subseteq DOMAIN new
    /\ \A m \in DOMAIN ret : new[m] = ret[m] /\ ret[m].event.content \in 1 .. n
    /\ \A m \in DOMAIN new : m \in DOMAIN ret \/ new[m].event.content = n + 1

\* The inputs of a file, perhaps with the new one.
Upto(inputs, wider, n) == wider = inputs \/ wider = inputs \cup {n + 1}

\* What earlier inputs have before them and as partners does not change.
LEMMA EarlierStays ==
    ASSUME NEW off \in BOOLEAN, NEW s, NEW t, NEW n \in Nat, Agree(t, s, n),
           NEW inputs \in SUBSET (1 .. n), NEW wider, Upto(inputs, wider, n), NEW c \in 1 .. n
    PROVE  /\ {j \in wider : j < c} = {j \in inputs : j < c}
           /\ OpenIn(off, t, {j \in wider : j < c}) = OpenIn(off, s, {j \in inputs : j < c})
           /\ PartnerIn(off, t, c, wider) = PartnerIn(off, s, c, inputs)
           /\ PartnerIn(off, s, c, inputs) \subseteq 1 .. n
<1>1. {j \in wider : j < c} = {j \in inputs : j < c}
  BY DEF Upto
<1>2. PICK earlier \in SUBSET (1 .. n) : earlier = {j \in inputs : j < c}
  OBVIOUS
<1>3. OpenIn(off, t, earlier) = OpenIn(off, s, earlier)
  BY OpenStays
<1>4. PartnerIn(off, t, c, inputs) = PartnerIn(off, s, c, inputs)
  BY PartnersStay
<1>5. PartnerIn(off, t, c, inputs \cup {n + 1}) = PartnerIn(off, t, c, inputs)
  BY EarlierPartner
<1>6. PartnerIn(off, t, c, wider) = PartnerIn(off, s, c, inputs)
  BY <1>4, <1>5 DEF Upto
<1>7. PartnerIn(off, s, c, inputs) \subseteq 1 .. n
  BY DEF PartnerIn, OpenIn
<1> QED
  BY <1>1, <1>2, <1>3, <1>6, <1>7

\* What was said of an earlier event remains true.
LEMMA BadStays ==
    ASSUME NEW off \in BOOLEAN, NEW s, NEW t, NEW n \in Nat, NEW ret, NEW new,
           Carried(s, t, n, ret, new), NEW inputs \in SUBSET (1 .. n), NEW wider,
           Upto(inputs, wider, n), NEW e, e.content \in 1 .. n
    PROVE  /\ Bad(off, t, new, wider, e) <=> Bad(off, s, ret, inputs, e)
           /\ PairBack(off, s, ret, inputs, e) => PairBack(off, t, new, wider, e)
<1>1. PICK c \in 1 .. n : c = e.content
  OBVIOUS
<1>2. Agree(t, s, n)
  BY DEF Carried
<1>3. PICK open : open = OpenIn(off, s, {j \in inputs : j < c})
  OBVIOUS
<1>4. PICK partner : partner = PartnerIn(off, s, c, inputs)
  OBVIOUS
<1>5. /\ OpenIn(off, t, {j \in wider : j < c}) = open
      /\ PartnerIn(off, t, c, wider) = partner /\ partner \subseteq 1 .. n
  BY <1>2, <1>3, <1>4, EarlierStays
<1>6. n + 1 \notin partner
  BY <1>5
<1>7. \A m \in DOMAIN ret : m \in DOMAIN new /\ new[m] = ret[m]
  BY DEF Carried
<1>8. \A m \in DOMAIN new : new[m].event.content \in partner => m \in DOMAIN ret /\ new[m] = ret[m]
  BY <1>6 DEF Carried
<1>9. Bad(off, t, new, wider, e) <=> Bad(off, s, ret, inputs, e)
  <2>1. CASE e.event_type = "S"
    <3>1. Bad(off, t, new, wider, e) <=> Cardinality(open) >= MaxUnmatched
      BY <1>1, <1>5, <2>1 DEF Bad
    <3>2. Bad(off, s, ret, inputs, e) <=> Cardinality(open) >= MaxUnmatched
      BY <1>1, <1>3, <2>1 DEF Bad
    <3> QED
      BY <3>1, <3>2
  <2>2. CASE e.event_type # "S"
    <3>1. Bad(off, t, new, wider, e) <=>
             \E m \in DOMAIN new :
                /\ new[m].event.content \in partner
                /\ \E f \in Range(e.frames) : f.offset + f.length > new[m].event.requested_len
      BY <1>1, <1>5, <2>2 DEF Bad
    <3>2. Bad(off, s, ret, inputs, e) <=>
             \E m \in DOMAIN ret :
                /\ ret[m].event.content \in partner
                /\ \E f \in Range(e.frames) : f.offset + f.length > ret[m].event.requested_len
      BY <1>1, <1>4, <2>2 DEF Bad
    <3> QED
      BY <1>7, <1>8, <3>1, <3>2
  <2> QED
    BY <2>1, <2>2
<1>10. ASSUME PairBack(off, s, ret, inputs, e) PROVE PairBack(off, t, new, wider, e)
  <2> SUFFICES ASSUME e.event_type # "S" PROVE PairBack(off, t, new, wider, e)
    BY DEF PairBack
  <2>1. /\ e.requested_known <=> partner # {}
        /\ \A m \in DOMAIN ret :
              ret[m].event.content \in partner => e.requested_len = ret[m].event.requested_len
    BY <1>1, <1>4, <1>10 DEF PairBack
  <2>2. \A m \in DOMAIN new :
           new[m].event.content \in partner => e.requested_len = new[m].event.requested_len
    BY <1>8, <2>1
  <2> QED
    BY <1>1, <1>5, <2>1, <2>2 DEF PairBack
<1> QED
  BY <1>9, <1>10

\* The file has what it had, and perhaps the event of the new input.
Wider(ret, new, k, n, ifs, ifs2) ==
    /\ Held(ret, k) \subseteq Held(new, k)
    /\ Upto(Inputs(ret, k), Inputs(new, k), n)
    /\ \A m \in Held(ret, k) : ifs2[ret[m].event.source_id] = ifs[ret[m].event.source_id]

\* The inputs of a file are inputs.
LEMMA InputsAre ==
    ASSUME NEW s, NEW t, NEW n \in Nat, NEW ret, NEW new, Carried(s, t, n, ret, new), NEW k
    PROVE  Inputs(ret, k) \in SUBSET (1 .. n)
BY DEF Carried, Inputs, Held

\* What was read before remains right.
LEMMA BackIsStays ==
    ASSUME NEW off \in BOOLEAN, NEW s, NEW t, NEW n \in Nat, NEW ret, NEW new,
           Carried(s, t, n, ret, new), NEW k, NEW ifs, NEW ifs2,
           Wider(ret, new, k, n, ifs, ifs2), NEW evs, NEW evs2, NEW len \in Nat,
           Agree(evs2, evs, len), NEW i \in 1 .. len, BackIs(off, s, ret, k, ifs, evs, i)
    PROVE  BackIs(off, t, new, k, ifs2, evs2, i)
<1>1. PICK x : x = evs[i]
  OBVIOUS
<1>2. evs2[i] = x
  BY <1>1 DEF Agree
<1>3. PICK m \in Held(ret, k) : SameEvent(ret[m].event, ifs, x)
  BY <1>1 DEF BackIs
<1>4. m \in DOMAIN ret /\ new[m] = ret[m] /\ ret[m].event.content \in 1 .. n
  BY DEF Held, Carried
<1>5. m \in Held(new, k) /\ SameEvent(new[m].event, ifs2, x)
  BY <1>3, <1>4 DEF Wider, SameEvent
<1>6. PICK c \in 1 .. n : c = x.content
  BY <1>3, <1>4 DEF SameEvent
<1>7. PICK inputs \in SUBSET (1 .. n) : inputs = Inputs(ret, k)
  BY InputsAre
<1>8. PICK wider : wider = Inputs(new, k)
  OBVIOUS
<1>9. Upto(inputs, wider, n)
  BY <1>7, <1>8 DEF Wider
<1>10. {j \in wider : j < c} = {j \in inputs : j < c}
  BY <1>9 DEF Upto
<1>11. {evs2[j].content : j \in 1 .. (i - 1)} = {evs[j].content : j \in 1 .. (i - 1)}
  <2>1. \A j \in 1 .. (i - 1) : evs2[j] = evs[j]
    BY DEF Agree
  <2> QED
    BY <2>1
<1>12. {evs[j].content : j \in 1 .. (i - 1)} = {j \in inputs : j < c}
  BY <1>1, <1>6, <1>7 DEF BackIs
<1>13. PairBack(off, t, new, wider, x)
  <2>1. PairBack(off, s, ret, inputs, x) /\ x.content \in 1 .. n
    BY <1>1, <1>6, <1>7 DEF BackIs
  <2> QED
    BY <1>9, <2>1, BadStays
<1> QED
  BY <1>2, <1>5, <1>6, <1>8, <1>10, <1>11, <1>12, <1>13 DEF BackIs

\* An event that goes elsewhere, or an input without event, changes nothing.
LEMMA BackStays ==
    ASSUME NEW off \in BOOLEAN, NEW s, NEW t, NEW n \in Nat, NEW ret, NEW new,
           Carried(s, t, n, ret, new), NEW k, Held(new, k) = Held(ret, k), NEW ifs, NEW back,
           BackOK(off, s, ret, k, ifs, back)
    PROVE  BackOK(off, t, new, k, ifs, back)
<1>1. \A m \in Held(ret, k) : m \in DOMAIN ret /\ new[m] = ret[m] /\ ret[m].event.content \in 1 .. n
  BY DEF Held, Carried
<1>2. PICK held : held = Held(ret, k) /\ held = Held(new, k)
  OBVIOUS
<1>3. PICK inputs \in SUBSET (1 .. n) : inputs = Inputs(ret, k)
  BY InputsAre
<1>4. inputs = Inputs(new, k)
  BY <1>1, <1>2, <1>3 DEF Inputs
<1>5. Upto(inputs, inputs, n) /\ Wider(ret, new, k, n, ifs, ifs)
  BY <1>3, <1>4 DEF Upto, Wider
<1>6. IndexesOK(new, k, ifs)
  <2>1. {new[m].event.source_id : m \in held} = {ret[m].event.source_id : m \in held}
    BY <1>1, <1>2
  <2>2. IndexesOK(ret, k, ifs)
    BY DEF BackOK
  <2> QED
    BY <1>2, <2>1, <2>2 DEF IndexesOK
<1>7. back.reader.failed <=> \E m \in held : Bad(off, t, new, inputs, new[m].event)
  <2>1. back.reader.failed <=> \E m \in held : Bad(off, s, ret, inputs, ret[m].event)
    BY <1>2, <1>3 DEF BackOK, Doomed
  <2>2. ASSUME NEW m \in held
        PROVE  Bad(off, t, new, inputs, new[m].event) <=> Bad(off, s, ret, inputs, ret[m].event)
    <3>1. PICK e : e = ret[m].event
      OBVIOUS
    <3>2. e.content \in 1 .. n /\ new[m].event = e
      BY <1>1, <1>2, <3>1
    <3>3. Bad(off, t, new, inputs, e) <=> Bad(off, s, ret, inputs, e)
      BY <1>5, <3>2, BadStays
    <3> QED
      BY <3>1, <3>2, <3>3
  <2> QED
    BY <2>1, <2>2
<1>8. back \in BackTypes /\ back.reader.incomplete = 0
  BY DEF BackOK
<1>9. ASSUME NEW i \in DOMAIN back.events PROVE BackIs(off, t, new, k, ifs, back.events, i)
  <2>1. PICK evs \in Seq(EventTypes(Nat)) : evs = back.events
    BY <1>8 DEF BackTypes
  <2>2. PICK len \in Nat : len = Len(evs) /\ DOMAIN evs = 1 .. len
    OBVIOUS
  <2>3. Agree(evs, evs, len)
    BY DEF Agree
  <2>4. i \in 1 .. len /\ BackIs(off, s, ret, k, ifs, evs, i)
    BY <2>1, <2>2 DEF BackOK, AllBack
  <2>5. BackIs(off, t, new, k, ifs, evs, i)
    BY <1>5, <2>3, <2>4, BackIsStays
  <2> QED
    BY <2>1, <2>5
<1>10. ASSUME ~back.reader.failed PROVE Going(off, t, new, k, ifs, back)
  <2>1. Going(off, s, ret, k, ifs, back)
    BY <1>10 DEF BackOK
  <2>2. OpenIn(off, t, inputs) = OpenIn(off, s, inputs)
    <3>1. Agree(t, s, n)
      BY DEF Carried
    <3> QED
      BY <3>1, OpenStays
  <2>3. Opened(off, t, AskedAll(back.events), inputs, back.reader.requested)
    <3>1. Opened(off, s, AskedAll(back.events), inputs, back.reader.requested)
      BY <1>3, <2>1 DEF Going
    <3> QED
      BY <2>2, <3>1 DEF Opened
  <2> QED
    BY <1>3, <1>4, <2>1, <2>3 DEF Going
<1> QED
  BY <1>2, <1>4, <1>6, <1>7, <1>8, <1>9, <1>10 DEF BackOK, Doomed, AllBack

\* Reading the header of a file.
LEMMA ReadHeader ==
    LET back == ReadBack(<<Section, OutputInterface>>)
    IN  /\ back \in BackTypes /\ Ready(back.reader, 1)
        /\ back.reader.requested = <<>> /\ back.events = <<>>
<1>0. Section \in WrittenBlocks /\ OutputInterface \in WrittenBlocks
  BY PcapngAssumption
     DEF WrittenBlocks, BlockTypes, OutputInterface, Interface, Section, USB_LINUX_MMAPPED
<1>1. PICK none \in Seq(WrittenBlocks) : none = <<>>
  <2>1. <<>> \in Seq(WrittenBlocks)
    OBVIOUS
  <2> QED
    BY <2>1, Zenon
<1>2. PICK blocks : blocks = Append(none, Section)
  OBVIOUS
<1>3. PICK header : header = <<Section, OutputInterface>>
  OBVIOUS
<1>3a. blocks \in Seq(WrittenBlocks) /\ header = Append(blocks, OutputInterface)
  BY <1>0, <1>1, <1>2, <1>3
<1>4. PICK one : one = BackNext(BackNew, Section)
  OBVIOUS
<1>5. ReadBack(blocks) = one
  BY <1>0, <1>1, <1>2, <1>4, BackMore, NoBack
<1>6. PICK two : two = BackNext(one, OutputInterface)
  OBVIOUS
<1>7. ReadBack(<<Section, OutputInterface>>) = two
  <2>1. ReadBack(header) = two
    BY <1>0, <1>3a, <1>5, <1>6, BackMore
  <2> QED
    BY <1>3, <2>1
<1>8. /\ one \in BackTypes /\ one.reader = ReadBlock(ReaderNew, Section)
      /\ one.events = <<>> \o ReadBlock(ReaderNew, Section).event
  <2>1. BackNew.reader = ReaderNew /\ BackNew.events = <<>>
    BY DEF BackNew
  <2> QED
    BY <1>0, <1>4, <2>1, BackNewType, BackNextIs
<1>9. one.reader = [section |-> TRUE, interfaces |-> <<>>, next_source_id |-> 0,
                    requested |-> <<>>, incomplete |-> 0, failed |-> FALSE, event |-> <<>>]
  BY <1>8 DEF ReadBlock, ReadSection, ReaderNew, Section
<1>10. Ready(one.reader, 0) /\ one.reader.requested = <<>> /\ one.reader.event = <<>>
  <2>1. one.reader \in ReaderTypes
    BY <1>8 DEF BackTypes
  <2> QED
    BY <1>9, <2>1 DEF Ready
<1>11. one.events = <<>>
  BY <1>8, <1>10
<1>12. /\ two \in BackTypes /\ two.reader = ReadBlock(one.reader, OutputInterface)
      /\ two.events = one.events \o ReadBlock(one.reader, OutputInterface).event
  BY <1>0, <1>6, <1>8, BackNextIs
<1>13. Ready(two.reader, 1) /\ two.reader.requested = <<>> /\ two.reader.event = <<>>
  <2>1. /\ Ready(ReadBlock(one.reader, OutputInterface), 0 + 1)
        /\ ReadBlock(one.reader, OutputInterface).requested = one.reader.requested
        /\ ReadBlock(one.reader, OutputInterface).event = <<>>
    BY <1>10, ReadWrittenInterface
  <2> QED
    BY <1>10, <1>12, <2>1
<1>14. two.events = <<>>
  BY <1>11, <1>12, <1>13
<1> QED
  BY <1>7, <1>12, <1>13, <1>14

\* A new file is read back as one without events.
LEMMA BackEmpty ==
    ASSUME NEW off, NEW s, NEW ret, NEW k, Held(ret, k) = {}
    PROVE  BackOK(off, s, ret, k, WriterNew.interfaces, ReadBack(WriterNew.blocks))
<1>1. PICK back : back = ReadBack(<<Section, OutputInterface>>)
  OBVIOUS
<1>2. /\ back \in BackTypes /\ Ready(back.reader, 1)
      /\ back.reader.requested = <<>> /\ back.events = <<>>
  BY <1>1, ReadHeader
<1>3. WriterNew.interfaces = <<>> /\ WriterNew.blocks = <<Section, OutputInterface>>
  BY DEF WriterNew
<1>4. PICK ifs : ifs = <<>> /\ ifs = WriterNew.interfaces
  BY <1>3
<1>5. ifs \in SourceMaps /\ DOMAIN ifs = {}
  <2>1. WriterNew \in WriterTypes
    BY WriterNewType
  <2> QED
    BY <1>4, <2>1 DEF WriterTypes
<1>6. IndexesOK(ret, k, ifs) /\ Interfaces(ifs) = 1
  BY <1>5 DEF IndexesOK, Interfaces
<1>7. Inputs(ret, k) = {}
  BY DEF Inputs
<1>8. DOMAIN back.events = {} /\ DOMAIN back.reader.requested = {}
  BY <1>2
<1>9. Opened(off, s, AskedAll(back.events), {}, back.reader.requested)
  <2>1. DOMAIN AskedAll(back.events) = {}
    BY <1>8 DEF AskedAll
  <2> QED
    BY <1>8, <2>1 DEF Opened
<1>10. Going(off, s, ret, k, ifs, back)
  BY <1>2, <1>6, <1>7, <1>8, <1>9 DEF Going
<1>11. ~back.reader.failed /\ back.reader.incomplete = 0
  BY <1>2 DEF Ready
<1>12. BackOK(off, s, ret, k, ifs, back)
  BY <1>2, <1>6, <1>8, <1>10, <1>11 DEF BackOK, Doomed, AllBack
<1> QED
  BY <1>1, <1>3, <1>4, <1>12

\* A file has at least one interface.
LEMMA InterfacesType ==
    ASSUME NEW ifs \in SourceMaps
    PROVE  IsFiniteSet(DOMAIN ifs) /\ Cardinality(DOMAIN ifs) \in Nat /\ Interfaces(ifs) \in Nat
<1>1. IsFiniteSet(DOMAIN ifs)
  BY DEF SourceMaps
<1>2. Cardinality(DOMAIN ifs) \in Nat
  BY <1>1, FS_CardinalityType
<1> QED
  BY <1>1, <1>2 DEF Interfaces

\* The interface that write_event() gives to an event, and the blocks it writes.
Placed(w, new, e, index) ==
    /\ Packet(e, index) \in WrittenBlocks
    /\ new.interfaces \in SourceMaps
    /\ DOMAIN new.interfaces = DOMAIN w.interfaces \cup {e.source_id}
    /\ new.interfaces[e.source_id] = index /\ index < Interfaces(new.interfaces)
    /\ \A a \in DOMAIN w.interfaces : new.interfaces[a] = w.interfaces[a]
    /\ \/ /\ new.blocks = Append(w.blocks, Packet(e, index))
          /\ Interfaces(new.interfaces) = Interfaces(w.interfaces)
       \/ /\ new.blocks = Append(Append(w.blocks, OutputInterface), Packet(e, index))
          /\ Interfaces(new.interfaces) = Interfaces(w.interfaces) + 1

\* write_event() finds or adds the interface of the event's source.
LEMMA WritePlaces ==
    ASSUME NEW w \in WriterTypes, NEW e \in EventTypes(Nat),
           w.blocks \in Seq(WrittenBlocks),
           \A a \in DOMAIN w.interfaces : w.interfaces[a] < Cardinality(DOMAIN w.interfaces)
    PROVE  \E index \in Nat :
              /\ Placed(w, WriteEvent(w, e), e, index)
              /\ \/ e.source_id \in DOMAIN w.interfaces
                 \/ index = Cardinality(DOMAIN w.interfaces)
<1> DEFINE known == e.source_id \in DOMAIN w.interfaces
           index == IF known THEN w.interfaces[e.source_id]
                    ELSE Cardinality(DOMAIN w.interfaces)
           added == IF known \/ index = 0 THEN <<>> ELSE <<OutputInterface>>
           p == Packet(e, index)
<1>1. PICK new : new = WriteEvent(w, e)
  OBVIOUS
<1>2. PICK bs : bs = w.blocks
  OBVIOUS
<1>3. PICK ifs : ifs = w.interfaces
  OBVIOUS
<1>4. new.blocks = bs \o added \o <<p>> /\ new.interfaces = Inserted(ifs, e.source_id, index)
  BY <1>1, <1>2, <1>3 DEF WriteEvent
<1>5. new \in WriterTypes
  BY <1>1, WriteEventType
<1>6. ifs \in SourceMaps /\ new.interfaces \in SourceMaps /\ bs \in Seq(WrittenBlocks)
  BY <1>2, <1>3, <1>5 DEF WriterTypes
<1>7. PICK c \in Nat : c = Cardinality(DOMAIN ifs) /\ IsFiniteSet(DOMAIN ifs)
  BY <1>6, InterfacesType
<1>8. index \in Nat /\ (known => index < c) /\ (~known => index = c)
  <2>1. known => ifs[e.source_id] \in Nat
    BY <1>3, <1>6 DEF SourceMaps
  <2> QED
    BY <1>3, <1>7, <2>1
<1>9. OutputInterface \in WrittenBlocks
  BY PcapngAssumption
     DEF WrittenBlocks, BlockTypes, OutputInterface, Interface, USB_LINUX_MMAPPED
<1>10. p \in WrittenBlocks
  <2>1. e.timestamp \in Nat /\ NsPerUs \in Nat \ {0}
    BY PcapngAssumption DEF EventTypes
  <2>2. e.timestamp \div NsPerUs \in Nat
    BY <2>1
  <2>3. WireLen(e) \in Nat
    BY DEF WireLen, EventTypes
  <2> HIDE DEF index
  <2>4. p \in PacketTypes /\ p.kind = "packet"
    BY <1>8, <2>2, <2>3 DEF Packet, PacketTypes, EventTypes
  <2> QED
    BY <2>4 DEF BlockTypes, WrittenBlocks
<1>11. /\ DOMAIN new.interfaces = DOMAIN ifs \cup {e.source_id}
       /\ new.interfaces[e.source_id] = index
       /\ \A a \in DOMAIN ifs : new.interfaces[a] = ifs[a]
  <2>1. known => ifs[e.source_id] = index
    BY <1>3
  <2> HIDE DEF index
  <2> QED
    BY <1>3, <1>4, <2>1 DEF Inserted
<1>12. CASE known \/ index = 0
  <2>1. new.blocks = Append(bs, p)
    <3>1. added = <<>> /\ bs \o <<>> = bs
      BY <1>6, <1>12
    <3> HIDE DEF p, added
    <3> QED
      BY <1>4, <1>6, <1>10, <3>1
  <2>2. Interfaces(new.interfaces) = Interfaces(ifs) /\ index < Interfaces(ifs)
    <3>1. CASE known
      <4>1. DOMAIN new.interfaces = DOMAIN ifs /\ DOMAIN ifs # {}
        BY <1>3, <1>11, <3>1
      <4> QED
        BY <1>7, <1>8, <3>1, <4>1 DEF Interfaces
    <3>2. CASE ~known
      <4>1. index = 0 /\ c = 0
        BY <1>8, <1>12, <3>2
      <4>2. DOMAIN ifs = {}
        BY <1>7, <4>1, FS_EmptySet
      <4>3. DOMAIN new.interfaces = {e.source_id}
        BY <1>11, <4>2
      <4>4. Cardinality({e.source_id}) = 1
        BY FS_Singleton
      <4> QED
        BY <4>1, <4>2, <4>3, <4>4 DEF Interfaces
    <3> QED
      BY <3>1, <3>2
  <2> HIDE DEF p, added, index, known
  <2>3. Placed(w, new, e, index)
    BY <1>2, <1>3, <1>6, <1>10, <1>11, <2>1, <2>2 DEF Placed, p
  <2> QED
    BY <1>1, <1>3, <1>7, <1>8, <2>3 DEF known
<1>13. CASE ~known /\ index # 0
  <2>1. new.blocks = Append(Append(bs, OutputInterface), p)
    <3>1. added = <<OutputInterface>>
      BY <1>13
    <3> HIDE DEF p, added
    <3>2. bs \o added = Append(bs, OutputInterface)
      BY <1>6, <1>9, <3>1
    <3>3. PICK more \in Seq(WrittenBlocks) : more = Append(bs, OutputInterface)
      <4>1. Append(bs, OutputInterface) \in Seq(WrittenBlocks)
        BY <1>6, <1>9
      <4> QED
        BY <4>1, Zenon
    <3>4. more \o <<p>> = Append(more, p)
      BY <1>10
    <3> QED
      BY <1>4, <3>2, <3>3, <3>4
  <2>2. Interfaces(new.interfaces) = Interfaces(ifs) + 1 /\ index < Interfaces(new.interfaces)
    <3>1. c # 0 /\ index = c
      BY <1>8, <1>13
    <3>2. DOMAIN ifs # {}
      BY <1>7, <3>1, FS_EmptySet
    <3>3. Cardinality(DOMAIN ifs \cup {e.source_id}) = c + 1
      BY <1>3, <1>7, <1>13, FS_AddElement
    <3>4. DOMAIN new.interfaces # {} /\ Cardinality(DOMAIN new.interfaces) = c + 1
      BY <1>11, <3>3
    <3> QED
      BY <1>7, <3>1, <3>2, <3>4 DEF Interfaces
  <2> HIDE DEF p, added, index, known
  <2>3. Placed(w, new, e, index)
    BY <1>2, <1>3, <1>6, <1>10, <1>11, <2>1, <2>2 DEF Placed, p
  <2> QED
    BY <1>1, <1>3, <1>7, <1>8, <2>3 DEF known
<1> QED
  BY <1>12, <1>13

\* Its sources keep interfaces of their own.
LEMMA IndexesStay ==
    ASSUME NEW ret, NEW new, NEW n, NEW e \in EventTypes(Nat), NEW k,
           OneMore(ret, new, n, e, k), NEW w \in WriterTypes, NEW w2, NEW index \in Nat,
           Placed(w, w2, e, index), IndexesOK(ret, k, w.interfaces),
           e.source_id \in DOMAIN w.interfaces \/ index = Cardinality(DOMAIN w.interfaces)
    PROVE  IndexesOK(new, k, w2.interfaces)
<1>1. PICK ifs \in SourceMaps : ifs = w.interfaces
  BY DEF WriterTypes
<1>2. PICK ifs2 \in SourceMaps : ifs2 = w2.interfaces
  BY DEF Placed
<1>3. /\ DOMAIN ifs2 = DOMAIN ifs \cup {e.source_id} /\ ifs2[e.source_id] = index
      /\ \A a \in DOMAIN ifs : ifs2[a] = ifs[a]
  BY <1>1, <1>2 DEF Placed
<1>4. PICK c \in Nat : c = Cardinality(DOMAIN ifs) /\ IsFiniteSet(DOMAIN ifs)
  BY InterfacesType
<1>5. /\ DOMAIN ifs = {ret[m].event.source_id : m \in Held(ret, k)}
      /\ \A a, b \in DOMAIN ifs : ifs[a] = ifs[b] => a = b
      /\ \A a \in DOMAIN ifs : ifs[a] < c
  BY <1>1, <1>4 DEF IndexesOK
<1>6. /\ Held(new, k) = Held(ret, k) \cup {n + 1} /\ Held(ret, k) \subseteq 1 .. n /\ n \in Nat
  BY HeldMore
<1>7. new[n + 1].event = e /\ \A m \in Held(ret, k) : new[m] = ret[m]
  BY <1>6 DEF OneMore
<1>8. DOMAIN ifs2 = {new[m].event.source_id : m \in Held(new, k)}
  BY <1>3, <1>5, <1>6, <1>7
<1>9. \A a \in DOMAIN ifs : ifs[a] \in Nat
  BY DEF SourceMaps
<1>10. CASE e.source_id \in DOMAIN ifs
  <2>1. DOMAIN ifs2 = DOMAIN ifs
    BY <1>3, <1>10
  <2> QED
    BY <1>2, <1>3, <1>4, <1>5, <1>8, <2>1 DEF IndexesOK
<1>11. CASE e.source_id \notin DOMAIN ifs /\ index = c
  <2>1. Cardinality(DOMAIN ifs2) = c + 1
    BY <1>3, <1>4, <1>11, FS_AddElement
  <2>2. \A a \in DOMAIN ifs : ifs2[a] < c /\ ifs2[a] \in Nat
    BY <1>3, <1>5, <1>9
  <2>3. ifs2[e.source_id] = c
    BY <1>3, <1>11
  <2>4. \A a \in DOMAIN ifs2 : ifs2[a] < c + 1
    BY <1>3, <2>2, <2>3
  <2>5. \A a \in DOMAIN ifs : ifs2[a] # c
    BY <2>2
  <2>6. \A a, b \in DOMAIN ifs2 : ifs2[a] = ifs2[b] => a = b
    BY <1>3, <1>5, <2>3, <2>5
  <2> QED
    BY <1>2, <1>8, <2>1, <2>4, <2>6 DEF IndexesOK
<1> QED
  BY <1>1, <1>4, <1>10, <1>11

\* What reading the blocks of one event more gives.
ReadsOn(back, back2, n, index, e) ==
    \/ /\ back.reader.failed /\ back2.reader.failed /\ back2.events = back.events
       /\ back2.reader.incomplete = back.reader.incomplete
    \/ /\ ~back.reader.failed
       /\ \E r : /\ Ready(r, n) /\ r.requested = back.reader.requested
                 /\ ReadOn(r, n, index, e, back2.reader)
       /\ back2.events = back.events \o back2.reader.event

\* A reader that has given up reads no more.
LEMMA GivenUp ==
    ASSUME NEW back \in BackTypes, NEW b \in WrittenBlocks, back.reader.failed
    PROVE  LET next == BackNext(back, b)
           IN  /\ next \in BackTypes /\ next.reader.failed /\ next.events = back.events
               /\ next.reader.incomplete = back.reader.incomplete
<1>1. PICK next : next = BackNext(back, b)
  OBVIOUS
<1>2. PICK r \in ReaderTypes : r = back.reader
  BY DEF BackTypes
<1>3. b \in BlockTypes /\ back.events \in Seq(EventTypes(Nat))
  BY DEF WrittenBlocks, BackTypes
<1>4. ReadBlock(r, b) = [r EXCEPT !.event = <<>>]
  BY <1>2, <1>3, ReadBlockType
<1>5. /\ ReadBlock(r, b).failed /\ ReadBlock(r, b).event = <<>>
      /\ ReadBlock(r, b).incomplete = r.incomplete
  BY <1>2, <1>4 DEF ReaderTypes
<1>6. /\ next \in BackTypes /\ next.reader = ReadBlock(r, b)
      /\ next.events = back.events \o ReadBlock(r, b).event
  BY <1>1, <1>2, BackNextIs
<1>7. next.events = back.events
  BY <1>3, <1>5, <1>6
<1> QED
  BY <1>1, <1>2, <1>5, <1>6, <1>7

\* The reader takes a further interface, if there is one, and the packet.
LEMMA WrittenIsRead ==
    ASSUME NEW w \in WriterTypes, w.blocks \in Seq(WrittenBlocks), NEW w2,
           NEW e \in EventTypes(Nat), WholeEvent(e), NEW index \in Nat, Placed(w, w2, e, index),
           ~ReadBack(w.blocks).reader.failed =>
              Ready(ReadBack(w.blocks).reader, Interfaces(w.interfaces))
    PROVE  /\ ReadBack(w2.blocks) \in BackTypes
           /\ ReadsOn(ReadBack(w.blocks), ReadBack(w2.blocks), Interfaces(w2.interfaces), index, e)
<1>1. PICK bs \in Seq(WrittenBlocks) : bs = w.blocks
  OBVIOUS
<1>2. PICK p \in WrittenBlocks : p = Packet(e, index)
  BY DEF Placed
<1>3. OutputInterface \in WrittenBlocks
  BY PcapngAssumption
     DEF WrittenBlocks, BlockTypes, OutputInterface, Interface, USB_LINUX_MMAPPED
<1>4. PICK back : back = ReadBack(bs)
  OBVIOUS
<1>5. back \in BackTypes
  BY <1>3, <1>4, BackMore
<1>6. PICK n \in Nat : n = Interfaces(w.interfaces)
  BY InterfacesType DEF WriterTypes
<1>7. PICK n2 : n2 = Interfaces(w2.interfaces)
  OBVIOUS
<1>8. index < n2
  BY <1>7 DEF Placed
<1>9. ~back.reader.failed => Ready(back.reader, n)
  BY <1>1, <1>4, <1>6
<1>10. CASE w2.blocks = Append(bs, p) /\ n2 = n
  <2>1. PICK back2 : back2 = BackNext(back, p)
    OBVIOUS
  <2>2. ReadBack(w2.blocks) = back2
    BY <1>4, <1>10, <2>1, BackMore
  <2>3. /\ back2 \in BackTypes /\ back2.reader = ReadBlock(back.reader, p)
        /\ back2.events = back.events \o back2.reader.event
    BY <1>5, <2>1, BackNextIs
  <2>4. ReadsOn(back, back2, n, index, e)
    <3>1. CASE back.reader.failed
      BY <1>5, <2>1, <3>1, GivenUp DEF ReadsOn
    <3>2. CASE ~back.reader.failed
      <4>1. ReadOn(back.reader, n, index, e, back2.reader)
        BY <1>2, <1>8, <1>9, <1>10, <2>3, <3>2, ReadWrittenPacket
      <4> QED
        BY <1>9, <2>3, <3>2, <4>1 DEF ReadsOn
    <3> QED
      BY <3>1, <3>2
  <2> QED
    BY <1>1, <1>4, <1>7, <1>10, <2>2, <2>3, <2>4
<1>11. CASE w2.blocks = Append(Append(bs, OutputInterface), p) /\ n2 = n + 1
  <2>1. PICK more \in Seq(WrittenBlocks) : more = Append(bs, OutputInterface)
    <3>1. Append(bs, OutputInterface) \in Seq(WrittenBlocks)
      BY <1>3
    <3> QED
      BY <3>1, Zenon
  <2>2. PICK mid : mid = BackNext(back, OutputInterface)
    OBVIOUS
  <2>3. ReadBack(more) = mid
    BY <1>3, <1>4, <2>1, <2>2, BackMore
  <2>4. PICK back2 : back2 = BackNext(mid, p)
    OBVIOUS
  <2>5. ReadBack(w2.blocks) = back2
    BY <1>11, <2>1, <2>3, <2>4, BackMore
  <2>6. /\ mid \in BackTypes /\ mid.reader = ReadBlock(back.reader, OutputInterface)
        /\ mid.events = back.events \o mid.reader.event
    BY <1>3, <1>5, <2>2, BackNextIs
  <2>7. /\ back2 \in BackTypes /\ back2.reader = ReadBlock(mid.reader, p)
        /\ back2.events = mid.events \o back2.reader.event
    BY <2>4, <2>6, BackNextIs
  <2>8. ReadsOn(back, back2, n2, index, e)
    <3>1. CASE back.reader.failed
      <4>1. /\ mid.reader.failed /\ mid.events = back.events
            /\ mid.reader.incomplete = back.reader.incomplete
        BY <1>3, <1>5, <2>2, <3>1, GivenUp
      <4>2. /\ back2.reader.failed /\ back2.events = mid.events
            /\ back2.reader.incomplete = mid.reader.incomplete
        BY <2>4, <2>6, <4>1, GivenUp
      <4> QED
        BY <3>1, <4>1, <4>2 DEF ReadsOn
    <3>2. CASE ~back.reader.failed
      <4>1. /\ Ready(mid.reader, n2) /\ mid.reader.requested = back.reader.requested
            /\ mid.reader.event = <<>>
        BY <1>9, <1>11, <2>6, <3>2, ReadWrittenInterface
      <4>2. mid.events = back.events
        BY <1>5, <2>6, <4>1 DEF BackTypes
      <4>3. ReadOn(mid.reader, n2, index, e, back2.reader)
        BY <1>2, <1>8, <1>11, <2>7, <4>1, ReadWrittenPacket
      <4> QED
        BY <2>7, <3>2, <4>1, <4>2, <4>3 DEF ReadsOn
    <3> QED
      BY <3>1, <3>2
  <2> QED
    BY <1>1, <1>4, <1>7, <2>5, <2>7, <2>8
<1> QED
  BY <1>1, <1>2, <1>6, <1>7, <1>10, <1>11 DEF Placed

\* The events tell their inputs' phases, and no two have the same input.
Told(s, ret) ==
    \A m \in DOMAIN ret :
       /\ s[ret[m].event.content].event_type = ret[m].event.event_type
       /\ \A j \in DOMAIN ret : ret[j].event.content = ret[m].event.content => j = m

\* All events of a file have been read.
ReadSoFar(ret, k, ifs, evs) ==
    /\ \A i \in DOMAIN evs : \E m \in Held(ret, k) : SameEvent(ret[m].event, ifs, evs[i])
    /\ Inputs(ret, k) = {evs[i].content : i \in DOMAIN evs}

\* Two events of a file have the same key for the reader if and only if they have for
\* the program that wrote them.
LEMMA KeysRead ==
    ASSUME NEW ret, NEW k, NEW ifs, IndexesOK(ret, k, ifs), NEW a \in Held(ret, k), NEW b \in Held(ret, k),
           NEW x, NEW y, SameEvent(ret[a].event, ifs, x), SameEvent(ret[b].event, ifs, y)
    PROVE  Key(x) = Key(y) <=> Key(ret[a].event) = Key(ret[b].event)
<1>1. ret[a].event.source_id \in DOMAIN ifs /\ ret[b].event.source_id \in DOMAIN ifs
  BY DEF IndexesOK
<1>2. ifs[ret[a].event.source_id] = ifs[ret[b].event.source_id]
         <=> ret[a].event.source_id = ret[b].event.source_id
  BY <1>1 DEF IndexesOK
<1>3. /\ x.source_id = ifs[ret[a].event.source_id] /\ x.urb_id = ret[a].event.urb_id
      /\ y.source_id = ifs[ret[b].event.source_id] /\ y.urb_id = ret[b].event.urb_id
  BY DEF SameEvent
<1> QED
  BY <1>2, <1>3 DEF Key, RequestKey

\* The keys of Asked events are theirs.
LEMMA AskedIs ==
    ASSUME NEW evs
    PROVE  /\ DOMAIN AskedAll(evs) = DOMAIN evs
           /\ \A i \in DOMAIN evs :
                 /\ Key(AskedAll(evs)[i].event) = Key(evs[i])
                 /\ AskedAll(evs)[i].event.content = evs[i].content
                 /\ AskedAll(evs)[i].event.timestamp = evs[i].requested_len
                 /\ AskedAll(evs)[i].event = Asked(evs[i])
BY DEF AskedAll, Asked, Key

\* The reader's keys name URBs, as those of the program that wrote the file do.
LEMMA AskedKeys ==
    ASSUME NEW off, NEW s, NEW ret, KeysOK(off, s, ret), NEW k, NEW ifs, IndexesOK(ret, k, ifs),
           NEW evs, ReadSoFar(ret, k, ifs, evs)
    PROVE  KeysOK(off, s, AskedAll(evs)) /\ AllReturned(AskedAll(evs), Inputs(ret, k))
<1>1. PICK asked : asked = AskedAll(evs)
  OBVIOUS
<1>2. /\ DOMAIN asked = DOMAIN evs
      /\ \A i \in DOMAIN evs : /\ Key(asked[i].event) = Key(evs[i])
                               /\ asked[i].event.content = evs[i].content
  BY <1>1, AskedIs
<1>3. ASSUME NEW i \in DOMAIN evs, NEW j \in DOMAIN evs
      PROVE  Key(evs[i]) = Key(evs[j]) <=> SameIn(off, s, evs[i].content, evs[j].content)
  <2>1. PICK a \in Held(ret, k) : SameEvent(ret[a].event, ifs, evs[i])
    BY DEF ReadSoFar
  <2>2. PICK b \in Held(ret, k) : SameEvent(ret[b].event, ifs, evs[j])
    BY DEF ReadSoFar
  <2>3. Key(evs[i]) = Key(evs[j]) <=> Key(ret[a].event) = Key(ret[b].event)
    BY <2>1, <2>2, KeysRead
  <2>4. Key(ret[a].event) = Key(ret[b].event)
           <=> SameIn(off, s, ret[a].event.content, ret[b].event.content)
    BY DEF KeysOK, Held
  <2>5. evs[i].content = ret[a].event.content /\ evs[j].content = ret[b].event.content
    BY <2>1, <2>2 DEF SameEvent
  <2> QED
    BY <2>3, <2>4, <2>5
<1>4. KeysOK(off, s, asked)
  BY <1>2, <1>3 DEF KeysOK
<1>5. AllReturned(asked, Inputs(ret, k))
  BY <1>2 DEF AllReturned, ReadSoFar
<1> QED
  BY <1>1, <1>4, <1>5

\* What the reader's table has for the next event of the file.
Found(off, t, new, n, inputs, requested, key) ==
    /\ key \in DOMAIN requested <=> PartnerIn(off, t, n + 1, inputs \cup {n + 1}) # {}
    /\ \A m \in DOMAIN new :
          new[m].event.content \in PartnerIn(off, t, n + 1, inputs \cup {n + 1}) =>
             requested[key] = new[m].event.requested_len
    /\ PartnerIn(off, t, n + 1, inputs \cup {n + 1}) # {} =>
          \E m \in DOMAIN new :
             new[m].event.content \in PartnerIn(off, t, n + 1, inputs \cup {n + 1})

\* The events that were read have the next event's key if and only if they name its URB.
KeysFit(off, t, n, evs, key) ==
    \A i \in DOMAIN evs :
       /\ Key(evs[i]) = key <=> SameIn(off, t, evs[i].content, n + 1)
       /\ evs[i].content \in 1 .. n

\* It is the length of the event's partner in the file.
LEMMA Lookup ==
    ASSUME NEW off \in BOOLEAN, NEW s, NEW t, NEW n \in Nat, NEW ret, NEW new, NEW len \in Nat,
           NEW e, Grown(off, s, t, n, ret, new, len, e), Told(s, ret),
           NEW k, OneMore(ret, new, len, e, k), NEW ifs, IndexesOK(new, k, ifs),
           NEW evs, ReadSoFar(ret, k, ifs, evs),
           NEW requested, Opened(off, s, AskedAll(evs), Inputs(ret, k), requested)
    PROVE  /\ Found(off, t, new, n, Inputs(ret, k), requested, RequestKey(ifs[e.source_id], e.urb_id))
           /\ KeysFit(off, t, n, evs, RequestKey(ifs[e.source_id], e.urb_id))
<1>1. PICK key : key = RequestKey(ifs[e.source_id], e.urb_id)
  OBVIOUS
<1>2. /\ Agree(t, s, n) /\ DOMAIN ret = 1 .. len /\ DOMAIN new = 1 .. (len + 1)
      /\ \A m \in 1 .. len : new[m] = ret[m] /\ ret[m].event.content \in 1 .. n
      /\ new[len + 1].event = e /\ e.content = n + 1
      /\ \A m \in 1 .. len : Key(ret[m].event) = Key(e)
                                <=> SameIn(off, t, ret[m].event.content, n + 1)
  BY DEF Grown, Agree
<1>3. Held(new, k) = Held(ret, k) \cup {len + 1} /\ Held(ret, k) \subseteq 1 .. len
  BY HeldMore
<1>4. PICK inputs \in SUBSET (1 .. n) : inputs = Inputs(ret, k)
  BY <1>2, <1>3 DEF Inputs
<1>5. ASSUME NEW i \in DOMAIN evs
      PROVE  /\ \E m \in Held(ret, k) : SameEvent(ret[m].event, ifs, evs[i])
             /\ Key(evs[i]) = key <=> SameIn(off, t, evs[i].content, n + 1)
             /\ evs[i].content \in 1 .. n
  <2>1. PICK m \in Held(ret, k) : SameEvent(ret[m].event, ifs, evs[i])
    BY DEF ReadSoFar
  <2>2. m \in 1 .. len /\ evs[i].content = ret[m].event.content
    BY <1>3, <2>1 DEF SameEvent
  <2>3. m \in Held(new, k) /\ len + 1 \in Held(new, k)
    BY <1>3
  <2>4. /\ new[m].event.source_id \in DOMAIN ifs /\ new[len + 1].event.source_id \in DOMAIN ifs
        /\ ifs[new[m].event.source_id] = ifs[new[len + 1].event.source_id] =>
              new[m].event.source_id = new[len + 1].event.source_id
    BY <2>3 DEF IndexesOK
  <2>5. ifs[ret[m].event.source_id] = ifs[e.source_id]
           <=> ret[m].event.source_id = e.source_id
    BY <1>2, <2>2, <2>4
  <2>6. Key(evs[i]) = key <=> Key(ret[m].event) = Key(e)
    BY <1>1, <2>1, <2>5 DEF Key, RequestKey, SameEvent
  <2> QED
    BY <1>2, <2>1, <2>2, <2>6
<1>6. PICK open : open = OpenIn(off, s, inputs)
  OBVIOUS
<1>7. OpenIn(off, t, inputs) = open /\ open \subseteq inputs
  <2>1. open \subseteq inputs
    BY <1>6 DEF OpenIn
  <2> QED
    BY <1>2, <1>6, <2>1, OpenStays
<1>8. PICK partner : partner = PartnerIn(off, t, n + 1, inputs \cup {n + 1})
  OBVIOUS
<1>9. \A j : j \in partner <=> j \in open /\ SameIn(off, t, n + 1, j)
  BY <1>7, <1>8, LatestInput
<1>10. \A j : SameIn(off, t, n + 1, j) <=> SameIn(off, t, j, n + 1)
  BY DEF SameIn
<1>11. /\ \A i \in DOMAIN evs :
             evs[i].content \in open =>
                Key(evs[i]) \in DOMAIN requested /\ requested[Key(evs[i])] = evs[i].requested_len
       /\ \A x \in DOMAIN requested :
             \E i \in DOMAIN evs : evs[i].content \in open /\ Key(evs[i]) = x
  <2>1. PICK asked : asked = AskedAll(evs)
    OBVIOUS
  <2>2. /\ \A i \in DOMAIN asked :
              asked[i].event.content \in open =>
                 /\ Key(asked[i].event) \in DOMAIN requested
                 /\ requested[Key(asked[i].event)] = asked[i].event.timestamp
        /\ \A x \in DOMAIN requested :
              \E i \in DOMAIN asked : asked[i].event.content \in open /\ Key(asked[i].event) = x
    BY <1>4, <1>6, <2>1 DEF Opened
  <2>3. /\ DOMAIN asked = DOMAIN evs
        /\ \A i \in DOMAIN evs :
              /\ Key(asked[i].event) = Key(evs[i])
              /\ asked[i].event.content = evs[i].content
              /\ asked[i].event.timestamp = evs[i].requested_len
    BY <2>1, AskedIs
  <2> QED
    BY <2>2, <2>3
<1>12. ASSUME key \in DOMAIN requested PROVE partner # {}
  <2>1. PICK i \in DOMAIN evs : evs[i].content \in open /\ Key(evs[i]) = key
    BY <1>11, <1>12
  <2> QED
    BY <1>5, <1>9, <1>10, <2>1
<1>13. ASSUME NEW j \in partner
       PROVE  \E m \in Held(ret, k) : \E i \in DOMAIN evs :
                 /\ ret[m].event.content = j /\ SameEvent(ret[m].event, ifs, evs[i])
                 /\ key \in DOMAIN requested /\ requested[key] = ret[m].event.requested_len
  <2>1. j \in open /\ j \in inputs /\ SameIn(off, t, j, n + 1)
    BY <1>7, <1>9, <1>10, <1>13
  <2>2. PICK i \in DOMAIN evs : evs[i].content = j
    BY <1>4, <2>1 DEF ReadSoFar
  <2>3. Key(evs[i]) = key
    BY <1>5, <2>1, <2>2
  <2>4. key \in DOMAIN requested /\ requested[key] = evs[i].requested_len
    BY <1>11, <2>1, <2>2, <2>3
  <2>5. PICK m \in Held(ret, k) : SameEvent(ret[m].event, ifs, evs[i])
    BY <1>5
  <2>6. s[j].event_type = "S"
    BY <1>6, <2>1 DEF OpenIn
  <2>7. ret[m].event.content = j /\ m \in DOMAIN ret
    BY <2>2, <2>5 DEF SameEvent, Held
  <2>8. ret[m].event.event_type = "S"
    BY <2>6, <2>7 DEF Told
  <2>9. evs[i].requested_len = ret[m].event.requested_len
    BY <2>5, <2>8 DEF SameEvent
  <2> QED
    BY <2>4, <2>5, <2>7, <2>9
<1>14. ASSUME NEW m \in DOMAIN new, new[m].event.content \in partner
       PROVE  requested[key] = new[m].event.requested_len
  <2>1. PICK j \in partner : j = new[m].event.content
    BY <1>14
  <2>2. PICK a \in Held(ret, k) : ret[a].event.content = j /\ requested[key] = ret[a].event.requested_len
    BY <1>13
  <2>3. j \in 1 .. n
    BY <1>7, <1>9, <2>1
  <2>4. m # len + 1
    BY <1>2, <2>1, <2>3
  <2>5. m \in 1 .. len /\ new[m] = ret[m] /\ a \in DOMAIN ret
    BY <1>2, <2>4 DEF Held
  <2>6. a = m
    BY <1>2, <2>1, <2>2, <2>5 DEF Told
  <2> QED
    BY <2>2, <2>5, <2>6
<1>15. ASSUME partner # {} PROVE \E m \in DOMAIN new : new[m].event.content \in partner
  <2>1. PICK j : j \in partner
    BY <1>15
  <2>2. PICK a \in Held(ret, k) : ret[a].event.content = j
    BY <1>13, <2>1
  <2>3. a \in DOMAIN new /\ new[a] = ret[a]
    BY <1>2, <1>3
  <2> QED
    BY <2>1, <2>2, <2>3
<1>16. partner # {} => key \in DOMAIN requested
  BY <1>13
<1>17. Found(off, t, new, n, inputs, requested, key)
  BY <1>8, <1>12, <1>14, <1>15, <1>16 DEF Found
<1> QED
  BY <1>1, <1>4, <1>5, <1>17 DEF KeysFit

\* What comes before the latest input.
LEMMA BeforeLatest ==
    ASSUME NEW n \in Nat, NEW inputs \in SUBSET (1 .. n)
    PROVE  {j \in inputs \cup {n + 1} : j < n + 1} = inputs
<1>1. PICK latest : latest = n + 1
  OBVIOUS
<1>2. (\A j \in inputs : j < latest) /\ ~(latest < latest)
  BY <1>1
<1>3. {j \in inputs \cup {latest} : j < latest} = inputs
  BY <1>2
<1> QED
  BY <1>1, <1>3

\* The reader gives up exactly where the events say.
LEMMA RefusedIsBad ==
    ASSUME NEW off \in BOOLEAN, NEW s, NEW t, NEW n \in Nat, Agree(t, s, n),
           NEW inputs \in SUBSET (1 .. n), NEW new, NEW e, e.content = n + 1, NEW r, NEW index,
           Found(off, t, new, n, inputs, r.requested, RequestKey(index, e.urb_id)),
           Cardinality(DOMAIN r.requested) = Cardinality(OpenIn(off, s, inputs))
    PROVE  Refused(r, index, e) <=> Bad(off, t, new, inputs \cup {n + 1}, e)
<1>1. PICK requested : requested = r.requested
  OBVIOUS
<1>2. PICK key : key = RequestKey(index, e.urb_id)
  OBVIOUS
<1>3. CASE e.event_type = "S"
  <2>1. {j \in inputs \cup {n + 1} : j < n + 1} = inputs
    BY BeforeLatest
  <2>2. OpenIn(off, t, inputs) = OpenIn(off, s, inputs)
    BY OpenStays
  <2>3. Bad(off, t, new, inputs \cup {n + 1}, e)
           <=> Cardinality(OpenIn(off, t, {j \in inputs \cup {n + 1} : j < n + 1})) >= MaxUnmatched
    BY <1>3 DEF Bad
  <2>4. Refused(r, index, e) <=> Cardinality(DOMAIN r.requested) >= MaxUnmatched
    BY <1>3 DEF Refused
  <2> QED
    BY <2>1, <2>2, <2>3, <2>4
<1>4. CASE e.event_type # "S"
  <2>1. PICK partner : partner = PartnerIn(off, t, n + 1, inputs \cup {n + 1})
    OBVIOUS
  <2>2. Bad(off, t, new, inputs \cup {n + 1}, e) <=>
           \E m \in DOMAIN new :
              /\ new[m].event.content \in partner
              /\ \E f \in Range(e.frames) : f.offset + f.length > new[m].event.requested_len
    BY <1>4, <2>1 DEF Bad
  <2>3. Refused(r, index, e) <=>
           /\ key \in DOMAIN requested
           /\ \E f \in Range(e.frames) : f.offset + f.length > requested[key]
    BY <1>1, <1>2, <1>4 DEF Refused
  <2>4. /\ key \in DOMAIN requested <=> partner # {}
        /\ \A m \in DOMAIN new :
              new[m].event.content \in partner => requested[key] = new[m].event.requested_len
        /\ partner # {} => \E m \in DOMAIN new : new[m].event.content \in partner
    BY <1>1, <1>2, <2>1 DEF Found
  <2> QED
    BY <2>2, <2>3, <2>4
<1> QED
  BY <1>3, <1>4

\* A completion is read with the length of its partner.
LEMMA PairIsRead ==
    ASSUME NEW off, NEW t, NEW n, NEW inputs, NEW new, NEW e, e.content = n + 1, NEW r, NEW index,
           Found(off, t, new, n, inputs, r.requested, RequestKey(index, e.urb_id)),
           NEW x, BackOf(r, index, e, x)
    PROVE  PairBack(off, t, new, inputs \cup {n + 1}, x)
<1> SUFFICES ASSUME x.event_type # "S" PROVE PairBack(off, t, new, inputs \cup {n + 1}, x)
  BY DEF PairBack
<1>1. PICK key : key = RequestKey(index, e.urb_id)
  OBVIOUS
<1>2. PICK partner : partner = PartnerIn(off, t, n + 1, inputs \cup {n + 1})
  OBVIOUS
<1>3. /\ x.content = n + 1 /\ (x.requested_known <=> key \in DOMAIN r.requested)
      /\ (x.requested_known => x.requested_len = r.requested[key])
  BY <1>1 DEF BackOf
<1>4. /\ key \in DOMAIN r.requested <=> partner # {}
      /\ \A m \in DOMAIN new :
            new[m].event.content \in partner => r.requested[key] = new[m].event.requested_len
  BY <1>1, <1>2 DEF Found
<1>5. /\ x.requested_known <=> partner # {}
      /\ \A m \in DOMAIN new :
            new[m].event.content \in partner => x.requested_len = new[m].event.requested_len
  BY <1>3, <1>4
<1> QED
  BY <1>2, <1>3, <1>5 DEF PairBack

\* The event that was read has a key, too, and the reader's table follows it.
LEMMA AskedGrown ==
    ASSUME NEW off \in BOOLEAN, NEW s, NEW t, NEW n \in Nat, Agree(t, s, n), NEW e,
           t[n + 1].event_type = e.event_type, e.content = n + 1,
           NEW evs \in Seq(EventTypes(Nat)), NEW evs2, NEW x \in EventTypes(Nat), evs2 = Append(evs, x),
           NEW r, NEW index, BackOf(r, index, e, x),
           KeysFit(off, t, n, evs, RequestKey(index, e.urb_id))
    PROVE  Grown(off, s, t, n, AskedAll(evs), AskedAll(evs2), Len(evs), Asked(x))
<1>1. PICK len \in Nat : len = Len(evs) /\ DOMAIN evs = 1 .. len
  OBVIOUS
<1>2. /\ DOMAIN evs2 = 1 .. (len + 1) /\ evs2[len + 1] = x
      /\ \A i \in 1 .. len : evs2[i] = evs[i]
  BY <1>1
<1>3. PICK asked : asked = AskedAll(evs)
  OBVIOUS
<1>4. PICK asked2 : asked2 = AskedAll(evs2)
  OBVIOUS
<1>5. /\ DOMAIN asked = 1 .. len
      /\ \A i \in 1 .. len : /\ Key(asked[i].event) = Key(evs[i])
                             /\ asked[i].event.content = evs[i].content
  BY <1>1, <1>3, AskedIs
<1>6. DOMAIN asked2 = 1 .. (len + 1) /\ asked2[len + 1].event = Asked(x)
  <2>1. len + 1 \in 1 .. (len + 1)
    OBVIOUS
  <2>2. asked2 = [i \in 1 .. (len + 1) |-> [event |-> Asked(evs2[i])]]
    BY <1>2, <1>4 DEF AskedAll
  <2>3. asked2[len + 1] = [event |-> Asked(x)]
    BY <1>2, <2>1, <2>2
  <2>4. DOMAIN asked2 = 1 .. (len + 1)
    BY <2>2
  <2>5. asked2[len + 1].event = Asked(x)
    BY <2>3
  <2> QED
    BY <2>4, <2>5
<1>7. \A i \in 1 .. len : asked2[i] = asked[i]
  BY <1>1, <1>2, <1>3, <1>4 DEF AskedAll
<1>8. /\ Asked(x).content = n + 1 /\ Asked(x).event_type = t[n + 1].event_type
      /\ Key(Asked(x)) = RequestKey(index, e.urb_id)
  BY DEF Asked, BackOf, Key
<1>9. \A m \in 1 .. len :
         /\ asked[m].event.content \in 1 .. n
         /\ Key(asked[m].event) = Key(Asked(x)) <=> SameIn(off, t, asked[m].event.content, n + 1)
  BY <1>1, <1>5, <1>8 DEF KeysFit
<1>10. Grown(off, s, t, n, asked, asked2, len, Asked(x))
  BY <1>5, <1>6, <1>7, <1>8, <1>9 DEF Grown, Agree
<1> QED
  BY <1>1, <1>3, <1>4, <1>10

\* An event that is read back is the latest of its file.
LEMMA BackIsNew ==
    ASSUME NEW off, NEW t, NEW n \in Nat, NEW new, NEW k, NEW m \in Held(new, k), NEW e,
           new[m].event = e, e.content = n + 1,
           NEW inputs \in SUBSET (1 .. n), Inputs(new, k) = inputs \cup {n + 1},
           NEW ifs, NEW evs \in Seq(EventTypes(Nat)), inputs = {evs[i].content : i \in DOMAIN evs},
           NEW x \in EventTypes(Nat), NEW evs2, evs2 = Append(evs, x),
           NEW r, BackOf(r, ifs[e.source_id], e, x), PairBack(off, t, new, inputs \cup {n + 1}, x)
    PROVE  BackIs(off, t, new, k, ifs, evs2, Len(evs) + 1)
<1>1. PICK len \in Nat : len = Len(evs) /\ DOMAIN evs = 1 .. len
  OBVIOUS
<1>2. /\ evs2[len + 1] = x /\ \A i \in 1 .. len : evs2[i] = evs[i]
  BY <1>1
<1>3. SameEvent(e, ifs, x) /\ x.content = n + 1
  BY DEF SameEvent, BackOf
<1>4. {evs2[j].content : j \in 1 .. len} = inputs
  BY <1>1, <1>2
<1>5. {c \in inputs \cup {n + 1} : c < n + 1} = inputs
  BY BeforeLatest
<1>6. (len + 1) - 1 = len
  OBVIOUS
<1>7. BackIs(off, t, new, k, ifs, evs2, len + 1)
  BY <1>2, <1>3, <1>4, <1>5, <1>6 DEF BackIs
<1> QED
  BY <1>1, <1>7

\* The file holds one event more, the latest.
HoldsMore(ret, new, k, n, len, e) ==
    /\ Inputs(new, k) = Inputs(ret, k) \cup {n + 1}
    /\ Held(new, k) = Held(ret, k) \cup {len + 1}
    /\ new[len + 1].event = e

\* The file is wider by its new event.
LEMMA HeldWider ==
    ASSUME NEW off, NEW s, NEW t, NEW n \in Nat, NEW ret, NEW new, NEW len \in Nat, NEW e,
           Grown(off, s, t, n, ret, new, len, e), NEW k, OneMore(ret, new, len, e, k),
           NEW w, NEW w2, NEW index, Placed(w, w2, e, index), IndexesOK(ret, k, w.interfaces)
    PROVE  /\ Carried(s, t, n, ret, new)
           /\ Wider(ret, new, k, n, w.interfaces, w2.interfaces)
           /\ HoldsMore(ret, new, k, n, len, e)
<1>1. /\ Agree(t, s, n) /\ DOMAIN ret = 1 .. len /\ DOMAIN new = 1 .. (len + 1)
      /\ \A m \in 1 .. len : new[m] = ret[m] /\ ret[m].event.content \in 1 .. n
      /\ new[len + 1].event = e /\ e.content = n + 1
  BY DEF Grown, Agree
<1>2. Held(new, k) = Held(ret, k) \cup {len + 1} /\ Held(ret, k) \subseteq 1 .. len
  BY HeldMore
<1>3. Carried(s, t, n, ret, new)
  BY <1>1 DEF Carried
<1>4. \A m \in Held(ret, k) : new[m] = ret[m]
  BY <1>1, <1>2
<1>5. Inputs(new, k) = Inputs(ret, k) \cup {n + 1}
  BY <1>1, <1>2, <1>4 DEF Inputs
<1>6. \A m \in Held(ret, k) : ret[m].event.source_id \in DOMAIN w.interfaces
  BY DEF IndexesOK
<1>7. \A m \in Held(ret, k) :
         w2.interfaces[ret[m].event.source_id] = w.interfaces[ret[m].event.source_id]
  BY <1>6 DEF Placed
<1>8. Wider(ret, new, k, n, w.interfaces, w2.interfaces)
  BY <1>2, <1>5, <1>7 DEF Wider, Upto
<1> QED
  BY <1>1, <1>2, <1>3, <1>5, <1>8 DEF HoldsMore

\* The reader gives up on the file if it did before, or at the new event.
LEMMA BadNow ==
    ASSUME NEW off \in BOOLEAN, NEW s, NEW t, NEW n \in Nat, NEW ret, NEW new, NEW len,
           NEW k, NEW e, Carried(s, t, n, ret, new), HoldsMore(ret, new, k, n, len, e)
    PROVE  Doomed(off, t, new, k)
              <=> Doomed(off, s, ret, k) \/ Bad(off, t, new, Inputs(new, k), e)
<1>1. PICK inputs \in SUBSET (1 .. n) : inputs = Inputs(ret, k)
  BY InputsAre
<1>2. PICK wider : wider = Inputs(new, k)
  OBVIOUS
<1>3. Upto(inputs, wider, n)
  BY <1>1, <1>2 DEF Upto, HoldsMore
<1>4. ASSUME NEW m \in Held(ret, k)
      PROVE  Bad(off, t, new, wider, new[m].event) <=> Bad(off, s, ret, inputs, ret[m].event)
  <2>1. PICK x : x = ret[m].event
    OBVIOUS
  <2>2. x.content \in 1 .. n /\ new[m].event = x
    BY <2>1 DEF Held, Carried
  <2>3. Bad(off, t, new, wider, x) <=> Bad(off, s, ret, inputs, x)
    BY <1>3, <2>2, BadStays
  <2> QED
    BY <2>1, <2>2, <2>3
<1> QED
  BY <1>1, <1>2, <1>4 DEF Doomed, HoldsMore

\* The reader's table has one entry for each open submission of the file.
LEMMA TableCounted ==
    ASSUME NEW off \in BOOLEAN, NEW s, NEW n \in Nat, NEW ret, KeysOK(off, s, ret), NEW k, NEW ifs,
           IndexesOK(ret, k, ifs), NEW evs, ReadSoFar(ret, k, ifs, evs),
           Inputs(ret, k) \in SUBSET (1 .. n),
           NEW requested, Opened(off, s, AskedAll(evs), Inputs(ret, k), requested)
    PROVE  Cardinality(DOMAIN requested) = Cardinality(OpenIn(off, s, Inputs(ret, k)))
<1>1. PICK inputs \in SUBSET (1 .. n) : inputs = Inputs(ret, k)
  OBVIOUS
<1>2. IsFiniteSet(inputs) /\ inputs \in SUBSET Nat
  <2>1. IsFiniteSet(1 .. n)
    BY FS_Interval
  <2>2. IsFiniteSet(inputs)
    BY <2>1, FS_Subset
  <2> QED
    BY <2>2
<1>3. KeysOK(off, s, AskedAll(evs)) /\ AllReturned(AskedAll(evs), inputs)
  BY <1>1, AskedKeys
<1>4. Opened(off, s, AskedAll(evs), inputs, requested)
  BY <1>1
<1>5. Cardinality(DOMAIN requested) = Cardinality(OpenIn(off, s, inputs))
  BY <1>2, <1>3, <1>4, OneEntryEach
<1> QED
  BY <1>1, <1>5

\* The reader finds the new event, or gives up on it.
ReadMore(off, t, new, k, ifs2, back, back2, e) ==
    /\ back2.reader.failed <=> Bad(off, t, new, Inputs(new, k), e)
    /\ back2.reader.incomplete = 0
    /\ back2.reader.failed => back2.events = back.events
    /\ ~back2.reader.failed =>
          /\ \E x \in EventTypes(Nat) : back2.events = Append(back.events, x)
          /\ BackIs(off, t, new, k, ifs2, back2.events, Len(back.events) + 1)
          /\ Going(off, t, new, k, ifs2, back2)

\* Reading on gives the new event, or nothing more.
LEMMA BackReads ==
    ASSUME NEW off \in BOOLEAN, NEW s, NEW t, NEW n \in Nat, NEW ret, NEW new, NEW len \in Nat,
           NEW e \in EventTypes(Nat), Grown(off, s, t, n, ret, new, len, e), Told(s, ret),
           KeysOK(off, s, ret), NEW k, OneMore(ret, new, len, e, k),
           NEW ifs, NEW ifs2, IndexesOK(ret, k, ifs), IndexesOK(new, k, ifs2),
           Wider(ret, new, k, n, ifs, ifs2),
           NEW back \in BackTypes, NEW back2 \in BackTypes, ~back.reader.failed,
           AllBack(off, s, ret, k, ifs, back.events), Going(off, s, ret, k, ifs, back),
           ReadsOn(back, back2, Interfaces(ifs2), ifs2[e.source_id], e)
    PROVE  ReadMore(off, t, new, k, ifs2, back, back2, e)
<1>1. PICK evs \in Seq(EventTypes(Nat)) : evs = back.events
  BY DEF BackTypes
<1>2. PICK index : index = ifs2[e.source_id]
  OBVIOUS
<1>3. PICK n2 : n2 = Interfaces(ifs2)
  OBVIOUS
<1>4. PICK r : /\ Ready(r, n2) /\ r.requested = back.reader.requested
              /\ ReadOn(r, n2, index, e, back2.reader)
              /\ back2.events = evs \o back2.reader.event
  BY <1>1, <1>2, <1>3 DEF ReadsOn
<1>5. PICK key : key = RequestKey(index, e.urb_id)
  OBVIOUS
<1>6. /\ Agree(t, s, n) /\ e.content = n + 1 /\ t[n + 1].event_type = e.event_type
      /\ new[len + 1].event = e
  BY DEF Grown
<1>7. /\ Carried(s, t, n, ret, new) /\ Inputs(new, k) = Inputs(ret, k) \cup {n + 1}
      /\ len + 1 \in Held(new, k)
  <2>1. /\ DOMAIN ret = 1 .. len /\ DOMAIN new = 1 .. (len + 1)
        /\ \A m \in 1 .. len : new[m] = ret[m] /\ ret[m].event.content \in 1 .. n
    BY DEF Grown, Agree
  <2>2. Held(new, k) = Held(ret, k) \cup {len + 1} /\ Held(ret, k) \subseteq 1 .. len
    BY HeldMore
  <2>3. Carried(s, t, n, ret, new)
    BY <1>6, <2>1 DEF Carried
  <2>4. \A m \in Held(ret, k) : new[m] = ret[m]
    BY <2>1, <2>2
  <2> QED
    BY <1>6, <2>2, <2>3, <2>4 DEF Inputs
<1>8. PICK inputs \in SUBSET (1 .. n) : inputs = Inputs(ret, k)
  BY <1>7, InputsAre
<1>9. /\ inputs = {evs[i].content : i \in DOMAIN evs}
      /\ Opened(off, s, AskedAll(evs), Inputs(ret, k), r.requested)
  BY <1>1, <1>4, <1>8 DEF Going
<1>10. ReadSoFar(ret, k, ifs, evs) /\ ReadSoFar(ret, k, ifs2, evs)
  <2>1. ASSUME NEW i \in DOMAIN evs
        PROVE  \E m \in Held(ret, k) :
                  SameEvent(ret[m].event, ifs, evs[i]) /\ SameEvent(ret[m].event, ifs2, evs[i])
    <3>1. PICK m \in Held(ret, k) : SameEvent(ret[m].event, ifs, evs[i])
      BY <1>1 DEF BackIs, AllBack
    <3>2. SameEvent(ret[m].event, ifs2, evs[i])
      BY <3>1 DEF SameEvent, Wider
    <3> QED
      BY <3>1, <3>2
  <2> QED
    BY <1>8, <1>9, <2>1 DEF ReadSoFar
<1>11. Found(off, t, new, n, inputs, r.requested, key) /\ KeysFit(off, t, n, evs, key)
  <2>1. /\ Found(off, t, new, n, Inputs(ret, k), r.requested,
                 RequestKey(ifs2[e.source_id], e.urb_id))
        /\ KeysFit(off, t, n, evs, RequestKey(ifs2[e.source_id], e.urb_id))
    BY <1>9, <1>10, Lookup
  <2> QED
    BY <1>2, <1>5, <1>8, <2>1
<1>12. Cardinality(DOMAIN r.requested) = Cardinality(OpenIn(off, s, inputs))
  <2>1. Inputs(ret, k) \in SUBSET (1 .. n)
    BY <1>8
  <2>2. Cardinality(DOMAIN r.requested) = Cardinality(OpenIn(off, s, Inputs(ret, k)))
    BY <1>9, <1>10, <2>1, TableCounted
  <2> QED
    BY <1>8, <2>2
<1>13. Refused(r, index, e) <=> Bad(off, t, new, inputs \cup {n + 1}, e)
  BY <1>5, <1>6, <1>11, <1>12, RefusedIsBad
<1>14. CASE Refused(r, index, e)
  <2>1. back2.reader.failed /\ back2.reader.incomplete = 0 /\ back2.reader.event = <<>>
    BY <1>4, <1>14 DEF ReadOn
  <2>2. back2.events = evs
    BY <1>4, <2>1
  <2> QED
    BY <1>1, <1>7, <1>8, <1>13, <1>14, <2>1, <2>2 DEF ReadMore
<1>15. CASE ~Refused(r, index, e)
  <2>1. /\ Ready(back2.reader, n2)
        /\ back2.reader.requested = IF e.event_type = "S"
                                    THEN Inserted(r.requested, key, e.requested_len)
                                    ELSE Removed(r.requested, key)
        /\ \E x : back2.reader.event = <<x>> /\ BackOf(r, index, e, x)
    BY <1>4, <1>5, <1>15 DEF ReadOn
  <2>2. PICK x : back2.reader.event = <<x>> /\ BackOf(r, index, e, x)
    BY <2>1
  <2>3. x \in EventTypes(Nat)
    BY <2>2 DEF BackOf
  <2>4. PICK evs2 : evs2 = back2.events
    OBVIOUS
  <2>5. evs2 = Append(evs, x)
    <3>1. evs \o <<x>> = Append(evs, x)
      BY <2>3
    <3> QED
      BY <1>4, <2>2, <2>4, <3>1
  <2>6. PairBack(off, t, new, inputs \cup {n + 1}, x)
    BY <1>5, <1>6, <1>11, <2>2, PairIsRead
  <2>7. BackIs(off, t, new, k, ifs2, evs2, Len(evs) + 1)
    <3>1. BackOf(r, ifs2[e.source_id], e, x) /\ Inputs(new, k) = inputs \cup {n + 1}
      BY <1>2, <1>7, <1>8, <2>2
    <3> QED
      BY <1>6, <1>7, <1>9, <2>3, <2>5, <2>6, <3>1, BackIsNew
  <2>8. Opened(off, t, AskedAll(evs2), inputs \cup {n + 1}, back2.reader.requested)
    <3>1. PICK L \in Nat : L = Len(evs)
      OBVIOUS
    <3>2. Grown(off, s, t, n, AskedAll(evs), AskedAll(evs2), L, Asked(x))
      BY <1>5, <1>6, <1>11, <2>2, <2>3, <2>5, <3>1, AskedGrown
    <3>3. Opened(off, s, AskedAll(evs), inputs, r.requested)
      BY <1>8, <1>9
    <3>4. Opened(off, t, AskedAll(evs2), inputs \cup {n + 1}, Tracked(r.requested, Asked(x)))
      BY <3>2, <3>3, OpenedJudged
    <3>5. /\ Asked(x).event_type = e.event_type /\ Key(Asked(x)) = key
          /\ e.event_type = "S" => Asked(x).timestamp = e.requested_len
      BY <1>5, <2>2 DEF Asked, Key, BackOf
    <3>6. Tracked(r.requested, Asked(x)) = back2.reader.requested
      BY <2>1, <3>5 DEF Tracked
    <3> QED
      BY <3>4, <3>6
  <2>9. inputs \cup {n + 1} = {evs2[i].content : i \in DOMAIN evs2}
    <3>1. PICK L \in Nat : L = Len(evs) /\ DOMAIN evs = 1 .. L
      OBVIOUS
    <3>2. /\ DOMAIN evs2 = 1 .. (L + 1) /\ evs2[L + 1] = x
          /\ \A i \in 1 .. L : evs2[i] = evs[i]
      BY <2>3, <2>5, <3>1
    <3>3. x.content = n + 1
      BY <1>6, <2>2 DEF BackOf
    <3>4. \A i \in 1 .. (L + 1) : i \in 1 .. L \/ i = L + 1
      OBVIOUS
    <3>5. \A i \in 1 .. L : i \in 1 .. (L + 1)
      OBVIOUS
    <3>6. L + 1 \in 1 .. (L + 1)
      OBVIOUS
    <3>7. \A c \in inputs \cup {n + 1} : \E i \in DOMAIN evs2 : c = evs2[i].content
      BY <1>9, <3>1, <3>2, <3>3, <3>5, <3>6
    <3>8. \A i \in DOMAIN evs2 : evs2[i].content \in inputs \cup {n + 1}
      BY <1>9, <3>1, <3>2, <3>3, <3>4
    <3>9. inputs \cup {n + 1} \subseteq {evs2[i].content : i \in DOMAIN evs2}
      BY ONLY <3>7
    <3>10. {evs2[i].content : i \in DOMAIN evs2} \subseteq inputs \cup {n + 1}
      BY ONLY <3>8
    <3> QED
      BY ONLY <3>9, <3>10
  <2>10. Going(off, t, new, k, ifs2, back2)
    BY <1>3, <1>7, <1>8, <2>1, <2>4, <2>8, <2>9 DEF Going
  <2>11. ~back2.reader.failed /\ back2.reader.incomplete = 0
    BY <2>1 DEF Ready
  <2> QED
    BY <1>1, <1>7, <1>8, <1>13, <1>15, <2>3, <2>4, <2>5, <2>7, <2>10, <2>11 DEF ReadMore
<1> QED
  BY <1>14, <1>15

\* An event that is written to the file is read back from it.
LEMMA BackGrows ==
    ASSUME NEW off \in BOOLEAN, NEW s, NEW t, NEW n \in Nat, NEW ret, NEW new, NEW len \in Nat,
           NEW e \in EventTypes(Nat), WholeEvent(e), Grown(off, s, t, n, ret, new, len, e),
           Told(s, ret), KeysOK(off, s, ret), NEW k, OneMore(ret, new, len, e, k),
           NEW w \in WriterTypes, w.blocks \in Seq(WrittenBlocks),
           BackOK(off, s, ret, k, w.interfaces, ReadBack(w.blocks))
    PROVE  BackOK(off, t, new, k, WriteEvent(w, e).interfaces, ReadBack(WriteEvent(w, e).blocks))
<1>1. PICK w2 : w2 = WriteEvent(w, e)
  OBVIOUS
<1>2. PICK ifs : ifs = w.interfaces
  OBVIOUS
<1>3. PICK ifs2 : ifs2 = w2.interfaces
  OBVIOUS
<1>4. PICK back : back = ReadBack(w.blocks)
  OBVIOUS
<1>5. PICK back2 : back2 = ReadBack(w2.blocks)
  OBVIOUS
<1>6. BackOK(off, s, ret, k, ifs, back)
  BY <1>2, <1>4
<1>7. IndexesOK(ret, k, ifs) /\ back \in BackTypes /\ back.reader.incomplete = 0
  BY <1>6 DEF BackOK
<1>8. PICK index \in Nat :
         /\ Placed(w, w2, e, index)
         /\ e.source_id \in DOMAIN w.interfaces \/ index = Cardinality(DOMAIN w.interfaces)
  BY <1>1, <1>2, <1>7, WritePlaces DEF IndexesOK
<1>9. IndexesOK(new, k, ifs2)
  BY <1>2, <1>3, <1>7, <1>8, IndexesStay
<1>10. /\ Carried(s, t, n, ret, new) /\ Wider(ret, new, k, n, ifs, ifs2)
       /\ HoldsMore(ret, new, k, n, len, e)
  <2>1. IndexesOK(ret, k, w.interfaces) /\ Placed(w, w2, e, index)
    BY <1>2, <1>7, <1>8
  <2>2. /\ Carried(s, t, n, ret, new)
        /\ Wider(ret, new, k, n, w.interfaces, w2.interfaces)
        /\ HoldsMore(ret, new, k, n, len, e)
    BY <2>1, HeldWider
  <2> QED
    BY <1>2, <1>3, <2>2
<1>11. index = ifs2[e.source_id]
  BY <1>3, <1>8 DEF Placed
<1>12. ~back.reader.failed => Going(off, s, ret, k, ifs, back)
  BY <1>6 DEF BackOK
<1>13. ~back.reader.failed => Ready(back.reader, Interfaces(ifs))
  BY <1>12 DEF Going
<1>14. back2 \in BackTypes /\ ReadsOn(back, back2, Interfaces(ifs2), index, e)
  BY <1>2, <1>3, <1>4, <1>5, <1>8, <1>13, WrittenIsRead
<1>15. back.reader.failed <=> Doomed(off, s, ret, k)
  BY <1>6 DEF BackOK
<1>16. Doomed(off, t, new, k) <=> Doomed(off, s, ret, k) \/ Bad(off, t, new, Inputs(new, k), e)
  BY <1>10, BadNow
<1>17. PICK evs \in Seq(EventTypes(Nat)) : evs = back.events
  BY <1>7 DEF BackTypes
<1>18. PICK L \in Nat : L = Len(evs) /\ DOMAIN evs = 1 .. L
  OBVIOUS
<1>19. PICK evs2 : evs2 = back2.events
  OBVIOUS
<1>20. \A i \in 1 .. L : BackIs(off, s, ret, k, ifs, evs, i)
  BY <1>6, <1>17, <1>18 DEF BackOK, AllBack
<1>21. ASSUME Agree(evs2, evs, L), NEW i \in 1 .. L PROVE BackIs(off, t, new, k, ifs2, evs2, i)
  BY <1>10, <1>20, <1>21, BackIsStays
<1>22. CASE back.reader.failed
  <2>1. back2.reader.failed /\ evs2 = evs /\ back2.reader.incomplete = 0
    BY <1>7, <1>14, <1>17, <1>19, <1>22 DEF ReadsOn
  <2>2. Agree(evs2, evs, L)
    BY <2>1 DEF Agree
  <2>3. \A i \in DOMAIN evs2 : BackIs(off, t, new, k, ifs2, evs2, i)
    BY <1>18, <1>21, <2>1, <2>2
  <2>4. BackOK(off, t, new, k, ifs2, back2)
    BY <1>9, <1>14, <1>15, <1>16, <1>19, <1>22, <2>1, <2>3 DEF BackOK, AllBack
  <2> QED
    BY <1>1, <1>3, <1>5, <2>4
<1>23. CASE ~back.reader.failed
  <2>0. ReadMore(off, t, new, k, ifs2, back, back2, e)
    <3>1. AllBack(off, s, ret, k, ifs, back.events)
      BY <1>6 DEF BackOK
    <3>2. Going(off, s, ret, k, ifs, back)
      BY <1>12, <1>23
    <3>3. ReadsOn(back, back2, Interfaces(ifs2), ifs2[e.source_id], e)
      BY <1>11, <1>14
    <3> QED
      BY <1>7, <1>9, <1>10, <1>14, <1>23, <3>1, <3>2, <3>3, BackReads
  <2>1. /\ back2.reader.failed <=> Bad(off, t, new, Inputs(new, k), e)
        /\ back2.reader.incomplete = 0
        /\ back2.reader.failed => back2.events = back.events
        /\ ~back2.reader.failed =>
              /\ \E x \in EventTypes(Nat) : back2.events = Append(back.events, x)
              /\ BackIs(off, t, new, k, ifs2, back2.events, Len(back.events) + 1)
              /\ Going(off, t, new, k, ifs2, back2)
    BY <2>0 DEF ReadMore
  <2>2. Agree(evs2, evs, L) /\ \A i \in DOMAIN evs2 : BackIs(off, t, new, k, ifs2, evs2, i)
    <3>1. CASE back2.reader.failed
      <4>1. evs2 = evs
        BY <1>17, <1>19, <2>1, <3>1
      <4>2. Agree(evs2, evs, L)
        BY <4>1 DEF Agree
      <4> QED
        BY <1>18, <1>21, <4>1, <4>2
    <3>2. CASE ~back2.reader.failed
      <4>1. PICK x \in EventTypes(Nat) : evs2 = Append(evs, x)
        BY <1>17, <1>19, <2>1, <3>2
      <4>2. DOMAIN evs2 = 1 .. (L + 1) /\ \A i \in 1 .. L : evs2[i] = evs[i]
        BY <1>18, <4>1
      <4>3. Agree(evs2, evs, L)
        BY <4>2 DEF Agree
      <4>4. BackIs(off, t, new, k, ifs2, evs2, L + 1)
        BY <1>17, <1>18, <1>19, <2>1, <3>2
      <4>5. \A i \in 1 .. (L + 1) : i \in 1 .. L \/ i = L + 1
        OBVIOUS
      <4> QED
        BY <1>21, <4>2, <4>3, <4>4, <4>5
    <3> QED
      BY <3>1, <3>2
  <2>3. back2.reader.failed <=> Doomed(off, t, new, k)
    BY <1>15, <1>16, <1>23, <2>1
  <2>4. BackOK(off, t, new, k, ifs2, back2)
    BY <1>9, <1>14, <1>19, <2>1, <2>2, <2>3 DEF BackOK, AllBack
  <2> QED
    BY <1>1, <1>3, <1>5, <2>4
<1> QED
  BY <1>22, <1>23

\* The reader agrees with the files at the start.
LEMMA BackInit == Init => BackInv
<1> SUFFICES ASSUME Init, NEW k \in DOMAIN files
             PROVE  BackOK(Offline, input, returned, k, files[k].interfaces,
                           ReadBack(files[k].blocks))
  BY DEF BackInv
<1>1. returned = <<>> /\ (files = <<>> \/ files = <<WriterNew>>)
  BY DEF Init
<1>2. files = <<WriterNew>> /\ k = 1 /\ files[k] = WriterNew
  BY <1>1
<1>3. Held(returned, k) = {}
  BY <1>1 DEF Held
<1>4. BackOK(Offline, input, returned, k, WriterNew.interfaces, ReadBack(WriterNew.blocks))
  BY <1>3, BackEmpty
<1> QED
  BY <1>2, <1>4

\* The history tells what the reader of a file needs to know.
LEMMA HistoryTold == TypeInv /\ HistoryInv => Told(input, returned)
<1> SUFFICES ASSUME TypeInv, HistoryInv, NEW m \in DOMAIN returned
             PROVE  /\ input[returned[m].event.content].event_type = returned[m].event.event_type
                    /\ \A j \in DOMAIN returned :
                          returned[j].event.content = returned[m].event.content => j = m
  BY DEF Told
<1>1. DOMAIN returned \subseteq Nat /\ DOMAIN input \subseteq Nat
  BY DEF TypeInv
<1>2. ASSUME NEW j \in DOMAIN returned, At(j) = At(m) PROVE j = m
  <2>1. At(j) \in Nat /\ ~(At(j) < At(j))
    BY <1>1 DEF HistoryInv, Packets
  <2>2. ~(j < m) /\ ~(m < j)
    BY <1>2, <2>1 DEF HistoryInv
  <2> QED
    BY <1>1, <2>2
<1>3. input[At(m)].event_type = returned[m].event.event_type
  BY DEF HistoryInv
<1> QED
  BY <1>2, <1>3 DEF At

\* An event more is an event more.
LEMMA GrownCarries ==
    ASSUME NEW off, NEW s, NEW t, NEW n \in Nat, NEW ret, NEW new, NEW len \in Nat, NEW e,
           Grown(off, s, t, n, ret, new, len, e)
    PROVE  Carried(s, t, n, ret, new)
<1>1. /\ Agree(t, s, n) /\ DOMAIN ret = 1 .. len /\ DOMAIN new = 1 .. (len + 1)
      /\ \A m \in 1 .. len : new[m] = ret[m] /\ ret[m].event.content \in 1 .. n
      /\ new[len + 1].event = e /\ e.content = n + 1
  BY DEF Grown, Agree
<1> QED
  BY <1>1 DEF Carried

\* A block without event.
LEMMA BackQuiet ==
    ASSUME TypeInv, HistoryInv, BackInv, NEW b, QuietStep(b)
    PROVE  BackInv'
<1>1. Fed(b) /\ returned' = returned /\ files' = files
  BY DEF QuietStep, output
<1>2. PICK off \in BOOLEAN : off = Offline
  BY DEF Offline
<1>3. Offline' = off
  BY <1>1, <1>2, FedInput
<1>4. PICK n \in Nat : n = Len(input)
  BY <1>1, FedInput
<1>5. Agree(input', input, n)
  BY <1>1, <1>4, FedInput DEF Agree
<1>6. \A m \in DOMAIN returned : returned[m].event.content \in 1 .. n
  BY <1>1, <1>4, FedInput DEF HistoryInv, At
<1>7. PICK t : t = input'
  OBVIOUS
<1>8. Carried(input, t, n, returned, returned)
  BY <1>5, <1>6, <1>7 DEF Carried
<1>9. ASSUME NEW k \in DOMAIN files
      PROVE  BackOK(off, t, returned, k, files[k].interfaces, ReadBack(files[k].blocks))
  <2>1. BackOK(off, input, returned, k, files[k].interfaces, ReadBack(files[k].blocks))
    BY <1>2 DEF BackInv
  <2> QED
    BY <1>8, <2>1, BackStays
<1> QED
  BY <1>1, <1>3, <1>7, <1>9 DEF BackInv

\* Some files that an event does not go to.
LEMMA BackOthers ==
    ASSUME NEW off \in BOOLEAN, NEW s, NEW t, NEW n \in Nat, NEW ret, NEW new, NEW len,
           NEW e, NEW file, OneMore(ret, new, len, e, file), Carried(s, t, n, ret, new),
           NEW k, k # file, NEW ifs, NEW back, BackOK(off, s, ret, k, ifs, back)
    PROVE  BackOK(off, t, new, k, ifs, back)
<1>1. Held(new, k) = Held(ret, k)
  BY HeldMore
<1> QED
  BY <1>1, BackStays

\* An event that is written.
LEMMA BackWritten ==
    ASSUME TypeInv, RotationInv, NEW e \in EventTypes(Nat), WholeEvent(e), files # <<>>,
           Write(e), NEW off \in BOOLEAN, NEW t, NEW n \in Nat, NEW new, NEW len \in Nat,
           Grown(off, input, t, n, returned, new, len, e), Told(input, returned),
           KeysOK(off, input, returned),
           OneMore(returned, new, len, e, Len(files')),
           \A k \in DOMAIN files :
              BackOK(off, input, returned, k, files[k].interfaces, ReadBack(files[k].blocks))
    PROVE  \A k \in DOMAIN files' :
              BackOK(off, t, new, k, files'[k].interfaces, ReadBack(files'[k].blocks))
<1>1. PICK fs2 \in Seq(WriterTypes) : fs2 = files'
  BY WriteTypes
<1>2. files \in Seq(WriterTypes)
  BY DEF TypeInv
<1>3. PICK flen \in Nat : flen = Len(files) /\ flen # 0 /\ DOMAIN files = 1 .. flen
  BY <1>2
<1>4. Carried(input, t, n, returned, new)
  BY GrownCarries
<1>5. Rotated(options, returned, files, events, started)
  BY DEF RotationInv
<1>6. PICK file : file = Len(fs2)
  OBVIOUS
<1>7. OneMore(returned, new, len, e, file)
  BY <1>1, <1>6
<1>8. ASSUME NEW k \in 1 .. flen, k # file, fs2[k] = files[k]
      PROVE  BackOK(off, t, new, k, fs2[k].interfaces, ReadBack(fs2[k].blocks))
  <2>1. BackOK(off, input, returned, k, files[k].interfaces, ReadBack(files[k].blocks))
    BY <1>3
  <2>2. BackOK(off, t, new, k, files[k].interfaces, ReadBack(files[k].blocks))
    BY <1>4, <1>7, <1>8, <2>1, BackOthers
  <2> QED
    BY <1>8, <2>2
<1>9. ASSUME NEW w \in WriterTypes, w.blocks \in Seq(WrittenBlocks), fs2[file] = WriteEvent(w, e),
             BackOK(off, input, returned, file, w.interfaces, ReadBack(w.blocks))
      PROVE  BackOK(off, t, new, file, fs2[file].interfaces, ReadBack(fs2[file].blocks))
  <2>1. BackOK(off, t, new, file, WriteEvent(w, e).interfaces, ReadBack(WriteEvent(w, e).blocks))
    BY <1>7, <1>9, BackGrows
  <2> QED
    BY <1>9, <2>1
<1>10. CASE Due(e)
  <2> DEFINE w2 == WriteEvent(WriterNew, e)
  <2>1. fs2 = Append(files, w2)
    BY <1>1, <1>10 DEF Write
  <2>2. WriterNew \in WriterTypes /\ w2 \in WriterTypes
    BY WriterNewType, WriteEventType
  <2> HIDE DEF w2
  <2>3. /\ file = flen + 1 /\ DOMAIN fs2 = 1 .. (flen + 1) /\ fs2[flen + 1] = w2
        /\ \A i \in 1 .. flen : fs2[i] = files[i]
    BY <1>2, <1>3, <1>6, <2>1, <2>2
  <2>4. Held(returned, file) = {}
    BY <1>3, <1>5, <2>3 DEF Rotated, Held
  <2>5. BackOK(off, input, returned, file, WriterNew.interfaces, ReadBack(WriterNew.blocks))
    BY <2>4, BackEmpty
  <2>6. WriterNew.blocks \in Seq(WrittenBlocks)
    BY <2>4, FileNew DEF FileOK
  <2>7. BackOK(off, t, new, file, fs2[file].interfaces, ReadBack(fs2[file].blocks))
    BY <1>9, <2>2, <2>3, <2>5, <2>6 DEF w2
  <2>8. \A k \in 1 .. flen : k # file
    BY <2>3
  <2>9. \A k \in DOMAIN fs2 : k \in 1 .. flen \/ k = file
    BY <2>3
  <2>10. \A k \in DOMAIN fs2 : BackOK(off, t, new, k, fs2[k].interfaces, ReadBack(fs2[k].blocks))
    BY <1>8, <2>3, <2>7, <2>8, <2>9
  <2> QED
    BY <1>1, <2>10
<1>11. CASE ~Due(e)
  <2> DEFINE w2 == WriteEvent(files[flen], e)
  <2>1. fs2 = [files EXCEPT ![flen] = w2]
    BY <1>1, <1>3, <1>11 DEF Write
  <2>2. flen \in 1 .. flen /\ files[flen] \in WriterTypes
    BY <1>2, <1>3
  <2>3. w2 \in WriterTypes
    BY <2>2, WriteEventType
  <2> HIDE DEF w2
  <2>4. /\ file = flen /\ DOMAIN fs2 = 1 .. flen /\ fs2[flen] = w2
        /\ \A i \in 1 .. flen : i # flen => fs2[i] = files[i]
    BY <1>1, <1>2, <1>3, <1>6, <2>1, <2>3
  <2>5. BackOK(off, input, returned, file, files[file].interfaces, ReadBack(files[file].blocks))
    BY <1>3, <2>2, <2>4
  <2>6. files[file].blocks \in Seq(WrittenBlocks) /\ files[file] \in WriterTypes
    <3>1. FileOK(options, returned, flen, files[flen])
      BY <1>3, <1>5, <2>2 DEF Rotated
    <3> QED
      BY <2>2, <2>4, <3>1 DEF FileOK
  <2>7. BackOK(off, t, new, file, fs2[file].interfaces, ReadBack(fs2[file].blocks))
    BY <1>9, <2>4, <2>5, <2>6 DEF w2
  <2>8. \A k \in DOMAIN fs2 : BackOK(off, t, new, k, fs2[k].interfaces, ReadBack(fs2[k].blocks))
    BY <1>8, <2>4, <2>7
  <2> QED
    BY <1>1, <2>8
<1> QED
  BY <1>10, <1>11

\* An input with its event.
LEMMA BackEvent ==
    ASSUME TypeInv, HistoryInv, SourceInv, RotationInv, BackInv,
           TypeInv', HistoryInv', SourceInv', NEW b, NEW e, EventStep(b, e)
    PROVE  BackInv'
<1>1. Fed(b) /\ e \in EventTypes(Nat) /\ ConsumeEvent(e) /\ status = "running"
  BY DEF EventStep, Fed
<1>2. WholeEvent(e)
  BY StepIsWhole
<1>3. PICK off \in BOOLEAN : off = Offline
  BY DEF Offline
<1>4. Offline' = off
  BY <1>1, <1>3, FedInput
<1>5. PICK n \in Nat : n = Len(input)
  BY <1>1, FedInput
<1>6. PICK len \in Nat : len = Len(returned)
  BY DEF TypeInv
<1>7. PICK t : t = input'
  OBVIOUS
<1>8. PICK new : new = returned'
  OBVIOUS
<1>9. Grown(off, input, t, n, returned, new, len, e)
  <2>1. PICK what \in Whats, latency \in Seq(Nat), file \in Nat :
           Consumed(e, what, latency, file)
    BY <1>1, ConsumeEffect
  <2>2. Grown(Offline, input, input', Len(input), returned, returned', Len(returned), e)
    BY <2>1, EventGrown
  <2> QED
    BY <1>3, <1>5, <1>6, <1>7, <1>8, <2>2
<1>10. PICK what \in Whats, latency \in Seq(Nat), file \in Nat :
          Outcome(e, latency, what, file) /\ Filed(e, what, file)
  BY <1>1, FilesEffect
<1>11. OneMore(returned, new, len, e, file)
  BY <1>1, <1>6, <1>8, <1>10, EventReturned DEF OneMore
<1>12. Told(input, returned)
  BY HistoryTold
<1>13. KeysOK(off, input, returned)
  BY <1>3, KeysAreUrbs DEF KeysInv
<1>14. \A k \in DOMAIN files :
          BackOK(off, input, returned, k, files[k].interfaces, ReadBack(files[k].blocks))
  BY <1>3 DEF BackInv
<1>15. CASE file = 0 /\ files' = files
  <2>1. Carried(input, t, n, returned, new)
    BY <1>9, GrownCarries
  <2>2. ASSUME NEW k \in DOMAIN files
        PROVE  BackOK(off, t, new, k, files[k].interfaces, ReadBack(files[k].blocks))
    <3>1. k # file
      BY <1>15 DEF TypeInv
    <3>2. BackOK(off, input, returned, k, files[k].interfaces, ReadBack(files[k].blocks))
      BY <1>14
    <3> QED
      BY <1>11, <2>1, <3>1, <3>2, BackOthers
  <2> QED
    BY <1>4, <1>7, <1>8, <1>15, <2>2 DEF BackInv
<1>16. CASE file = Len(files') /\ Write(e) /\ options.write
  <2>1. files # <<>>
    BY <1>1, <1>16 DEF RotationInv
  <2>2. OneMore(returned, new, len, e, Len(files'))
    BY <1>11, <1>16
  <2>3. \A k \in DOMAIN files' :
           BackOK(off, t, new, k, files'[k].interfaces, ReadBack(files'[k].blocks))
    BY <1>1, <1>2, <1>9, <1>12, <1>13, <1>14, <1>16, <2>1, <2>2, BackWritten
  <2> QED
    BY <1>4, <1>7, <1>8, <2>3 DEF BackInv
<1> QED
  BY <1>10, <1>15, <1>16 DEF Filed

\* Every step keeps the files readable as far as they can be.
LEMMA BackStep ==
    TypeInv /\ HistoryInv /\ SourceInv /\ RotationInv /\ BackInv
       /\ TypeInv' /\ HistoryInv' /\ SourceInv' /\ [Next]_vars => BackInv'
<1> SUFFICES ASSUME TypeInv, HistoryInv, SourceInv, RotationInv, BackInv,
                    TypeInv', HistoryInv', SourceInv', [Next]_vars
             PROVE  BackInv'
  OBVIOUS
<1>1. CASE UNCHANGED vars \/ Finish
  <2>1. UNCHANGED <<options, input, returned, files>>
    BY <1>1 DEF vars, output, Finish
  <2>2. Offline' = Offline
    BY <2>1 DEF Offline
  <2> QED
    BY <2>1, <2>2 DEF BackInv
<1>2. ASSUME NEW b, QuietStep(b) PROVE BackInv'
  BY <1>2, BackQuiet
<1>3. ASSUME NEW b, NEW e, EventStep(b, e) PROVE BackInv'
  BY <1>3, BackEvent
<1> QED
  BY <1>1, <1>2, <1>3, Steps

\* The events of a file, by their inputs.
LEMMA InputsInFile ==
    ASSUME TypeInv, HistoryInv, NEW k
    PROVE  /\ InFile(k) = Inputs(returned, k)
           /\ \A m \in DOMAIN returned : EventAt(returned[m].event.content) = returned[m].event
<1>1. InFile(k) = Inputs(returned, k)
  BY HeldIsInFile DEF Inputs, At
<1>2. \A m \in DOMAIN returned : EventAt(At(m)) = returned[m].event
  BY EventFound
<1> QED
  BY <1>1, <1>2 DEF At

\* What the reader gives up on is what the property says.
LEMMA DoomedIsUnreadable ==
    ASSUME TypeInv, HistoryInv, NEW k
    PROVE  Doomed(Offline, input, returned, k) <=> Unreadable(k)
<1>1. PICK inputs : inputs = Inputs(returned, k) /\ inputs = InFile(k)
  BY InputsInFile
<1>2. \A m \in DOMAIN returned : EventAt(returned[m].event.content) = returned[m].event
  BY InputsInFile
<1>3. \A i \in inputs : \E m \in Held(returned, k) : i = returned[m].event.content
  BY <1>1 DEF Inputs
<1>4. \A m \in Held(returned, k) : m \in DOMAIN returned /\ returned[m].event.content \in inputs
  BY <1>1 DEF Inputs, Held
<1> DEFINE bad(i) == IF EventAt(i).event_type = "S"
                     THEN Cardinality(Open({j \in inputs : j < i})) >= MaxUnmatched
                     ELSE \E j \in Partner(i, inputs), f \in Range(EventAt(i).frames) :
                             f.offset + f.length > EventAt(j).requested_len
<1>5. Unreadable(k) <=> \E i \in inputs : bad(i)
  BY <1>1 DEF Unreadable
<1>6. ASSUME NEW m \in Held(returned, k)
      PROVE  Bad(Offline, input, returned, inputs, returned[m].event)
                <=> bad(returned[m].event.content)
  <2>1. PICK e : e = returned[m].event
    OBVIOUS
  <2>2. PICK i : i = e.content
    OBVIOUS
  <2>3. EventAt(i) = e
    BY <1>2, <1>4, <2>1, <2>2
  <2>4. CASE e.event_type = "S"
    <3>1. Bad(Offline, input, returned, inputs, e)
             <=> Cardinality(Open({j \in inputs : j < i})) >= MaxUnmatched
      BY <2>2, <2>4, InState DEF Bad
    <3> QED
      BY <2>1, <2>2, <2>3, <2>4, <3>1
  <2>5. CASE e.event_type # "S"
    <3>1. PICK partner : partner = Partner(i, inputs)
      OBVIOUS
    <3>2. partner = PartnerIn(Offline, input, i, inputs) /\ partner \subseteq inputs
      BY <3>1, InState DEF PartnerIn, OpenIn
    <3>3. Bad(Offline, input, returned, inputs, e) <=>
             \E j \in DOMAIN returned :
                /\ returned[j].event.content \in partner
                /\ \E f \in Range(e.frames) : f.offset + f.length > returned[j].event.requested_len
      BY <2>2, <2>5, <3>2 DEF Bad
    <3>4. bad(i) <=> \E j \in partner : \E f \in Range(e.frames) :
                        f.offset + f.length > EventAt(j).requested_len
      BY <2>3, <2>5, <3>1
    <3> HIDE DEF bad
    <3>5. ASSUME Bad(Offline, input, returned, inputs, e) PROVE bad(i)
      BY <1>2, <3>3, <3>4, <3>5
    <3>6. ASSUME bad(i) PROVE Bad(Offline, input, returned, inputs, e)
      <4>1. PICK j \in partner : \E f \in Range(e.frames) :
                                    f.offset + f.length > EventAt(j).requested_len
        BY <3>4, <3>6
      <4>2. PICK a \in Held(returned, k) : j = returned[a].event.content
        BY <1>3, <3>2
      <4>3. a \in DOMAIN returned /\ EventAt(j) = returned[a].event
        BY <1>2, <1>4, <4>2
      <4> QED
        BY <3>3, <4>1, <4>2, <4>3
    <3> QED
      BY <2>1, <2>2, <3>5, <3>6
  <2> QED
    BY <2>4, <2>5
<1> HIDE DEF bad
<1>7. Doomed(Offline, input, returned, k)
         <=> \E m \in Held(returned, k) : Bad(Offline, input, returned, inputs, returned[m].event)
  BY <1>1 DEF Doomed
<1> QED
  BY <1>3, <1>4, <1>5, <1>6, <1>7

\* What ReadBackExact says of the i-th of the events that were read from a file.
EventBack(k, evs, i) ==
    /\ evs[i].content \in InFile(k)
    /\ {evs[j].content : j \in 1 .. i - 1} = {n \in InFile(k) : n < evs[i].content}
    /\ Kept(evs[i]) = Kept(EventAt(evs[i].content))
    /\ evs[i].timestamp % NsPerUs = 0
    /\ \A j \in DOMAIN evs :
          evs[i].source_id = evs[j].source_id
             <=> Origin(evs[i].content) = Origin(evs[j].content)
    /\ evs[i].event_type # "S" =>
          /\ evs[i].requested_known <=> Partner(evs[i].content, InFile(k)) # {}
          /\ \A j \in Partner(evs[i].content, InFile(k)) :
                evs[i].requested_len = EventAt(j).requested_len

\* What is said of each event.
LEMMA BackIsEvent ==
    ASSUME TypeInv, HistoryInv, SourceInv, NEW k, NEW ifs, IndexesOK(returned, k, ifs),
           NEW evs, AllBack(Offline, input, returned, k, ifs, evs), NEW i \in DOMAIN evs
    PROVE  EventBack(k, evs, i)
<1>1. PICK inputs : inputs = Inputs(returned, k) /\ inputs = InFile(k)
  BY InputsInFile
<1>2. \A m \in DOMAIN returned : EventAt(returned[m].event.content) = returned[m].event
  BY InputsInFile
<1>3. \A j \in DOMAIN evs : \E m \in Held(returned, k) : SameEvent(returned[m].event, ifs, evs[j])
  BY DEF AllBack, BackIs
<1>4. \A m \in Held(returned, k) : m \in DOMAIN returned /\ returned[m].event.content \in inputs
  BY <1>1 DEF Inputs, Held
<1>5. PICK x : x = evs[i]
  OBVIOUS
<1>6. PICK a \in Held(returned, k) : SameEvent(returned[a].event, ifs, x)
  BY <1>3, <1>5
<1>7. /\ x.content = returned[a].event.content /\ Kept(x) = Kept(returned[a].event)
      /\ x.timestamp % NsPerUs = 0 /\ x.source_id = ifs[returned[a].event.source_id]
  BY <1>6 DEF SameEvent
<1>8. x.content \in inputs /\ EventAt(x.content) = returned[a].event
  BY <1>2, <1>4, <1>7
<1>9. {evs[j].content : j \in 1 .. i - 1} = {n \in inputs : n < x.content}
  BY <1>1, <1>5 DEF AllBack, BackIs
<1>10. ASSUME NEW j \in DOMAIN evs
       PROVE  x.source_id = evs[j].source_id <=> Origin(x.content) = Origin(evs[j].content)
  <2>1. PICK b \in Held(returned, k) : SameEvent(returned[b].event, ifs, evs[j])
    BY <1>3
  <2>2. /\ evs[j].content = returned[b].event.content
        /\ evs[j].source_id = ifs[returned[b].event.source_id]
    BY <2>1 DEF SameEvent
  <2>3. returned[a].event.source_id \in DOMAIN ifs /\ returned[b].event.source_id \in DOMAIN ifs
    BY DEF IndexesOK
  <2>4. x.source_id = evs[j].source_id
           <=> returned[a].event.source_id = returned[b].event.source_id
    BY <1>7, <2>2, <2>3 DEF IndexesOK
  <2>5. returned[a].event.source_id = returned[b].event.source_id
           <=> OriginIn(Offline, input, At(a)) = OriginIn(Offline, input, At(b))
    BY <1>4 DEF SourceInv
  <2>6. At(a) = x.content /\ At(b) = evs[j].content
    BY <1>7, <2>2 DEF At
  <2> QED
    BY <2>4, <2>5, <2>6, InState
<1>11. ASSUME x.event_type # "S"
       PROVE  /\ x.requested_known <=> Partner(x.content, inputs) # {}
              /\ \A j \in Partner(x.content, inputs) : x.requested_len = EventAt(j).requested_len
  <2>1. PICK partner : partner = Partner(x.content, inputs)
    OBVIOUS
  <2>2. partner = PartnerIn(Offline, input, x.content, inputs) /\ partner \subseteq inputs
    BY <2>1, InState DEF PartnerIn, OpenIn
  <2>3. PairBack(Offline, input, returned, inputs, x)
    BY <1>1, <1>5 DEF AllBack, BackIs
  <2>4. /\ x.requested_known <=> partner # {}
        /\ \A m \in DOMAIN returned :
              returned[m].event.content \in partner =>
                 x.requested_len = returned[m].event.requested_len
    BY <1>11, <2>2, <2>3 DEF PairBack
  <2>5. ASSUME NEW j \in partner PROVE x.requested_len = EventAt(j).requested_len
    <3>1. PICK m \in Held(returned, k) : j = returned[m].event.content
      BY <1>1, <2>2 DEF Inputs
    <3>2. m \in DOMAIN returned /\ EventAt(j) = returned[m].event
      BY <1>2, <1>4, <3>1
    <3> QED
      BY <2>4, <3>1, <3>2
  <2> QED
    BY <2>1, <2>4, <2>5
<1> QED
  BY <1>1, <1>5, <1>7, <1>8, <1>9, <1>10, <1>11 DEF EventBack

\* The invariant says what the property does.
LEMMA BackIsExact == TypeInv /\ HistoryInv /\ SourceInv /\ BackInv => ReadBackExact
<1> SUFFICES ASSUME TypeInv, HistoryInv, SourceInv, BackInv PROVE ReadBackExact
  OBVIOUS
<1>1. ASSUME NEW k \in DOMAIN files, NEW back, back = ReadBack(files[k].blocks)
      PROVE  /\ back.reader.failed <=> Unreadable(k)
             /\ back.reader.incomplete = 0
             /\ ~back.reader.failed =>
                   {back.events[i].content : i \in DOMAIN back.events} = InFile(k)
             /\ IndexesOK(returned, k, files[k].interfaces)
             /\ AllBack(Offline, input, returned, k, files[k].interfaces, back.events)
  <2>1. BackOK(Offline, input, returned, k, files[k].interfaces, back)
    BY <1>1 DEF BackInv
  <2>2. InFile(k) = Inputs(returned, k)
    BY InputsInFile
  <2>3. ~back.reader.failed =>
           Inputs(returned, k) = {back.events[i].content : i \in DOMAIN back.events}
    BY <2>1 DEF BackOK, Going
  <2>4. back.reader.failed <=> Unreadable(k)
    BY <2>1, DoomedIsUnreadable DEF BackOK
  <2> QED
    BY <2>1, <2>2, <2>3, <2>4 DEF BackOK
<1> SUFFICES ASSUME NEW k \in DOMAIN files, NEW back, back = ReadBack(files[k].blocks)
             PROVE  /\ back.reader.failed <=> Unreadable(k)
                    /\ back.reader.incomplete = 0
                    /\ ~back.reader.failed =>
                          {back.events[i].content : i \in DOMAIN back.events} = InFile(k)
                    /\ \A i \in DOMAIN back.events :
                          LET e == back.events[i]
                              partner == Partner(e.content, InFile(k))
                          IN  /\ e.content \in InFile(k)
                              /\ {back.events[j].content : j \in 1 .. i - 1}
                                    = {n \in InFile(k) : n < e.content}
                              /\ Kept(e) = Kept(EventAt(e.content))
                              /\ e.timestamp % NsPerUs = 0
                              /\ \A j \in DOMAIN back.events :
                                    e.source_id = back.events[j].source_id
                                       <=> Origin(e.content) = Origin(back.events[j].content)
                              /\ e.event_type # "S" =>
                                    /\ e.requested_known <=> partner # {}
                                    /\ \A j \in partner : e.requested_len = EventAt(j).requested_len
  BY Zenon DEF ReadBackExact
<1>2. /\ back.reader.failed <=> Unreadable(k)
      /\ back.reader.incomplete = 0
      /\ ~back.reader.failed =>
            {back.events[i].content : i \in DOMAIN back.events} = InFile(k)
  BY <1>1
<1>3. PICK ifs : ifs = files[k].interfaces
  OBVIOUS
<1>4. IndexesOK(returned, k, ifs) /\ AllBack(Offline, input, returned, k, ifs, back.events)
  BY <1>1, <1>3
<1>5. \A i \in DOMAIN back.events : EventBack(k, back.events, i)
  BY <1>4, BackIsEvent
<1> QED
  BY <1>2, <1>5, Zenon DEF EventBack

\* What was written can be read again by the program itself, event for event, with
\* sources apart and completions paired, and only an unreadable file is given up.
THEOREM ReadBackCorrect == Spec => []ReadBackExact
<1>1. Init => BackInv
  BY BackInit
<1>2. TypeInv /\ HistoryInv /\ SourceInv /\ RotationInv /\ BackInv
         /\ TypeInv' /\ HistoryInv' /\ SourceInv' /\ [Next]_vars => BackInv'
  BY BackStep
<1>3. TypeInv /\ HistoryInv /\ SourceInv /\ BackInv => ReadBackExact
  BY BackIsExact
<1> QED
  BY <1>1, <1>2, <1>3, HistoryCorrect, SourcesCorrect, FilesCorrect, PTL DEF Spec

-----------------------------------------------------------------------------
(* Sums over finite sets *)

\* h[s] is the sum of f over s, for every subset s of S.
SumsOver(h, f, S) ==
    /\ h \in [SUBSET S -> Nat]
    /\ h[{}] = 0
    /\ \A s \in SUBSET S : \A x \in S \ s : h[s \cup {x}] = h[s] + f[x]

\* Sums exist for one element more.
LEMMA SumsFurther ==
    ASSUME NEW S, NEW y, y \notin S, NEW f,
           \A x \in S \cup {y} : f[x] \in Nat, NEW h, SumsOver(h, f, S)
    PROVE  \E g : SumsOver(g, f, S \cup {y})
<1> DEFINE g == [s \in SUBSET (S \cup {y}) |-> IF y \in s THEN h[s \ {y}] + f[y] ELSE h[s]]
<1>1. \A s \in SUBSET (S \cup {y}) :
         /\ s \ {y} \in SUBSET S
         /\ y \notin s => s \in SUBSET S
  OBVIOUS
<1>2. \A s \in SUBSET S : h[s] \in Nat
  BY DEF SumsOver
<1>3. g \in [SUBSET (S \cup {y}) -> Nat]
  <2>1. ASSUME NEW s \in SUBSET (S \cup {y})
        PROVE  (IF y \in s THEN h[s \ {y}] + f[y] ELSE h[s]) \in Nat
    BY <1>1, <1>2
  <2> QED
    BY <2>1
<1>4. g[{}] = 0
  BY DEF SumsOver
<1>5. ASSUME NEW s \in SUBSET (S \cup {y}), NEW x \in (S \cup {y}) \ s
      PROVE  g[s \cup {x}] = g[s] + f[x]
  <2>0. s \cup {x} \in SUBSET (S \cup {y})
    OBVIOUS
  <2>1. CASE x = y
    <3>1. s \in SUBSET S /\ (s \cup {x}) \ {y} = s /\ y \notin s
      BY <2>1
    <3>2. g[s \cup {x}] = h[s] + f[y] /\ g[s] = h[s]
      BY <2>0, <2>1, <3>1
    <3> QED
      BY <2>1, <3>2
  <2>2. CASE x # y /\ y \in s
    <3>1. /\ s \ {y} \in SUBSET S /\ x \in S \ (s \ {y})
          /\ (s \cup {x}) \ {y} = (s \ {y}) \cup {x} /\ y \in s \cup {x}
      BY <2>2
    <3>2. h[(s \ {y}) \cup {x}] = h[s \ {y}] + f[x]
      BY <3>1 DEF SumsOver
    <3>3. g[s \cup {x}] = h[(s \ {y}) \cup {x}] + f[y] /\ g[s] = h[s \ {y}] + f[y]
      BY <2>0, <2>2, <3>1
    <3>4. PICK a \in Nat, c \in Nat : a = h[s \ {y}] /\ c = h[(s \ {y}) \cup {x}]
      <4>1. (s \ {y}) \cup {x} \in SUBSET S
        BY <3>1
      <4> QED
        BY <1>2, <3>1, <4>1
    <3>5. c = a + f[x] /\ g[s \cup {x}] = c + f[y] /\ g[s] = a + f[y]
      BY <3>2, <3>3, <3>4
    <3>6. f[x] \in Nat /\ f[y] \in Nat
      OBVIOUS
    <3> HIDE DEF g
    <3> QED
      BY <3>4, <3>5, <3>6
  <2>3. CASE x # y /\ y \notin s
    <3>1. s \in SUBSET S /\ x \in S \ s /\ y \notin s \cup {x}
      BY <2>3
    <3>2. h[s \cup {x}] = h[s] + f[x]
      BY <3>1 DEF SumsOver
    <3>3. g[s \cup {x}] = h[s \cup {x}] /\ g[s] = h[s]
      BY <2>0, <3>1
    <3> QED
      BY <3>2, <3>3
  <2> QED
    BY <2>1, <2>2, <2>3
<1> HIDE DEF g
<1>6. SumsOver(g, f, S \cup {y})
  BY <1>3, <1>4, <1>5 DEF SumsOver
<1> QED
  BY <1>6

\* Sums exist over finite sets.
LEMMA SumsExist ==
    ASSUME NEW D, IsFiniteSet(D), NEW f, \A x \in D : f[x] \in Nat
    PROVE  \E h : SumsOver(h, f, D)
<1> DEFINE Wrong == {n \in Nat : \E S \in SUBSET D :
                      Cardinality(S) = n /\ ~\E h : SumsOver(h, f, S)}
<1>1. SUFFICES ASSUME ~\E h : SumsOver(h, f, D) PROVE FALSE
  OBVIOUS
<1>2. Cardinality(D) \in Wrong /\ Wrong \in SUBSET Nat
  <2>1. Cardinality(D) \in Nat /\ D \in SUBSET D
    BY FS_CardinalityType
  <2> QED
    BY <1>1, <2>1
<1>3. PICK n \in Wrong : \A x \in Wrong : n <= x
  BY <1>2, LeastExists
<1>4. PICK S \in SUBSET D : Cardinality(S) = n /\ ~\E h : SumsOver(h, f, S)
  BY <1>3
<1>5. IsFiniteSet(S)
  BY FS_Subset
<1>6. S # {}
  <2>1. [s \in SUBSET {} |-> 0] \in [SUBSET {} -> Nat] /\ [s \in SUBSET {} |-> 0][{}] = 0
    OBVIOUS
  <2>2. SumsOver([s \in SUBSET {} |-> 0], f, {})
    BY <2>1 DEF SumsOver
  <2> QED
    BY <1>4, <2>2
<1>7. PICK y \in S : TRUE
  BY <1>6
<1>8. PICK T : T = S \ {y}
  OBVIOUS
<1>9. IsFiniteSet(T) /\ Cardinality(T) = n - 1 /\ T \in SUBSET D /\ S = T \cup {y} /\ y \notin T
  BY <1>4, <1>5, <1>7, <1>8, FS_RemoveElement
<1>10. Cardinality(T) \in Nat /\ n \in Nat
  BY <1>3, <1>9, FS_CardinalityType
<1>11. Cardinality(T) \notin Wrong
  BY <1>3, <1>9, <1>10
<1>12. PICK h : SumsOver(h, f, T)
  BY <1>9, <1>10, <1>11
<1>13. \E g : SumsOver(g, f, T \cup {y})
  BY <1>9, <1>12, SumsFurther
<1> QED
  BY <1>4, <1>9, <1>13

\* What SumFunction computes.
LEMMA SumIs ==
    ASSUME NEW D, NEW S \in SUBSET D, IsFiniteSet(D), NEW f \in [S -> Nat], NEW g, NEW h,
           SumsOver(h, g, D), \A x \in S : g[x] = f[x]
    PROVE  SumFunction(f) = h[S]
<1> DEFINE Body(it) == [s \in SUBSET S |->
                           IF s = {} THEN 0
                           ELSE f[CHOOSE x \in s : TRUE] + it[s \ {CHOOSE x \in s : TRUE}]]
           iter == CHOOSE it : it = Body(it)
<1>1. DOMAIN f = S
  OBVIOUS
<1>2. SumFunction(f) = iter[S]
  BY <1>1 DEF SumFunction, SumFunctionOnSet, FoldFunctionOnSet, MapThenFoldSet
<1>3. ASSUME NEW s \in SUBSET S, s # {}
      PROVE  /\ (CHOOSE x \in s : TRUE) \in s
             /\ h[s] = f[CHOOSE x \in s : TRUE] + h[s \ {CHOOSE x \in s : TRUE}]
  <2>1. PICK x : x = CHOOSE y \in s : TRUE
    OBVIOUS
  <2>2. x \in s
    BY <1>3, <2>1
  <2>3. s \ {x} \in SUBSET D /\ x \in D \ (s \ {x}) /\ (s \ {x}) \cup {x} = s
    BY <2>2
  <2>4. h[s] = h[s \ {x}] + g[x] /\ h[s \ {x}] \in Nat
    BY <2>3 DEF SumsOver
  <2>5. g[x] = f[x] /\ f[x] \in Nat
    BY <2>2
  <2> QED
    BY <2>1, <2>2, <2>4, <2>5
<1>4. iter = Body(iter)
  <2> DEFINE jt == [s \in SUBSET S |-> h[s]]
  <2>1. ASSUME NEW s \in SUBSET S
        PROVE  h[s] = IF s = {} THEN 0
                      ELSE f[CHOOSE x \in s : TRUE] + jt[s \ {CHOOSE x \in s : TRUE}]
    <3>1. CASE s = {}
      BY <3>1 DEF SumsOver
    <3>2. CASE s # {}
      <4>1. s \ {CHOOSE x \in s : TRUE} \in SUBSET S
        OBVIOUS
      <4>2. jt[s \ {CHOOSE x \in s : TRUE}] = h[s \ {CHOOSE x \in s : TRUE}]
        BY <4>1
      <4> QED
        BY <1>3, <3>2, <4>2
    <3> QED
      BY <3>1, <3>2
  <2>2. jt = Body(jt)
    BY <2>1
  <2> HIDE DEF Body, jt
  <2> QED
    BY <2>2
<1> HIDE DEF iter
<1>5. \A s \in SUBSET S :
         iter[s] = IF s = {} THEN 0
                   ELSE f[CHOOSE x \in s : TRUE] + iter[s \ {CHOOSE x \in s : TRUE}]
  BY <1>4
<1> DEFINE Wrong == {n \in Nat : \E s \in SUBSET S : Cardinality(s) = n /\ iter[s] # h[s]}
<1>6. SUFFICES ASSUME iter[S] # h[S] PROVE FALSE
  BY <1>2
<1>7. Cardinality(S) \in Wrong /\ Wrong \in SUBSET Nat
  <2>1. Cardinality(S) \in Nat /\ S \in SUBSET S
    BY FS_Subset, FS_CardinalityType
  <2> QED
    BY <1>6, <2>1
<1>8. PICK n \in Wrong : \A x \in Wrong : n <= x
  BY <1>7, LeastExists
<1>9. PICK s \in SUBSET S : Cardinality(s) = n /\ iter[s] # h[s]
  BY <1>8
<1>10. s # {}
  BY <1>5, <1>9 DEF SumsOver
<1>11. PICK x : x = CHOOSE y \in s : TRUE
  OBVIOUS
<1>12. x \in s /\ h[s] = f[x] + h[s \ {x}] /\ iter[s] = f[x] + iter[s \ {x}]
  BY <1>3, <1>5, <1>10, <1>11
<1>13. IsFiniteSet(s)
  BY FS_Subset
<1>14. PICK t \in SUBSET S : t = s \ {x}
  OBVIOUS
<1>15. Cardinality(t) = n - 1 /\ IsFiniteSet(t)
  BY <1>9, <1>12, <1>13, <1>14, FS_RemoveElement
<1>16. Cardinality(t) \in Nat /\ n \in Nat
  BY <1>8, <1>15, FS_CardinalityType
<1>17. Cardinality(t) \notin Wrong
  BY <1>8, <1>15, <1>16
<1>18. iter[t] = h[t]
  BY <1>16, <1>17
<1> QED
  BY <1>9, <1>12, <1>14, <1>18

\* g is f with x added to its domain.
AddsOne(f, g, S, x) ==
    /\ IsFiniteSet(S) /\ x \notin S
    /\ f \in [S -> Nat] /\ g \in [S \cup {x} -> Nat]
    /\ \A s \in S : g[s] = f[s]

\* A sum with one element more.
LEMMA SumMore ==
    ASSUME NEW f, NEW g, NEW S, NEW x, AddsOne(f, g, S, x)
    PROVE  SumFunction(f) \in Nat /\ SumFunction(g) = SumFunction(f) + g[x]
<1>1. PICK D : D = S \cup {x}
  OBVIOUS
<1>2. IsFiniteSet(D) /\ S \in SUBSET D /\ D \in SUBSET D /\ g \in [D -> Nat] /\ x \in D \ S
  BY <1>1, FS_AddElement DEF AddsOne
<1>3. PICK h : SumsOver(h, g, D)
  BY <1>2, SumsExist
<1>4. SumFunction(f) = h[S]
  BY <1>2, <1>3, SumIs DEF AddsOne
<1>5. SumFunction(g) = h[D]
  BY <1>2, <1>3, SumIs
<1>6. h[D] = h[S] + g[x] /\ h[S] \in Nat
  BY <1>1, <1>2, <1>3 DEF SumsOver
<1> QED
  BY <1>4, <1>5, <1>6

\* An empty sum.
LEMMA SumNothing == ASSUME NEW f \in [{} -> Nat] PROVE SumFunction(f) = 0
<1>1. IsFiniteSet({}) /\ {} \in SUBSET {} /\ \A x \in {} : f[x] \in Nat
  BY FS_EmptySet
<1>2. PICK h : SumsOver(h, f, {})
  BY <1>1, SumsExist
<1>3. SumFunction(f) = h[{}]
  BY <1>1, <1>2, SumIs
<1> QED
  BY <1>2, <1>3 DEF SumsOver

\* The bytes of an endpoint after the frames of one more completion (Observe).
LengthsFrom(base, w) == FoldLeft(LAMBDA n, f : n + f.length, base, w)

\* The step of this fold.
AddLength == [p \in Nat \X FrameTypes |-> p[1] + p[2].length]

\* It stays in the numbers.
LEMMA AddLengthType == AddLength \in [Nat \X FrameTypes -> Nat]
<1>1. ASSUME NEW p \in Nat \X FrameTypes PROVE p[1] + p[2].length \in Nat
  <2>1. p[1] \in Nat /\ p[2].length \in Nat
    BY DEF FrameTypes
  <2> QED
    BY <2>1
<1> QED
  BY <1>1 DEF AddLength

\* It is a fold in the sense of Folded.
LEMMA LengthsFolded ==
    ASSUME NEW base \in Nat, NEW w \in Seq(FrameTypes)
    PROVE  \E g : Folded(g, Nat, AddLength, base, w, Len(w)) /\ LengthsFrom(base, w) = g[Len(w)]
<1>1. PICK n \in Nat : n = Len(w)
  OBVIOUS
<1>2. DOMAIN w = 1 .. n /\ \A k \in 1 .. n : w[k] \in FrameTypes
  BY <1>1
<1> DEFINE Body(it) == [s \in SUBSET (DOMAIN w) |->
                           IF s = {} THEN base ELSE it[s \ {Max(s)}] + w[Max(s)].length]
           iter == CHOOSE it : it = Body(it)
<1>3. LengthsFrom(base, w) = iter[DOMAIN w]
  BY DEF LengthsFrom, FoldLeft, MapThenFoldSet
<1>4. PICK jt : IteratesTo(jt, Nat, AddLength, base, w, n)
  <2>1. \E it : IteratesTo(it, Nat, AddLength, base, w, Len(w))
    BY AddLengthType, IterateExists
  <2> QED
    BY <1>1, <2>1
<1>5. iter = Body(iter)
  <2>1. \A s \in SUBSET (1 .. n) : jt[s] \in Nat /\ jt[s] = Round(jt, AddLength, base, w, s)
    BY <1>4 DEF IteratesTo
  <2>2. ASSUME NEW s \in SUBSET (1 .. n)
        PROVE  jt[s] = IF s = {} THEN base ELSE jt[s \ {Max(s)}] + w[Max(s)].length
    <3>1. CASE s = {}
      BY <2>1, <3>1 DEF Round
    <3>2. CASE s # {}
      <4>1. s \ {Max(s)} \in SUBSET (1 .. n) /\ Max(s) \in 1 .. n
        BY <3>2, MaxOfPositions
      <4>2. <<jt[s \ {Max(s)}], w[Max(s)]>> \in Nat \X FrameTypes
        BY <1>2, <2>1, <4>1
      <4>3. AddLength[<<jt[s \ {Max(s)}], w[Max(s)]>>] = jt[s \ {Max(s)}] + w[Max(s)].length
        BY <4>2 DEF AddLength
      <4> QED
        BY <2>1, <3>2, <4>3 DEF Round
    <3> QED
      BY <3>1, <3>2
  <2>3. jt = Body(jt)
    BY <1>2, <1>4, <2>2 DEF IteratesTo
  <2> HIDE DEF Body
  <2> QED
    BY <2>3
<1> HIDE DEF iter
<1>6. \A s \in SUBSET (1 .. n) :
         iter[s] = IF s = {} THEN base ELSE iter[s \ {Max(s)}] + w[Max(s)].length
  BY <1>2, <1>5
<1> DEFINE g == [k \in 0 .. n |-> iter[1 .. k]]
<1>7. g[0] = base
  <2>1. 1 .. 0 = {} /\ {} \in SUBSET (1 .. n) /\ 0 \in 0 .. n
    OBVIOUS
  <2>2. iter[{}] = base
    BY <1>6, <2>1
  <2>3. g[0] = iter[1 .. 0]
    BY <2>1
  <2> QED
    BY <2>1, <2>2, <2>3
<1>8. ASSUME NEW k \in 1 .. n, g[k - 1] \in Nat PROVE g[k] = AddLength[<<g[k - 1], w[k]>>]
  <2>1. /\ 1 .. k \in SUBSET (1 .. n) /\ 1 .. k # {}
        /\ Max(1 .. k) = k /\ (1 .. k) \ {k} = 1 .. (k - 1)
    BY FirstPositions
  <2>2. iter[1 .. k] = iter[1 .. (k - 1)] + w[k].length
    BY <1>6, <2>1
  <2>3. k \in 0 .. n /\ k - 1 \in 0 .. n
    OBVIOUS
  <2>4. g[k] = g[k - 1] + w[k].length
    BY <2>2, <2>3
  <2>5. <<g[k - 1], w[k]>> \in Nat \X FrameTypes
    BY <1>2, <1>8
  <2> HIDE DEF g
  <2> QED
    BY <2>4, <2>5 DEF AddLength
<1>9. LengthsFrom(base, w) = g[n]
  BY <1>2, <1>3
<1> HIDE DEF g
<1>10. Folded(g, Nat, AddLength, base, w, n)
  BY <1>7, <1>8 DEF Folded
<1> QED
  BY <1>1, <1>9, <1>10

\* Places in the frames of one completion.
PairsAt(i, N) == {<<i, n>> : n \in N}

\* As many pairs as numbers.
LEMMA PairsWith ==
    ASSUME NEW i, NEW N, IsFiniteSet(N)
    PROVE  /\ IsFiniteSet(PairsAt(i, N))
           /\ Cardinality(PairsAt(i, N)) = Cardinality(N)
<1> DEFINE P == {<<i, n>> : n \in N}
           pair == [n \in N |-> <<i, n>>]
<1>1. pair \in [N -> P]
  OBVIOUS
<1>2. \A m, n \in N : pair[m] = pair[n] => m = n
  OBVIOUS
<1>3. \A p \in P : \E n \in N : pair[n] = p
  OBVIOUS
<1> HIDE DEF pair
<1>4. pair \in Injection(N, P) /\ pair \in Surjection(N, P)
  BY <1>1, <1>2, <1>3 DEF Injection, IsInjective, Surjection
<1>5. ExistsBijection(N, P)
  BY <1>4 DEF ExistsBijection, Bijection
<1>6. IsFiniteSet(P) /\ Cardinality(P) = Cardinality(N)
  BY <1>5, FS_Bijection
<1> QED
  BY <1>6 DEF PairsAt

\* g is f with the lengths of the frames w of completion i.
FramesAdded(f, g, S, i, w) ==
    /\ IsFiniteSet(S) /\ \A n : <<i, n>> \notin S
    /\ w \in Seq(FrameTypes)
    /\ f \in [S -> Nat] /\ g \in [S \cup PairsAt(i, DOMAIN w) -> Nat]
    /\ \A p \in S : g[p] = f[p]
    /\ \A n \in DOMAIN w : g[<<i, n>>] = w[n].length

\* The frames of one completion more add up to the sum over all frames.
LEMMA LengthsAreSum ==
    ASSUME NEW f, NEW g, NEW S, NEW i, NEW w, FramesAdded(f, g, S, i, w)
    PROVE  SumFunction(f) \in Nat /\ SumFunction(g) = LengthsFrom(SumFunction(f), w)
<1>0. /\ IsFiniteSet(S) /\ \A n : <<i, n>> \notin S
      /\ w \in Seq(FrameTypes)
      /\ f \in [S -> Nat] /\ g \in [S \cup {<<i, n>> : n \in DOMAIN w} -> Nat]
      /\ \A p \in S : g[p] = f[p]
      /\ \A n \in DOMAIN w : g[<<i, n>>] = w[n].length
  BY DEF FramesAdded, PairsAt
<1>1. PICK m \in Nat : m = Len(w) /\ DOMAIN w = 1 .. m
  BY <1>0
<1> DEFINE Pairs(k) == S \cup {<<i, n>> : n \in 1 .. k}
           Part(k) == [p \in Pairs(k) |-> g[p]]
<1>2. \A k \in 0 .. m : Pairs(k) \subseteq S \cup {<<i, n>> : n \in DOMAIN w}
  BY <1>1
<1>3. \A k \in 0 .. m : Part(k) \in [Pairs(k) -> Nat]
  BY <1>0, <1>2
<1>4. Pairs(0) = S /\ Part(0) = f
  BY <1>0
<1>5. Pairs(m) = S \cup {<<i, n>> : n \in DOMAIN w} /\ Part(m) = g
  BY <1>0, <1>1
<1>6. \A k \in 0 .. m : IsFiniteSet(Pairs(k))
  <2> SUFFICES ASSUME NEW k \in 0 .. m PROVE IsFiniteSet(Pairs(k))
    OBVIOUS
  <2>1. IsFiniteSet(1 .. k)
    BY FS_Interval
  <2>2. IsFiniteSet({<<i, n>> : n \in 1 .. k})
    BY <2>1, PairsWith DEF PairsAt
  <2> QED
    BY <1>0, <2>2, FS_Union
<1>7. ASSUME NEW k \in 1 .. m
      PROVE  /\ SumFunction(Part(k - 1)) \in Nat
             /\ SumFunction(Part(k)) = SumFunction(Part(k - 1)) + w[k].length
  <2>1. k - 1 \in 0 .. m /\ k \in 0 .. m /\ k \in Nat /\ k \in DOMAIN w
    BY <1>1
  <2>2. Pairs(k) = Pairs(k - 1) \cup {<<i, k>>}
    <3>1. 1 .. k = (1 .. (k - 1)) \cup {k}
      OBVIOUS
    <3> QED
      BY <3>1
  <2>3. <<i, k>> \notin Pairs(k - 1)
    <3>1. \A n \in 1 .. (k - 1) : <<i, n>> # <<i, k>>
      OBVIOUS
    <3>2. <<i, k>> \notin S
      BY <1>0
    <3> QED
      BY <3>1, <3>2
  <2>4. PICK P, a, c : P = Pairs(k - 1) /\ a = Part(k - 1) /\ c = Part(k)
    OBVIOUS
  <2>5. /\ IsFiniteSet(P) /\ <<i, k>> \notin P
        /\ a \in [P -> Nat] /\ c \in [P \cup {<<i, k>>} -> Nat]
    BY <1>3, <1>6, <2>1, <2>2, <2>3, <2>4
  <2>6. (\A p \in P : c[p] = a[p]) /\ c[<<i, k>>] = w[k].length
    BY <1>0, <2>1, <2>2, <2>4
  <2> HIDE DEF Pairs, Part
  <2>7. PICK z : z = <<i, k>>
    OBVIOUS
  <2>8. AddsOne(a, c, P, z)
    BY <2>5, <2>6, <2>7 DEF AddsOne
  <2>9. SumFunction(a) \in Nat /\ SumFunction(c) = SumFunction(a) + c[z]
    BY <2>8, SumMore
  <2> QED
    BY <2>4, <2>6, <2>7, <2>9
<1>8. SumFunction(f) \in Nat
  <2>1. PICK h : SumsOver(h, f, S)
    BY <1>0, SumsExist
  <2>2. S \in SUBSET S /\ h[S] \in Nat
    BY <2>1 DEF SumsOver
  <2>3. SumFunction(f) = h[S]
    BY <1>0, <2>1, <2>2, SumIs
  <2> QED
    BY <2>2, <2>3
<1>9. PICK h : Folded(h, Nat, AddLength, SumFunction(f), w, m) /\ LengthsFrom(SumFunction(f), w) = h[m]
  BY <1>0, <1>1, <1>8, LengthsFolded
<1>10. \A k \in 1 .. m : w[k] \in FrameTypes
  BY <1>0, <1>1
<1>11. \A k \in 0 .. m : h[k] \in Nat
  BY <1>8, <1>9, <1>10, AddLengthType, FoldedStays
<1> HIDE DEF Part
<1> DEFINE Wrong == {k \in 0 .. m : SumFunction(Part(k)) # h[k]}
<1>12. Wrong = {}
  <2> SUFFICES ASSUME Wrong # {} PROVE FALSE
    OBVIOUS
  <2>1. Wrong \in SUBSET Nat
    OBVIOUS
  <2>2. PICK k \in Wrong : \A x \in Wrong : k <= x
    BY <2>1, LeastExists
  <2>3. k # 0
    BY <1>4, <1>9, <2>2 DEF Folded
  <2>4. k \in 1 .. m /\ k - 1 \in 0 .. m /\ k - 1 \notin Wrong
    BY <2>2, <2>3
  <2>5. SumFunction(Part(k - 1)) = h[k - 1] /\ h[k - 1] \in Nat
    BY <1>11, <2>4
  <2>6. h[k] = AddLength[<<h[k - 1], w[k]>>]
    BY <1>9, <2>4, <2>5 DEF Folded
  <2>7. <<h[k - 1], w[k]>> \in Nat \X FrameTypes
    BY <1>10, <2>4, <2>5
  <2>8. h[k] = h[k - 1] + w[k].length
    BY <2>6, <2>7 DEF AddLength
  <2>9. SumFunction(Part(k)) = SumFunction(Part(k - 1)) + w[k].length
    BY <1>7, <2>4
  <2> QED
    BY <2>2, <2>5, <2>8, <2>9
<1>13. m \in 0 .. m
  OBVIOUS
<1>14. SumFunction(Part(m)) = h[m]
  BY <1>12, <1>13
<1> QED
  BY <1>5, <1>8, <1>9, <1>14

-----------------------------------------------------------------------------
(* The statistics of one endpoint *)

\* The frames of some completions, by the input of the completion and their place in it;
\* E has the events, by their inputs.
FramesIn(E, is) == UNION {PairsAt(i, DOMAIN E[i].frames) : i \in is}

\* The places of an event's frames without data.
Empties(e) == {n \in DOMAIN e.frames : e.frames[n].length = 0}

\* All frames without data.
EmptyIn(E, is) == {p \in FramesIn(E, is) : E[p[1]].frames[p[2]].length = 0}

\* The lengths of the frames.
LengthsIn(E, is) == [p \in FramesIn(E, is) |-> E[p[1]].frames[p[2]].length]

\* Of some inputs j is the next after i.
Follows(j, i, is) == i < j /\ \A k \in is : k <= i \/ j <= k

\* The times between completions.
GapsIn(E, is) ==
    {E[p[2]].timestamp - E[p[1]].timestamp : p \in {q \in is \X is : Follows(q[2], q[1], is)}}

\* m is the greatest of some numbers.
Greatest(m, S) == m \in S /\ \A x \in S : x <= m

\* The last completion.
LastOf(E, is, previous) ==
    IF is = {} THEN previous = <<>>
    ELSE \E i \in is : (\A j \in is : j <= i) /\ previous = <<E[i].timestamp>>

\* ep sums up the completions of some inputs.
Summed(E, is, ep) ==
    /\ IsFiniteSet(is) /\ IsFiniteSet(FramesIn(E, is))
    /\ ep.urbs = Cardinality(is)
    /\ ep.frames = Cardinality(FramesIn(E, is))
    /\ ep.bytes = SumFunction(LengthsIn(E, is))
    /\ ep.empty_frames = Cardinality(EmptyIn(E, is))
    /\ LastOf(E, is, ep.previous)
    /\ Greatest(ep.max_gap, {0} \cup GapsIn(E, is))

\* IsoStats::observe adds an event to the statistics of its endpoint.
Observing(ep, e) ==
    [urbs |-> ep.urbs + 1,
     frames |-> ep.frames + Len(e.frames),
     bytes |-> LengthsFrom(ep.bytes, e.frames),
     empty_frames |-> ep.empty_frames
         + Cardinality(Empties(e)),
     previous |-> <<e.timestamp>>,
     max_gap |-> Max({ep.max_gap, Gap(ep, e.timestamp)})]

\* Completions that have come, and one that comes.
Coming(E, is, i) ==
    /\ is \in SUBSET Nat /\ i \in Nat /\ \A j \in is : j < i
    /\ \A j \in is \cup {i} : E[j] \in EventTypes(Nat)

\* What an event has.
LEMMA EventFields ==
    ASSUME NEW e \in EventTypes(Nat)
    PROVE  /\ e.timestamp \in Nat /\ e.frames \in Seq(FrameTypes)
           /\ DOMAIN e.frames = 1 .. Len(e.frames) /\ Len(e.frames) \in Nat
           /\ \A n \in DOMAIN e.frames : e.frames[n].length \in Nat
<1>1. e.timestamp \in Nat /\ e.frames \in Seq(FrameTypes)
  BY DEF EventTypes
<1>2. DOMAIN e.frames = 1 .. Len(e.frames) /\ Len(e.frames) \in Nat
  BY <1>1
<1>3. \A n \in DOMAIN e.frames : e.frames[n] \in FrameTypes
  BY <1>1
<1> QED
  BY <1>1, <1>2, <1>3 DEF FrameTypes

\* The frames with one completion more.
LEMMA FramesMore ==
    ASSUME NEW E, NEW is, NEW i, Coming(E, is, i)
    PROVE  /\ FramesIn(E, is \cup {i}) = FramesIn(E, is) \cup PairsAt(i, DOMAIN E[i].frames)
           /\ EmptyIn(E, is \cup {i})
                 = EmptyIn(E, is)
                      \cup PairsAt(i, Empties(E[i]))
           /\ \A n : <<i, n>> \notin FramesIn(E, is)
           /\ \A p \in FramesIn(E, is \cup {i}) : E[p[1]].frames[p[2]].length \in Nat
<1>1. FramesIn(E, is \cup {i}) = FramesIn(E, is) \cup PairsAt(i, DOMAIN E[i].frames)
  BY DEF FramesIn
<1>2. ASSUME NEW n PROVE <<i, n>> \notin FramesIn(E, is)
  <2> SUFFICES ASSUME <<i, n>> \in FramesIn(E, is) PROVE FALSE
    OBVIOUS
  <2>1. PICK j \in is : <<i, n>> \in PairsAt(j, DOMAIN E[j].frames)
    BY DEF FramesIn
  <2>2. i = j
    BY <2>1 DEF PairsAt
  <2>3. j < i /\ i \in Nat
    BY DEF Coming
  <2> QED
    BY <2>2, <2>3
<1>3. ASSUME NEW p \in FramesIn(E, is \cup {i}) PROVE E[p[1]].frames[p[2]].length \in Nat
  <2>1. PICK j \in is \cup {i} : p \in PairsAt(j, DOMAIN E[j].frames)
    BY DEF FramesIn
  <2>2. PICK m \in DOMAIN E[j].frames : p = <<j, m>>
    BY <2>1 DEF PairsAt
  <2>3. E[j] \in EventTypes(Nat)
    BY DEF Coming
  <2>4. E[j].frames[m].length \in Nat
    BY <2>3, EventFields
  <2> QED
    BY <2>2, <2>4
<1>4. EmptyIn(E, is \cup {i})
         = EmptyIn(E, is)
              \cup PairsAt(i, Empties(E[i]))
  <2>1. \A n \in DOMAIN E[i].frames : <<i, n>>[1] = i /\ <<i, n>>[2] = n
    OBVIOUS
  <2> DEFINE new == PairsAt(i, DOMAIN E[i].frames)
  <2>2. {p \in new : E[p[1]].frames[p[2]].length = 0}
           = PairsAt(i, Empties(E[i]))
    BY <2>1 DEF PairsAt, Empties
  <2>3. EmptyIn(E, is \cup {i}) = EmptyIn(E, is) \cup {p \in new : E[p[1]].frames[p[2]].length = 0}
    BY <1>1 DEF EmptyIn
  <2> QED
    BY <2>2, <2>3
<1> QED
  BY <1>1, <1>2, <1>3, <1>4

\* The numbers of frames and the bytes with one completion more.
LEMMA CountsMore ==
    ASSUME NEW E, NEW is, NEW i, Coming(E, is, i), NEW ep, Summed(E, is, ep)
    PROVE  /\ IsFiniteSet(is \cup {i}) /\ IsFiniteSet(FramesIn(E, is \cup {i}))
           /\ ep.urbs + 1 = Cardinality(is \cup {i})
           /\ ep.frames + Len(E[i].frames) = Cardinality(FramesIn(E, is \cup {i}))
           /\ LengthsFrom(ep.bytes, E[i].frames) = SumFunction(LengthsIn(E, is \cup {i}))
           /\ ep.empty_frames + Cardinality(Empties(E[i]))
                 = Cardinality(EmptyIn(E, is \cup {i}))
<1>1. PICK e \in EventTypes(Nat) : e = E[i]
  BY DEF Coming
<1>2. PICK F : F = FramesIn(E, is)
  OBVIOUS
<1>3. PICK N : N = DOMAIN e.frames
  OBVIOUS
<1>4. PICK Z : Z = Empties(e) /\ Z \subseteq N
  BY <1>3 DEF Empties
<1>5. /\ FramesIn(E, is \cup {i}) = F \cup PairsAt(i, N)
      /\ EmptyIn(E, is \cup {i}) = EmptyIn(E, is) \cup PairsAt(i, Z)
      /\ \A n : <<i, n>> \notin F
  BY <1>1, <1>2, <1>3, <1>4, FramesMore
<1>6. e.frames \in Seq(FrameTypes) /\ N = 1 .. Len(e.frames) /\ Len(e.frames) \in Nat
  BY <1>1, <1>3, EventFields
<1>7. IsFiniteSet(N) /\ Cardinality(N) = Len(e.frames) /\ IsFiniteSet(Z)
  <2>1. IsFiniteSet(N) /\ Cardinality(N) = Len(e.frames)
    BY <1>6, FS_Interval
  <2> QED
    BY <1>4, <2>1, FS_Subset
<1>8. PICK P, Q : P = PairsAt(i, N) /\ Q = PairsAt(i, Z)
  OBVIOUS
<1>9. /\ IsFiniteSet(P) /\ Cardinality(P) = Cardinality(N)
      /\ IsFiniteSet(Q) /\ Cardinality(Q) = Cardinality(Z)
  BY <1>7, <1>8, PairsWith
<1>10. IsFiniteSet(is) /\ IsFiniteSet(F) /\ IsFiniteSet(EmptyIn(E, is))
  <2>1. IsFiniteSet(is) /\ IsFiniteSet(F)
    BY <1>2 DEF Summed
  <2>2. EmptyIn(E, is) \subseteq F
    BY <1>2 DEF EmptyIn
  <2> QED
    BY <2>1, <2>2, FS_Subset
<1>11. F \cap P = {} /\ EmptyIn(E, is) \cap Q = {}
  <2>1. EmptyIn(E, is) \subseteq F
    BY <1>2 DEF EmptyIn
  <2> QED
    BY <1>5, <1>8, <2>1 DEF PairsAt
<1>12. /\ IsFiniteSet(F \cup P) /\ Cardinality(F \cup P) = Cardinality(F) + Cardinality(P)
  <2>1. IsFiniteSet(F \cup P)
        /\ Cardinality(F \cup P) = Cardinality(F) + Cardinality(P) - Cardinality({})
    BY <1>9, <1>10, <1>11, FS_Union
  <2>2. Cardinality({}) = 0 /\ Cardinality(F) \in Nat /\ Cardinality(P) \in Nat
    BY <1>9, <1>10, FS_EmptySet, FS_CardinalityType
  <2> QED
    BY <2>1, <2>2
<1>13. Cardinality(EmptyIn(E, is) \cup Q) = Cardinality(EmptyIn(E, is)) + Cardinality(Q)
  <2>1. Cardinality(EmptyIn(E, is) \cup Q)
           = Cardinality(EmptyIn(E, is)) + Cardinality(Q) - Cardinality({})
    BY <1>9, <1>10, <1>11, FS_Union
  <2>2. /\ Cardinality({}) = 0 /\ Cardinality(EmptyIn(E, is)) \in Nat
        /\ Cardinality(Q) \in Nat
    BY <1>9, <1>10, FS_EmptySet, FS_CardinalityType
  <2> QED
    BY <2>1, <2>2
<1>14. IsFiniteSet(is \cup {i}) /\ Cardinality(is \cup {i}) = Cardinality(is) + 1
  <2>1. i \notin is
    BY DEF Coming
  <2> QED
    BY <1>10, <2>1, FS_AddElement
<1>15. LengthsFrom(SumFunction(LengthsIn(E, is)), e.frames) = SumFunction(LengthsIn(E, is \cup {i}))
  <2>1. PICK f : f = LengthsIn(E, is)
    OBVIOUS
  <2>2. PICK g : g = LengthsIn(E, is \cup {i})
    OBVIOUS
  <2>3. \A p \in FramesIn(E, is \cup {i}) : E[p[1]].frames[p[2]].length \in Nat
    BY FramesMore
  <2>4. g \in [F \cup PairsAt(i, DOMAIN e.frames) -> Nat]
    BY <1>3, <1>5, <2>2, <2>3 DEF LengthsIn
  <2>5. f \in [F -> Nat]
    BY <1>2, <1>5, <2>1, <2>3 DEF LengthsIn
  <2>6. \A p \in F : g[p] = f[p]
    BY <1>2, <1>5, <2>1, <2>2 DEF LengthsIn
  <2>7. \A n \in DOMAIN e.frames : g[<<i, n>>] = e.frames[n].length
    <3> SUFFICES ASSUME NEW n \in DOMAIN e.frames PROVE g[<<i, n>>] = e.frames[n].length
      OBVIOUS
    <3>1. <<i, n>> \in FramesIn(E, is \cup {i})
      BY <1>3, <1>5 DEF PairsAt
    <3> QED
      BY <1>1, <2>2, <3>1 DEF LengthsIn
  <2>8. FramesAdded(f, g, F, i, e.frames)
    BY <1>5, <1>6, <1>10, <2>4, <2>5, <2>6, <2>7 DEF FramesAdded
  <2>9. SumFunction(g) = LengthsFrom(SumFunction(f), e.frames)
    BY <2>8, LengthsAreSum
  <2> QED
    BY <2>1, <2>2, <2>9
<1> QED
  BY <1>1, <1>2, <1>3, <1>4, <1>5, <1>7, <1>8, <1>9, <1>12, <1>13, <1>14, <1>15 DEF Summed

\* A completion that comes first has no gap.
LEMMA GapsNone ==
    ASSUME NEW E, NEW i \in Nat
    PROVE  GapsIn(E, {}) = {} /\ GapsIn(E, {i}) = {}
<1>1. \A q \in {i} \X {i} : ~Follows(q[2], q[1], {i})
  <2> SUFFICES ASSUME NEW q \in {i} \X {i} PROVE ~Follows(q[2], q[1], {i})
    OBVIOUS
  <2>1. q[1] = i /\ q[2] = i
    OBVIOUS
  <2> QED
    BY <2>1 DEF Follows
<1>2. {q \in {i} \X {i} : Follows(q[2], q[1], {i})} = {}
  BY <1>1
<1>3. {q \in {} \X {} : Follows(q[2], q[1], {})} = {}
  OBVIOUS
<1> QED
  BY <1>2, <1>3 DEF GapsIn

\* What a gap is.
LEMMA GapIs ==
    ASSUME NEW E, NEW is, NEW x
    PROVE  x \in GapsIn(E, is)
              <=> \E a, b \in is : Follows(b, a, is) /\ x = E[b].timestamp - E[a].timestamp
<1> DEFINE next == {q \in is \X is : Follows(q[2], q[1], is)}
<1>1. x \in GapsIn(E, is) <=> \E p \in next : x = E[p[2]].timestamp - E[p[1]].timestamp
  BY DEF GapsIn
<1>2. ASSUME NEW p \in next, x = E[p[2]].timestamp - E[p[1]].timestamp
      PROVE  \E a, b \in is : Follows(b, a, is) /\ x = E[b].timestamp - E[a].timestamp
  <2>1. p[1] \in is /\ p[2] \in is /\ Follows(p[2], p[1], is)
    OBVIOUS
  <2> QED
    BY <1>2, <2>1
<1>3. ASSUME NEW a \in is, NEW b \in is, Follows(b, a, is), x = E[b].timestamp - E[a].timestamp
      PROVE  \E p \in next : x = E[p[2]].timestamp - E[p[1]].timestamp
  <2>1. <<a, b>>[1] = a /\ <<a, b>>[2] = b /\ <<a, b>> \in is \X is
    OBVIOUS
  <2>2. <<a, b>> \in next
    BY <1>3, <2>1
  <2> QED
    BY <1>3, <2>1, <2>2
<1> HIDE DEF next
<1> QED
  BY <1>1, <1>2, <1>3, Zenon

\* A completion that comes adds the time since the last.
LEMMA GapsMore ==
    ASSUME NEW E, NEW is, NEW i, Coming(E, is, i), NEW l \in is, \A j \in is : j <= l
    PROVE  GapsIn(E, is \cup {i}) = GapsIn(E, is) \cup {E[i].timestamp - E[l].timestamp}
<1>1. is \in SUBSET Nat /\ i \in Nat /\ \A j \in is : j < i
  BY DEF Coming
<1>2. PICK is2 : is2 = is \cup {i}
  OBVIOUS
<1>3. is2 \in SUBSET Nat
  BY <1>1, <1>2
<1>4. ASSUME NEW a \in is2, NEW b \in is2
      PROVE  Follows(b, a, is2) <=> \/ a \in is /\ b \in is /\ Follows(b, a, is)
                                    \/ a = l /\ b = i
  <2>0. a \in Nat /\ b \in Nat /\ l \in Nat
    BY <1>1, <1>3
  <2>1. CASE a \in is /\ b \in is
    <3>1. b < i /\ b # i
      BY <1>1, <2>0, <2>1
    <3>2. Follows(b, a, is2) <=> Follows(b, a, is)
      BY <1>1, <1>2, <2>0, <3>1 DEF Follows
    <3> QED
      BY <2>1, <3>1, <3>2
  <2>2. CASE b = i /\ a \in is
    <3>1. i \notin is
      BY <1>1
    <3>2. CASE a = l
      <4>1. \A k \in is2 : k <= l \/ i <= k
        BY <1>1, <1>2
      <4>2. l < i
        BY <1>1
      <4> QED
        BY <2>2, <3>2, <4>1, <4>2 DEF Follows
    <3>3. CASE a # l
      <4>1. l \in is2 /\ ~(l <= a) /\ ~(i <= l)
        BY <1>1, <1>2, <2>0, <2>2, <3>3
      <4> QED
        BY <2>2, <3>1, <3>3, <4>1 DEF Follows
    <3> QED
      BY <3>2, <3>3
  <2>3. CASE a = i
    <3>1. b <= i /\ ~(i < b) /\ i \notin is /\ l # i
      BY <1>1, <1>2, <2>0
    <3> QED
      BY <2>3, <3>1 DEF Follows
  <2> QED
    BY <1>2, <2>1, <2>2, <2>3
<1>5. l \in is2 /\ i \in is2 /\ is \subseteq is2
  BY <1>2
<1>6. ASSUME NEW x PROVE x \in GapsIn(E, is2)
                          <=> \E a, b \in is2 : Follows(b, a, is2) /\ x = E[b].timestamp - E[a].timestamp
  BY GapIs
<1>7. ASSUME NEW x PROVE x \in GapsIn(E, is)
                          <=> \E a, b \in is : Follows(b, a, is) /\ x = E[b].timestamp - E[a].timestamp
  BY GapIs
<1>8. ASSUME NEW x \in GapsIn(E, is2)
      PROVE  x \in GapsIn(E, is) \cup {E[i].timestamp - E[l].timestamp}
  <2>1. PICK a \in is2, b \in is2 : Follows(b, a, is2) /\ x = E[b].timestamp - E[a].timestamp
    BY <1>6
  <2>2. \/ a \in is /\ b \in is /\ Follows(b, a, is)
        \/ a = l /\ b = i
    BY <1>4, <2>1
  <2> QED
    BY <1>7, <2>1, <2>2
<1>9. ASSUME NEW x \in GapsIn(E, is) PROVE x \in GapsIn(E, is2)
  <2>1. PICK a \in is, b \in is : Follows(b, a, is) /\ x = E[b].timestamp - E[a].timestamp
    BY <1>7
  <2>2. Follows(b, a, is2)
    BY <1>4, <1>5, <2>1
  <2> QED
    BY <1>5, <1>6, <2>1, <2>2
<1>10. E[i].timestamp - E[l].timestamp \in GapsIn(E, is2)
  <2>1. Follows(i, l, is2)
    BY <1>4, <1>5
  <2> QED
    BY <1>5, <1>6, <2>1
<1>11. GapsIn(E, is2) = GapsIn(E, is) \cup {E[i].timestamp - E[l].timestamp}
  BY <1>8, <1>9, <1>10
<1> QED
  BY <1>2, <1>11

\* The greatest with one number more.
LEMMA GreatestMore ==
    ASSUME NEW S \in SUBSET Int, NEW m, Greatest(m, S), NEW x \in Int
    PROVE  Greatest(Max({m, x}), S \cup {x})
<1>1. m \in S /\ m \in Int /\ \A y \in S : y <= m
  BY DEF Greatest
<1>2. CASE x <= m
  <2>1. {m, x} \in SUBSET Int /\ m \in {m, x} /\ \A y \in {m, x} : y <= m
    BY <1>1, <1>2
  <2>2. Max({m, x}) = m
    BY <2>1, MaxIs
  <2> QED
    BY <1>1, <1>2, <2>2 DEF Greatest
<1>3. CASE m <= x
  <2>1. {m, x} \in SUBSET Int /\ x \in {m, x} /\ \A y \in {m, x} : y <= x
    BY <1>1, <1>3
  <2>2. Max({m, x}) = x
    BY <2>1, MaxIs
  <2>3. \A y \in S \cup {x} : y <= x
    BY <1>1, <1>3
  <2> QED
    BY <2>2, <2>3 DEF Greatest
<1> QED
  BY <1>1, <1>2, <1>3

\* Gaps are differences of times.
LEMMA GapsType ==
    ASSUME NEW E, NEW is, \A j \in is : E[j] \in EventTypes(Nat)
    PROVE  {0} \cup GapsIn(E, is) \in SUBSET Int
<1>1. \A j \in is : E[j].timestamp \in Nat
  BY EventFields
<1>2. \A a, b \in is : E[b].timestamp - E[a].timestamp \in Int
  BY <1>1
<1> QED
  BY <1>2 DEF GapsIn

\* An endpoint that has seen nothing.
LEMMA SummedNew == ASSUME NEW E PROVE Summed(E, {}, NewEndpoint)
<1>1. FramesIn(E, {}) = {} /\ EmptyIn(E, {}) = {}
  BY DEF FramesIn, EmptyIn
<1>2. LengthsIn(E, {}) \in [{} -> Nat]
  BY <1>1 DEF LengthsIn
<1>3. SumFunction(LengthsIn(E, {})) = 0
  BY <1>2, SumNothing
<1>4. IsFiniteSet({}) /\ Cardinality({}) = 0
  BY FS_EmptySet
<1>5. GapsIn(E, {}) = {}
  BY GapsNone
<1>6. Greatest(0, {0} \cup GapsIn(E, {}))
  BY <1>5 DEF Greatest
<1>7. LastOf(E, {}, <<>>)
  BY DEF LastOf
<1> QED
  BY <1>1, <1>3, <1>4, <1>6, <1>7 DEF Summed, NewEndpoint

\* The largest gap with one completion more.
LEMMA MaxGapMore ==
    ASSUME NEW E, NEW is, NEW i, Coming(E, is, i), NEW ep, Summed(E, is, ep)
    PROVE  Greatest(Max({ep.max_gap, Gap(ep, E[i].timestamp)}), {0} \cup GapsIn(E, is \cup {i}))
<1>1. PICK S \in SUBSET Int : S = {0} \cup GapsIn(E, is)
  <2>1. \A j \in is : E[j] \in EventTypes(Nat)
    BY DEF Coming
  <2> QED
    BY <2>1, GapsType
<1>2. Greatest(ep.max_gap, S) /\ 0 \in S
  BY <1>1 DEF Summed
<1>3. PICK t \in Nat : t = E[i].timestamp
  <2>1. E[i] \in EventTypes(Nat)
    BY DEF Coming
  <2> QED
    BY <2>1, EventFields
<1>4. CASE is = {}
  <2>1. Gap(ep, t) = 0
    BY <1>4 DEF Gap, Summed, LastOf
  <2>2. Greatest(Max({ep.max_gap, 0}), S \cup {0})
    BY <1>1, <1>2, GreatestMore
  <2>3. is \cup {i} = {i} /\ i \in Nat
    BY <1>4 DEF Coming
  <2>4. GapsIn(E, is) = {} /\ GapsIn(E, is \cup {i}) = {}
    BY <1>4, <2>3, GapsNone
  <2>5. S \cup {0} = {0} \cup GapsIn(E, is \cup {i})
    BY <1>1, <2>4
  <2> QED
    BY <1>3, <2>1, <2>2, <2>5
<1>5. CASE is # {}
  <2>1. PICK l \in is : (\A j \in is : j <= l) /\ ep.previous = <<E[l].timestamp>>
    BY <1>5 DEF Summed, LastOf
  <2>2. PICK u \in Nat : u = E[l].timestamp
    <3>1. E[l] \in EventTypes(Nat)
      BY DEF Coming
    <3> QED
      BY <3>1, EventFields
  <2>3. ep.previous # <<>> /\ ep.previous[1] = u
    BY <2>1, <2>2
  <2>4. Gap(ep, t) = t - u
    BY <2>3 DEF Gap
  <2>5. GapsIn(E, is \cup {i}) = GapsIn(E, is) \cup {t - u}
    BY <1>3, <2>1, <2>2, GapsMore
  <2>6. Greatest(Max({ep.max_gap, t - u}), S \cup {t - u})
    BY <1>1, <1>2, GreatestMore
  <2>7. S \cup {t - u} = {0} \cup GapsIn(E, is \cup {i})
    BY <1>1, <2>5
  <2> QED
    BY <1>3, <2>4, <2>6, <2>7
<1> QED
  BY <1>4, <1>5

\* observe() keeps an endpoint's statistics exact.
LEMMA SummedMore ==
    ASSUME NEW E, NEW is, NEW i, Coming(E, is, i), NEW ep, Summed(E, is, ep)
    PROVE  Summed(E, is \cup {i}, Observing(ep, E[i]))
<1>1. LastOf(E, is \cup {i}, <<E[i].timestamp>>)
  <2>1. i \in is \cup {i} /\ is \cup {i} # {} /\ \A j \in is \cup {i} : j <= i
    BY DEF Coming
  <2> QED
    BY <2>1 DEF LastOf
<1>2. Greatest(Max({ep.max_gap, Gap(ep, E[i].timestamp)}), {0} \cup GapsIn(E, is \cup {i}))
  BY MaxGapMore
<1>3. PICK new : new = Observing(ep, E[i])
  OBVIOUS
<1>4. /\ new.urbs = ep.urbs + 1 /\ new.frames = ep.frames + Len(E[i].frames)
      /\ new.bytes = LengthsFrom(ep.bytes, E[i].frames)
      /\ new.empty_frames = ep.empty_frames + Cardinality(Empties(E[i]))
      /\ new.previous = <<E[i].timestamp>>
      /\ new.max_gap = Max({ep.max_gap, Gap(ep, E[i].timestamp)})
  BY <1>3 DEF Observing
<1>5. /\ IsFiniteSet(is \cup {i}) /\ IsFiniteSet(FramesIn(E, is \cup {i}))
      /\ ep.urbs + 1 = Cardinality(is \cup {i})
      /\ ep.frames + Len(E[i].frames) = Cardinality(FramesIn(E, is \cup {i}))
      /\ LengthsFrom(ep.bytes, E[i].frames) = SumFunction(LengthsIn(E, is \cup {i}))
      /\ ep.empty_frames + Cardinality(Empties(E[i])) = Cardinality(EmptyIn(E, is \cup {i}))
  BY CountsMore
<1>6. Summed(E, is \cup {i}, new)
  BY <1>1, <1>2, <1>4, <1>5 DEF Summed
<1> QED
  BY <1>3, <1>6

\* It depends on the events of the endpoint only.
LEMMA SummedStays ==
    ASSUME NEW D, NEW E, NEW is, NEW ep, Summed(D, is, ep), \A i \in is : E[i] = D[i]
    PROVE  Summed(E, is, ep)
<1>1. FramesIn(E, is) = FramesIn(D, is)
  BY DEF FramesIn
<1>2. \A p \in FramesIn(D, is) : p[1] \in is
  BY DEF FramesIn, PairsAt
<1>3. EmptyIn(E, is) = EmptyIn(D, is)
  BY <1>1, <1>2 DEF EmptyIn
<1>4. LengthsIn(E, is) = LengthsIn(D, is)
  BY <1>1, <1>2 DEF LengthsIn
<1>5. GapsIn(E, is) = GapsIn(D, is)
  <2>1. \A p \in is \X is : E[p[1]] = D[p[1]] /\ E[p[2]] = D[p[2]]
    OBVIOUS
  <2> QED
    BY <2>1 DEF GapsIn
<1>6. LastOf(E, is, ep.previous)
  BY DEF Summed, LastOf
<1> QED
  BY <1>1, <1>3, <1>4, <1>5, <1>6 DEF Summed

-----------------------------------------------------------------------------
(* The statistics of all endpoints *)

\* The outcomes of events that the filter has selected.
Selected == {"written", "printed", "full", "failed"}

\* The key of an event in the statistics.
EndpointOf(e) == <<e.source_id, e.in>>

\* An event that observe() has counted.
Observed(x) == x.what \in Selected /\ x.event.iso /\ x.event.event_type = "C"

\* The inputs that were counted for an endpoint.
CountedFor(ret, key) ==
    {ret[m].event.content : m \in {j \in DOMAIN ret :
                                      Observed(ret[j]) /\ EndpointOf(ret[j].event) = key}}

\* The endpoints that were counted.
EndpointsIn(ret) == {EndpointOf(ret[m].event) : m \in {j \in DOMAIN ret : Observed(ret[j])}}

\* The statistics are those of the events that were counted.
IsoOK(ret, stats, E) ==
    /\ \A m \in DOMAIN ret : E[ret[m].event.content] = ret[m].event
    /\ DOMAIN stats = EndpointsIn(ret) /\ IsFiniteSet(DOMAIN stats)
    /\ \A key \in DOMAIN stats : Summed(E, CountedFor(ret, key), stats[key])

\* What observe() makes of the statistics.
ObservedStats(stats, e) ==
    LET key == EndpointOf(e)
        ep == IF key \in DOMAIN stats THEN stats[key] ELSE NewEndpoint
    IN  Inserted(stats, key, Observing(ep, e))

\* One outcome more.
OutcomeAdded(ret, new, L, x, n) ==
    /\ L \in Nat /\ n \in Nat /\ DOMAIN ret = 1 .. L /\ DOMAIN new = 1 .. (L + 1)
    /\ \A m \in 1 .. L : /\ new[m] = ret[m] /\ ret[m].event \in EventTypes(Nat)
                         /\ ret[m].event.content \in 1 .. n
    /\ new[L + 1] = x /\ x.event \in EventTypes(Nat) /\ x.event.content = n + 1

\* What is counted with one outcome more.
LEMMA CountedMore ==
    ASSUME NEW ret, NEW new, NEW L, NEW x, NEW n, OutcomeAdded(ret, new, L, x, n), NEW key
    PROVE  /\ CountedFor(ret, key) \in SUBSET (1 .. n)
           /\ CountedFor(new, key)
                 = IF Observed(x) /\ EndpointOf(x.event) = key
                   THEN CountedFor(ret, key) \cup {n + 1} ELSE CountedFor(ret, key)
           /\ EndpointsIn(new)
                 = IF Observed(x) THEN EndpointsIn(ret) \cup {EndpointOf(x.event)}
                   ELSE EndpointsIn(ret)
<1>1. /\ L \in Nat /\ DOMAIN ret = 1 .. L /\ DOMAIN new = 1 .. (L + 1)
      /\ \A m \in 1 .. L : new[m] = ret[m] /\ ret[m].event.content \in 1 .. n
      /\ new[L + 1] = x /\ x.event.content = n + 1
  BY DEF OutcomeAdded
<1> DEFINE for(j) == Observed(j) /\ EndpointOf(j.event) = key
           old == {j \in DOMAIN ret : for(ret[j])}
           all == {j \in DOMAIN new : for(new[j])}
           seen == {j \in DOMAIN ret : Observed(ret[j])}
           watched == {j \in DOMAIN new : Observed(new[j])}
<1>2. 1 .. (L + 1) = (1 .. L) \cup {L + 1} /\ L + 1 \notin 1 .. L
  BY <1>1
<1>3. all = IF for(x) THEN old \cup {L + 1} ELSE old
  BY <1>1, <1>2
<1>4. watched = IF Observed(x) THEN seen \cup {L + 1} ELSE seen
  BY <1>1, <1>2
<1>5. \A m \in old : new[m] = ret[m] /\ ret[m].event.content \in 1 .. n
  BY <1>1
<1>6. \A m \in seen : new[m] = ret[m]
  BY <1>1
<1>7. /\ CountedFor(ret, key) = {ret[m].event.content : m \in old}
      /\ CountedFor(new, key) = {new[m].event.content : m \in all}
      /\ EndpointsIn(ret) = {EndpointOf(ret[m].event) : m \in seen}
      /\ EndpointsIn(new) = {EndpointOf(new[m].event) : m \in watched}
  BY DEF CountedFor, EndpointsIn
<1> HIDE DEF old, all, seen, watched
<1>8. CountedFor(new, key)
         = IF for(x) THEN CountedFor(ret, key) \cup {n + 1} ELSE CountedFor(ret, key)
  BY <1>1, <1>3, <1>5, <1>7
<1>9. EndpointsIn(new)
         = IF Observed(x) THEN EndpointsIn(ret) \cup {EndpointOf(x.event)} ELSE EndpointsIn(ret)
  BY <1>1, <1>4, <1>6, <1>7
<1>10. CountedFor(ret, key) \in SUBSET (1 .. n)
  BY <1>5, <1>7
<1> QED
  BY <1>8, <1>9, <1>10

\* Nothing is counted for an endpoint that is not in the statistics.
LEMMA NothingCounted ==
    ASSUME NEW ret, NEW key, key \notin EndpointsIn(ret)
    PROVE  CountedFor(ret, key) = {}
BY DEF CountedFor, EndpointsIn

\* The statistics stay exact with one outcome more.
LEMMA IsoGrows ==
    ASSUME NEW ret, NEW new, NEW L, NEW x, NEW n, OutcomeAdded(ret, new, L, x, n),
           NEW stats, NEW E, IsoOK(ret, stats, E), NEW stats2,
           stats2 = IF Observed(x) THEN ObservedStats(stats, x.event) ELSE stats
    PROVE  \E D : IsoOK(new, stats2, D)
<1> DEFINE D == [i \in 1 .. (n + 1) |-> IF i = n + 1 THEN x.event ELSE E[i]]
<1>0. n \in Nat /\ x.event \in EventTypes(Nat)
  BY DEF OutcomeAdded
<1>1. D[n + 1] = x.event /\ \A i \in 1 .. n : D[i] = E[i]
  BY <1>0
<1> HIDE DEF D
<1>2. /\ DOMAIN new = 1 .. (L + 1) /\ L \in Nat /\ DOMAIN ret = 1 .. L
      /\ \A m \in 1 .. L : /\ new[m] = ret[m] /\ ret[m].event \in EventTypes(Nat)
                           /\ ret[m].event.content \in 1 .. n
      /\ new[L + 1] = x /\ x.event.content = n + 1
  BY DEF OutcomeAdded
<1>3. \A m \in DOMAIN ret : E[ret[m].event.content] = ret[m].event
  BY DEF IsoOK
<1>4. ASSUME NEW m \in DOMAIN new PROVE D[new[m].event.content] = new[m].event
  <2>1. CASE m = L + 1
    BY <1>1, <1>2, <2>1
  <2>2. CASE m \in 1 .. L
    BY <1>1, <1>2, <1>3, <2>2
  <2> QED
    BY <1>2, <2>1, <2>2
<1>5. ASSUME NEW key \in EndpointsIn(ret)
      PROVE  Summed(D, CountedFor(ret, key), stats[key])
  <2>1. Summed(E, CountedFor(ret, key), stats[key])
    BY DEF IsoOK
  <2>2. \A i \in CountedFor(ret, key) : D[i] = E[i]
    BY <1>1, CountedMore
  <2> QED
    BY <2>1, <2>2, SummedStays
<1>6. DOMAIN stats = EndpointsIn(ret) /\ IsFiniteSet(DOMAIN stats)
  BY DEF IsoOK
<1>7. CASE ~Observed(x)
  <2>1. stats2 = stats /\ EndpointsIn(new) = EndpointsIn(ret)
    BY <1>7, CountedMore
  <2>2. \A key : CountedFor(new, key) = CountedFor(ret, key)
    BY <1>7, CountedMore
  <2>3. IsoOK(new, stats2, D)
    BY <1>4, <1>5, <1>6, <2>1, <2>2 DEF IsoOK
  <2> QED
    BY <2>3
<1>8. CASE Observed(x)
  <2>1. PICK k : k = EndpointOf(x.event)
    OBVIOUS
  <2>2. PICK ep : ep = IF k \in DOMAIN stats THEN stats[k] ELSE NewEndpoint
    OBVIOUS
  <2>3. PICK v : v = Observing(ep, x.event) /\ stats2 = Inserted(stats, k, v)
    BY <1>8, <2>1, <2>2 DEF ObservedStats
  <2>4. /\ DOMAIN stats2 = {k} \cup DOMAIN stats
        /\ stats2[k] = Observing(ep, x.event)
        /\ \A j \in DOMAIN stats : j # k => stats2[j] = stats[j]
    BY <2>3 DEF Inserted
  <2>5. EndpointsIn(new) = EndpointsIn(ret) \cup {k}
    BY <1>8, <2>1, CountedMore
  <2>6. Summed(D, CountedFor(ret, k), ep)
    <3>1. CASE k \in DOMAIN stats
      BY <1>5, <1>6, <2>2, <3>1
    <3>2. CASE k \notin DOMAIN stats
      <4>1. CountedFor(ret, k) = {}
        BY <1>6, <3>2, NothingCounted
      <4> QED
        BY <2>2, <3>2, <4>1, SummedNew
    <3> QED
      BY <3>1, <3>2
  <2>7. CountedFor(ret, k) \in SUBSET (1 .. n) /\ CountedFor(new, k) = CountedFor(ret, k) \cup {n + 1}
    BY <1>8, <2>1, CountedMore
  <2>8. Coming(D, CountedFor(ret, k), n + 1)
    <3>1. ASSUME NEW j \in CountedFor(ret, k) PROVE D[j] \in EventTypes(Nat)
      <4>1. PICK m \in DOMAIN ret : j = ret[m].event.content
        BY DEF CountedFor
      <4>2. m \in DOMAIN new /\ new[m] = ret[m] /\ ret[m].event \in EventTypes(Nat)
        BY <1>2
      <4> QED
        BY <1>4, <4>1, <4>2
    <3>2. n + 1 \in Nat /\ \A j \in CountedFor(ret, k) : j \in Nat /\ j < n + 1
      BY <1>0, <2>7
    <3> QED
      BY <1>0, <1>1, <3>1, <3>2 DEF Coming
  <2>9. Summed(D, CountedFor(new, k), stats2[k])
    <3>1. Summed(D, CountedFor(ret, k) \cup {n + 1}, Observing(ep, D[n + 1]))
      BY <2>6, <2>8, SummedMore
    <3> QED
      BY <1>1, <2>4, <2>7, <3>1
  <2>10. ASSUME NEW j \in DOMAIN stats2 PROVE Summed(D, CountedFor(new, j), stats2[j])
    <3>1. CASE j = k
      BY <2>9, <3>1
    <3>2. CASE j # k
      <4>1. j \in DOMAIN stats /\ stats2[j] = stats[j]
        BY <2>4, <3>2
      <4>2. CountedFor(new, j) = CountedFor(ret, j)
        BY <2>1, <3>2, CountedMore
      <4> QED
        BY <1>5, <1>6, <4>1, <4>2
    <3> QED
      BY <3>1, <3>2
  <2>11. IsFiniteSet(DOMAIN stats2)
    <3>1. IsFiniteSet(DOMAIN stats \cup {k})
      BY <1>6, FS_AddElement
    <3>2. DOMAIN stats2 = DOMAIN stats \cup {k}
      BY <2>4
    <3> QED
      BY <3>1, <3>2
  <2>12. IsoOK(new, stats2, D)
    BY <1>4, <1>6, <2>4, <2>5, <2>10, <2>11 DEF IsoOK
  <2> QED
    BY <2>12
<1> QED
  BY <1>7, <1>8

\* The statistics are exact if they are wanted, and empty otherwise.
IsoInv ==
    IF options.iso_stats THEN \E E : IsoOK(returned, iso_stats, E) ELSE DOMAIN iso_stats = {}

\* There are none at the start.
LEMMA IsoInit == Init => IsoInv
<1> SUFFICES ASSUME Init PROVE IsoInv
  OBVIOUS
<1>1. returned = <<>> /\ iso_stats = <<>>
  BY DEF Init
<1>2. DOMAIN returned = {} /\ DOMAIN iso_stats = {}
  BY <1>1
<1>3. EndpointsIn(returned) = {}
  BY <1>2 DEF EndpointsIn
<1>4. IsoOK(returned, iso_stats, <<>>)
  BY <1>2, <1>3, FS_EmptySet DEF IsoOK
<1> QED
  BY <1>2, <1>4 DEF IsoInv

\* What consume_event() does to the statistics.
LEMMA ConsumeStats ==
    ASSUME TypeInv, NEW e \in EventTypes(Nat), ConsumeEvent(e)
    PROVE  \E what \in Whats, latency \in Seq(Nat), file \in Nat :
              /\ Outcome(e, latency, what, file)
              /\ iso_stats' = IF what \in Selected /\ options.iso_stats THEN Observe(e)
                              ELSE iso_stats
<1>0. <<>> \in Seq(Nat) /\ 0 \in Nat /\ Latency(e) \in Seq(Nat)
  BY LatencyType
<1>1. CASE \E what \in {"ignored", "refused"} : Outcome(e, <<>>, what, 0) /\ UNCHANGED table
  <2>1. PICK what \in {"ignored", "refused"} : Outcome(e, <<>>, what, 0) /\ UNCHANGED table
    BY <1>1
  <2>2. iso_stats' = iso_stats /\ what \in Whats /\ what \notin Selected
    BY <2>1 DEF table, Whats, Selected
  <2> QED
    BY <1>0, <2>1, <2>2
<1>2. CASE Outcome(e, Latency(e), "rejected", 0) /\ UNCHANGED <<iso_stats, output, status>>
  <2>1. iso_stats' = iso_stats /\ "rejected" \in Whats /\ "rejected" \notin Selected
    BY <1>2 DEF Whats, Selected
  <2> QED
    BY <1>0, <1>2, <2>1
<1>3. CASE Emit(e) /\ iso_stats' = IF options.iso_stats THEN Observe(e) ELSE iso_stats
  <2>1. PICK what \in Selected, file \in Nat : Outcome(e, Latency(e), what, file)
    <3>1. CASE \E what \in {"printed", "full", "failed"} : Outcome(e, Latency(e), what, 0)
      BY <1>0, <3>1 DEF Selected
    <3>2. CASE options.write /\ Write(e) /\ ~Full(e) /\ ~(Due(e) /\ Exists(Len(files)))
               /\ Outcome(e, Latency(e), "written", Len(files'))
      <4>1. Len(files') \in Nat
        BY <3>2, WriteTypes
      <4> QED
        BY <3>2, <4>1 DEF Selected
    <3> QED
      BY <1>3, <3>1, <3>2 DEF Emit
  <2>2. what \in Whats
    BY <2>1 DEF Whats, Selected
  <2> QED
    BY <1>0, <1>3, <2>1, <2>2
<1> QED
  BY <1>1, <1>2, <1>3 DEF ConsumeEvent

\* observe() on the state.
LEMMA ObserveIs ==
    ASSUME NEW e
    PROVE  Observe(e) = IF e.iso /\ e.event_type = "C" THEN ObservedStats(iso_stats, e)
                        ELSE iso_stats
<1> QED
  BY DEF Observe, ObservedStats, Observing, EndpointOf, LengthsFrom, Empties

\* Every step keeps the statistics exact.
LEMMA IsoStep ==
    TypeInv /\ HistoryInv /\ IsoInv /\ [Next]_vars => IsoInv'
<1> SUFFICES ASSUME TypeInv, HistoryInv, IsoInv, [Next]_vars PROVE IsoInv'
  OBVIOUS
<1>1. CASE UNCHANGED <<options, returned, iso_stats>>
  BY <1>1 DEF IsoInv
<1>2. CASE Finish
  BY <1>1, <1>2 DEF Finish, table
<1>3. CASE \E b : QuietStep(b)
  BY <1>1, <1>3 DEF QuietStep, Fed, table
<1>4. ASSUME NEW b, NEW e, EventStep(b, e) PROVE IsoInv'
  <2>1. Fed(b) /\ e \in EventTypes(Nat) /\ ConsumeEvent(e) /\ e.content = Len(input) + 1
        /\ options' = options
    BY <1>4 DEF EventStep, Fed
  <2>2. PICK what \in Whats, latency \in Seq(Nat), file \in Nat :
           /\ Outcome(e, latency, what, file)
           /\ iso_stats' = IF what \in Selected /\ options.iso_stats THEN Observe(e)
                           ELSE iso_stats
    BY <2>1, ConsumeStats
  <2>3. CASE ~options.iso_stats
    BY <2>1, <2>2, <2>3 DEF IsoInv
  <2>4. CASE options.iso_stats
    <3>1. PICK E : IsoOK(returned, iso_stats, E)
      BY <2>4 DEF IsoInv
    <3>2. PICK L, x, n : L = Len(returned) /\ x = returned'[Len(returned) + 1] /\ n = Len(input)
      OBVIOUS
    <3>3. /\ L \in Nat /\ DOMAIN returned = 1 .. L /\ (DOMAIN returned)' = 1 .. (L + 1)
          /\ \A m \in 1 .. L : returned'[m] = returned[m]
          /\ x.event = e /\ x.what = what
      BY <2>1, <2>2, <3>2, EventReturned
    <3>4. n \in Nat /\ \A m \in 1 .. L : returned[m].event.content \in 1 .. n
      BY <2>1, <3>2, <3>3, FedInput DEF HistoryInv, At
    <3>5. \A m \in 1 .. L : returned[m].event \in EventTypes(Nat)
      <4>1. \A m \in 1 .. L : returned[m] \in OutcomeTypes
        BY <3>3 DEF TypeInv
      <4> QED
        BY <4>1 DEF OutcomeTypes
    <3>6. OutcomeAdded(returned, returned', L, x, n)
      BY <2>1, <3>2, <3>3, <3>4, <3>5 DEF OutcomeAdded
    <3>7. iso_stats' = IF Observed(x) THEN ObservedStats(iso_stats, x.event) ELSE iso_stats
      BY <2>2, <2>4, <3>3, ObserveIs DEF Observed
    <3>8. \E D : IsoOK(returned', iso_stats', D)
      BY <3>1, <3>6, <3>7, IsoGrows
    <3> QED
      BY <2>1, <2>4, <3>8 DEF IsoInv
  <2> QED
    BY <2>3, <2>4
<1>5. CASE Next
  BY <1>2, <1>3, <1>4, <1>5, Steps
<1>6. CASE UNCHANGED vars
  BY <1>1, <1>6 DEF vars, table
<1> QED
  BY <1>5, <1>6

\* What was counted, by input and by outcome.
LEMMA CountedInputs ==
    ASSUME TypeInv, HistoryInv, SourceInv, options.iso_stats,
           NEW E, \A m \in DOMAIN returned : E[At(m)] = returned[m].event,
           NEW counted,
           counted = {i \in Became({"written", "printed", "full", "failed"}) :
                         options.iso_stats /\ EventAt(i).iso /\ EventAt(i).event_type = "C"}
    PROVE  /\ \A i \in counted : \E m \in DOMAIN returned : Observed(returned[m]) /\ i = At(m)
           /\ \A m \in DOMAIN returned : Observed(returned[m]) => At(m) \in counted
           /\ \A m \in DOMAIN returned : EventAt(At(m)) = returned[m].event
           /\ \A m \in DOMAIN returned, n \in DOMAIN returned :
                 At(m) = At(n) => returned[m].event = returned[n].event
           /\ \A m \in DOMAIN returned, n \in DOMAIN returned :
                 EndpointOf(returned[m].event) = EndpointOf(returned[n].event)
                    <=> /\ Origin(At(m)) = Origin(At(n))
                        /\ EventAt(At(m)).in = EventAt(At(n)).in
<1>1. \A m \in DOMAIN returned : EventAt(At(m)) = returned[m].event
  BY EventFound
<1>2. ASSUME NEW i \in counted
      PROVE  \E m \in DOMAIN returned : Observed(returned[m]) /\ i = At(m)
  <2>1. PICK m \in DOMAIN returned : returned[m].what \in Selected /\ i = At(m)
    BY DEF Became, Selected
  <2>2. returned[m].event.iso /\ returned[m].event.event_type = "C"
    BY <1>1, <2>1
  <2> QED
    BY <2>1, <2>2 DEF Observed
<1>3. ASSUME NEW m \in DOMAIN returned, Observed(returned[m]) PROVE At(m) \in counted
  <2>1. /\ returned[m].what \in Selected
        /\ returned[m].event.iso /\ returned[m].event.event_type = "C"
    BY <1>3 DEF Observed
  <2>2. At(m) \in Became({"written", "printed", "full", "failed"})
    BY <2>1 DEF Became, Selected
  <2> QED
    BY <1>1, <2>1, <2>2
<1>4. ASSUME NEW m \in DOMAIN returned, NEW n \in DOMAIN returned
      PROVE  EndpointOf(returned[m].event) = EndpointOf(returned[n].event)
                <=> /\ Origin(At(m)) = Origin(At(n))
                    /\ EventAt(At(m)).in = EventAt(At(n)).in
  <2>1. returned[m].event.source_id = returned[n].event.source_id
           <=> OriginIn(Offline, input, At(m)) = OriginIn(Offline, input, At(n))
    BY DEF SourceInv
  <2>2. returned[m].event.source_id = returned[n].event.source_id
           <=> Origin(At(m)) = Origin(At(n))
    BY <2>1, InState
  <2> QED
    BY <1>1, <2>2 DEF EndpointOf
<1>5. ASSUME NEW m \in DOMAIN returned, NEW n \in DOMAIN returned, At(m) = At(n)
      PROVE  returned[m].event = returned[n].event
  BY <1>1, <1>5
<1> QED
  BY <1>1, <1>2, <1>3, <1>4, <1>5

\* The sums of the property are those of the invariant.
LEMMA SummedIs ==
    ASSUME TypeInv, NEW E, NEW is, NEW ep, Summed(E, is, ep),
           \A i \in is : EventAt(i) = E[i] /\ E[i] \in EventTypes(Nat)
    PROVE  LET follows(j, i) == i < j /\ \A k \in is : k <= i \/ j <= k
               gaps == {EventAt(p[2]).timestamp - EventAt(p[1]).timestamp :
                           p \in {q \in is \X is : follows(q[2], q[1])}}
               lengths == UNION {{<<i, n>> : n \in DOMAIN EventAt(i).frames} : i \in is}
               empty == {p \in lengths : EventAt(p[1]).frames[p[2]].length = 0}
           IN  /\ Cardinality(is) = ep.urbs
               /\ Cardinality(lengths) = ep.frames
               /\ SumFunction([p \in lengths |-> EventAt(p[1]).frames[p[2]].length]) = ep.bytes
               /\ Cardinality(empty) = ep.empty_frames
               /\ Max({0} \cup gaps) = ep.max_gap
<1> DEFINE follows(j, i) == i < j /\ \A k \in is : k <= i \/ j <= k
           gaps == {EventAt(p[2]).timestamp - EventAt(p[1]).timestamp :
                       p \in {q \in is \X is : follows(q[2], q[1])}}
           lengths == UNION {{<<i, n>> : n \in DOMAIN EventAt(i).frames} : i \in is}
           empty == {p \in lengths : EventAt(p[1]).frames[p[2]].length = 0}
<1>1. lengths = FramesIn(E, is)
  BY DEF FramesIn, PairsAt
<1>2. \A p \in FramesIn(E, is) : p[1] \in is
  BY DEF FramesIn, PairsAt
<1>3. empty = EmptyIn(E, is)
  <2> HIDE DEF lengths
  <2> QED
    BY <1>1, <1>2 DEF EmptyIn
<1>4. [p \in lengths |-> EventAt(p[1]).frames[p[2]].length] = LengthsIn(E, is)
  <2> HIDE DEF lengths
  <2> QED
    BY <1>1, <1>2 DEF LengthsIn
<1>5. gaps = GapsIn(E, is)
  <2>1. \A p \in is \X is : EventAt(p[1]) = E[p[1]] /\ EventAt(p[2]) = E[p[2]]
    OBVIOUS
  <2> QED
    BY <2>1 DEF GapsIn, Follows
<1>6. Max({0} \cup gaps) = ep.max_gap
  <2>1. {0} \cup GapsIn(E, is) \in SUBSET Int
    BY GapsType
  <2>2. ep.max_gap \in {0} \cup GapsIn(E, is) /\ \A x \in {0} \cup GapsIn(E, is) : x <= ep.max_gap
    BY DEF Summed, Greatest
  <2>3. Max({0} \cup GapsIn(E, is)) = ep.max_gap
    BY <2>1, <2>2, MaxIs
  <2> QED
    BY <1>5, <2>3
<1> HIDE DEF gaps, lengths, empty
<1>7. /\ Cardinality(is) = ep.urbs /\ Cardinality(lengths) = ep.frames
      /\ SumFunction([p \in lengths |-> EventAt(p[1]).frames[p[2]].length]) = ep.bytes
      /\ Cardinality(empty) = ep.empty_frames
  BY <1>1, <1>3, <1>4 DEF Summed
<1> QED
  BY <1>6, <1>7 DEF gaps, lengths, empty

\* The invariant says what the property does.
LEMMA IsoIsScoped == TypeInv /\ HistoryInv /\ SourceInv /\ IsoInv => IsoStatsScoped
<1> SUFFICES ASSUME TypeInv, HistoryInv, SourceInv, IsoInv PROVE IsoStatsScoped
  OBVIOUS
<1> DEFINE counted == {i \in Became({"written", "printed", "full", "failed"}) :
                          /\ options.iso_stats
                          /\ EventAt(i).iso /\ EventAt(i).event_type = "C"}
           endpoint(i) == {j \in counted : /\ Origin(i) = Origin(j)
                                           /\ EventAt(i).in = EventAt(j).in}
           follows(j, i, is) == i < j /\ \A k \in is : k <= i \/ j <= k
           gaps(is) == {EventAt(p[2]).timestamp - EventAt(p[1]).timestamp :
                           p \in {q \in is \X is : follows(q[2], q[1], is)}}
           lengths(is) == UNION {{<<i, n>> : n \in DOMAIN EventAt(i).frames} : i \in is}
           empty(is) == {p \in lengths(is) : EventAt(p[1]).frames[p[2]].length = 0}
           bytes(is) == SumFunction([p \in lengths(is) |-> EventAt(p[1]).frames[p[2]].length])
           endpoints == {endpoint(i) : i \in counted}
           sums(is) == <<Cardinality(is), Cardinality(lengths(is)), bytes(is),
                         Cardinality(empty(is)), Max({0} \cup gaps(is))>>
           said(ep) == <<ep.urbs, ep.frames, ep.bytes, ep.empty_frames, ep.max_gap>>
<1>1. SUFFICES /\ Cardinality(endpoints) = Cardinality(DOMAIN iso_stats)
               /\ {sums(is) : is \in endpoints} = {said(ep) : ep \in Range(iso_stats)}
  BY Zenon DEF IsoStatsScoped
<1>2. CASE ~options.iso_stats
  <2>1. counted = {} /\ DOMAIN iso_stats = {}
    BY <1>2 DEF IsoInv
  <2>2. endpoints = {}
    BY <2>1
  <2>3. Range(iso_stats) = {}
    BY <2>1 DEF Range
  <2> HIDE DEF endpoints, sums, said
  <2> QED
    BY <2>1, <2>2, <2>3
<1>3. CASE options.iso_stats
  <2>1. PICK E : IsoOK(returned, iso_stats, E)
    BY <1>3 DEF IsoInv
  <2>2. /\ \A m \in DOMAIN returned : E[At(m)] = returned[m].event
        /\ DOMAIN iso_stats = EndpointsIn(returned) /\ IsFiniteSet(DOMAIN iso_stats)
        /\ \A key \in DOMAIN iso_stats : Summed(E, CountedFor(returned, key), iso_stats[key])
    BY <2>1 DEF IsoOK, At
  <2>3. /\ \A i \in counted : \E m \in DOMAIN returned : Observed(returned[m]) /\ i = At(m)
        /\ \A m \in DOMAIN returned : Observed(returned[m]) => At(m) \in counted
        /\ \A m \in DOMAIN returned : EventAt(At(m)) = returned[m].event
        /\ \A m \in DOMAIN returned, n \in DOMAIN returned :
              At(m) = At(n) => returned[m].event = returned[n].event
        /\ \A m \in DOMAIN returned, n \in DOMAIN returned :
              EndpointOf(returned[m].event) = EndpointOf(returned[n].event)
                 <=> /\ Origin(At(m)) = Origin(At(n))
                     /\ EventAt(At(m)).in = EventAt(At(n)).in
    <3>1. PICK c : c = counted
      OBVIOUS
    <3> HIDE DEF counted
    <3> QED
      BY <1>3, <2>2, <3>1, CountedInputs DEF counted
  <2> HIDE DEF counted
  <2>4. ASSUME NEW m \in DOMAIN returned, Observed(returned[m])
        PROVE  endpoint(At(m)) = CountedFor(returned, EndpointOf(returned[m].event))
    <3>1. ASSUME NEW j \in endpoint(At(m))
          PROVE  j \in CountedFor(returned, EndpointOf(returned[m].event))
      <4>1. j \in counted /\ Origin(At(m)) = Origin(j) /\ EventAt(At(m)).in = EventAt(j).in
        OBVIOUS
      <4>2. PICK n \in DOMAIN returned : Observed(returned[n]) /\ j = At(n)
        BY <2>3, <4>1
      <4>3. EndpointOf(returned[n].event) = EndpointOf(returned[m].event)
        BY <2>3, <4>1, <4>2
      <4> QED
        BY <4>2, <4>3 DEF CountedFor, At
    <3>2. ASSUME NEW j \in CountedFor(returned, EndpointOf(returned[m].event))
          PROVE  j \in endpoint(At(m))
      <4>1. PICK n \in DOMAIN returned :
               /\ Observed(returned[n]) /\ j = At(n)
               /\ EndpointOf(returned[n].event) = EndpointOf(returned[m].event)
        BY DEF CountedFor, At
      <4>2. j \in counted /\ Origin(At(m)) = Origin(j) /\ EventAt(At(m)).in = EventAt(j).in
        BY <2>3, <4>1
      <4> QED
        BY <4>2
    <3> HIDE DEF endpoint
    <3> QED
      BY <3>1, <3>2
  <2>5. ASSUME NEW key \in DOMAIN iso_stats
        PROVE  \E m \in DOMAIN returned :
                  Observed(returned[m]) /\ EndpointOf(returned[m].event) = key
    BY <2>2 DEF EndpointsIn
  <2>6. \A m \in DOMAIN returned :
           Observed(returned[m]) => EndpointOf(returned[m].event) \in DOMAIN iso_stats
    BY <2>2 DEF EndpointsIn
  <2> HIDE DEF endpoint
  <2>7. ASSUME NEW key \in DOMAIN iso_stats PROVE CountedFor(returned, key) \in endpoints
    <3>1. PICK m \in DOMAIN returned : Observed(returned[m]) /\ EndpointOf(returned[m].event) = key
      BY <2>5
    <3>2. At(m) \in counted /\ endpoint(At(m)) = CountedFor(returned, key)
      BY <2>3, <2>4, <3>1
    <3> QED
      BY <3>2
  <2>8. ASSUME NEW is \in endpoints PROVE \E key \in DOMAIN iso_stats : is = CountedFor(returned, key)
    <3>1. PICK i \in counted : is = endpoint(i)
      OBVIOUS
    <3>2. PICK m \in DOMAIN returned : Observed(returned[m]) /\ i = At(m)
      BY <2>3
    <3>3. is = CountedFor(returned, EndpointOf(returned[m].event))
      BY <2>4, <3>1, <3>2
    <3> QED
      BY <2>6, <3>2, <3>3
  <2> HIDE DEF endpoints
  <2>9. Cardinality(endpoints) = Cardinality(DOMAIN iso_stats)
    <3> DEFINE inputs == [key \in DOMAIN iso_stats |-> CountedFor(returned, key)]
    <3>1. inputs \in [DOMAIN iso_stats -> endpoints]
      BY <2>7
    <3>2. \A is \in endpoints : \E key \in DOMAIN iso_stats : inputs[key] = is
      BY <2>8
    <3>3. ASSUME NEW j \in DOMAIN iso_stats, NEW k \in DOMAIN iso_stats, inputs[j] = inputs[k]
          PROVE  j = k
      <4>1. CountedFor(returned, j) = CountedFor(returned, k)
        BY <3>3
      <4>2. PICK m \in DOMAIN returned : Observed(returned[m]) /\ EndpointOf(returned[m].event) = j
        BY <2>5
      <4>3. At(m) \in CountedFor(returned, k)
        BY <4>1, <4>2 DEF CountedFor, At
      <4>4. PICK n \in DOMAIN returned : At(m) = At(n) /\ EndpointOf(returned[n].event) = k
        BY <4>3 DEF CountedFor, At
      <4>5. returned[m].event = returned[n].event
        BY <2>3, <4>4
      <4> QED
        BY <4>2, <4>4, <4>5
    <3> HIDE DEF inputs
    <3>4. inputs \in Injection(DOMAIN iso_stats, endpoints)
          /\ inputs \in Surjection(DOMAIN iso_stats, endpoints)
      BY <3>1, <3>2, <3>3 DEF Injection, IsInjective, Surjection
    <3>5. ExistsBijection(DOMAIN iso_stats, endpoints)
      BY <3>4 DEF ExistsBijection, Bijection
    <3> QED
      BY <2>2, <3>5, FS_Bijection
  <2>10. ASSUME NEW key \in DOMAIN iso_stats
         PROVE  sums(CountedFor(returned, key)) = said(iso_stats[key])
    <3>1. PICK is : is = CountedFor(returned, key)
      OBVIOUS
    <3>2. PICK ep : ep = iso_stats[key]
      OBVIOUS
    <3>3. Summed(E, is, ep)
      BY <2>2, <3>1, <3>2
    <3>4. ASSUME NEW i \in is PROVE EventAt(i) = E[i] /\ E[i] \in EventTypes(Nat)
      <4>1. PICK m \in DOMAIN returned : i = At(m)
        BY <3>1 DEF CountedFor, At
      <4>2. returned[m] \in OutcomeTypes
        BY DEF TypeInv
      <4>3. returned[m].event \in EventTypes(Nat)
        BY <4>2 DEF OutcomeTypes
      <4> QED
        BY <2>2, <2>3, <4>1, <4>3
    <3>5. /\ Cardinality(is) = ep.urbs
          /\ Cardinality(lengths(is)) = ep.frames
          /\ bytes(is) = ep.bytes
          /\ Cardinality(empty(is)) = ep.empty_frames
          /\ Max({0} \cup gaps(is)) = ep.max_gap
      BY <3>3, <3>4, SummedIs
    <3> HIDE DEF lengths, bytes, empty, gaps
    <3>6. sums(is) = said(ep)
      BY <3>5
    <3> QED
      BY <3>1, <3>2, <3>6
  <2> HIDE DEF sums, said
  <2>11. {sums(is) : is \in endpoints} = {said(ep) : ep \in Range(iso_stats)}
    <3>1. ASSUME NEW is \in endpoints PROVE \E ep \in Range(iso_stats) : sums(is) = said(ep)
      <4>1. PICK key \in DOMAIN iso_stats : is = CountedFor(returned, key)
        BY <2>8
      <4> QED
        BY <2>10, <4>1 DEF Range
    <3>2. ASSUME NEW ep \in Range(iso_stats) PROVE \E is \in endpoints : sums(is) = said(ep)
      <4>1. PICK key \in DOMAIN iso_stats : ep = iso_stats[key]
        BY DEF Range
      <4> QED
        BY <2>7, <2>10, <4>1
    <3> QED
      BY <3>1, <3>2
  <2> QED
    BY <2>9, <2>11
<1> QED
  BY <1>2, <1>3

\* The ISO statistics sum up the selected completions of each endpoint of each source,
\* and no others: URBs, frames, bytes, empty frames and the largest gap, for any number of
\* sources, sections and completions, and clocks that go back.
THEOREM IsoStatsCorrect == Spec => []IsoStatsScoped
<1>1. Init => IsoInv
  BY IsoInit
<1>2. TypeInv /\ HistoryInv /\ IsoInv /\ [Next]_vars => IsoInv'
  BY IsoStep
<1>3. TypeInv /\ HistoryInv /\ SourceInv /\ IsoInv => IsoStatsScoped
  BY IsoIsScoped
<1> QED
  BY <1>1, <1>2, <1>3, HistoryCorrect, SourcesCorrect, PTL DEF Spec

=============================================================================
