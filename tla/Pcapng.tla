------------------------------- MODULE Pcapng -------------------------------
(***************************************************************************)
(* The pcapng format as usbscope reads it                                  *)
(* (crates/usbscope-capture/src/pcapng_read.rs) and writes it (pcapng.rs):  *)
(* a file is a sequence of blocks, the reader takes one block after the     *)
(* other and may return an event for it, the writer appends the blocks of   *)
(* one event.                                                               *)
(*                                                                         *)
(* A packet's content stands for the bytes of its payload and for the       *)
(* header fields that both sides copy as they are.  Endianness, options and *)
(* padding are reduced to what they decide: a block that breaks a length,   *)
(* magic or footer rule is a "malformed" block.                             *)
(***************************************************************************)
EXTENDS Integers, Sequences, FiniteSets, SequencesExt

CONSTANTS
    NsPerUs,        \* nanoseconds per microsecond, scaled down from 1000
    UsPerSecond,    \* microseconds per second, scaled down from 1000000
    MaxUnmatched    \* 65536: submissions a table holds without their outcome

ASSUME PcapngAssumption ==
    /\ NsPerUs \in Nat \ {0} /\ UsPerSecond \in Nat \ {0}
    /\ MaxUnmatched \in Nat \ {0}

NsPerSecond == NsPerUs * UsPerSecond
USB_LINUX_MMAPPED == 220

FrameTypes == [offset : Nat, length : Nat]

\* Enhanced Packet Blocks, and all the blocks of a file.
PacketTypes ==
    [kind : {"packet"}, interface : Nat, ticks : Nat, cut : BOOLEAN,
     urb_id : Nat, event_type : {"S", "C", "E"}, in : BOOLEAN, iso : BOOLEAN,
     wire_len : Nat, has_data : BOOLEAN, payload_len : Nat,
     frames : Seq(FrameTypes), content : Nat]
BlockTypes ==
    [kind : {"section", "legacy", "malformed", "other"}]
    \cup [kind : {"interface"}, linktype : Nat, units : Nat \ {0}, offset : Int]
    \cup PacketTypes

\* CompleteEvent, from one of some sources.
EventTypes(sources) ==
    [source_id : sources, urb_id : Nat, event_type : {"S", "C", "E"}, in : BOOLEAN,
     iso : BOOLEAN, timestamp : Nat, requested_len : Nat, actual_len : Nat,
     has_data : BOOLEAN, payload_len : Nat, frames : Seq(FrameTypes), content : Nat,
     identity_known : BOOLEAN, requested_known : BOOLEAN]

\* HashMap::insert and HashMap::remove.
Inserted(map, key, value) ==
    [k \in {key} \cup DOMAIN map |-> IF k = key THEN value ELSE map[k]]
Removed(map, key) == [k \in DOMAIN map \ {key} |-> map[k]]

-----------------------------------------------------------------------------
(* Reader *)

ReaderNew ==
    [section |-> FALSE, interfaces |-> <<>>, next_source_id |-> 0,
     requested |-> <<>>, incomplete |-> 0, failed |-> FALSE, event |-> <<>>]

\* A new section forgets the interfaces and the open requests of the last one,
\* but goes on numbering sources.
ReadSection(r) ==
    [r EXCEPT !.section = TRUE, !.interfaces = <<>>, !.requested = <<>>]

\* Mutant of ReadInterface: a source is numbered by its interface index.
MutantReadInterface(r, b) ==
    [r EXCEPT !.interfaces = Append(@, [source_id |-> Len(@), linktype |-> b.linktype,
                                        units |-> b.units, offset |-> b.offset])]

ReadInterface(r, b) ==
    [r EXCEPT !.interfaces = Append(@, [source_id |-> r.next_source_id,
                                        linktype |-> b.linktype,
                                        units |-> b.units, offset |-> b.offset]),
              !.next_source_id = @ + 1]

\* Ticks of the interface's clock in nanoseconds.
PacketTime(i, p) == (p.ticks * NsPerSecond) \div i.units + i.offset * NsPerSecond

\* OUT data travels with the submission, IN data with the completion.
DataPhase(p) ==
    \/ p.event_type = "S" /\ ~p.in
    \/ p.event_type = "C" /\ p.in

\* Mutant of Omitted: only a missing buffer is noticed, not a shortened one.
MutantOmitted(p) == DataPhase(p) /\ ~p.has_data /\ p.wire_len # 0

\* The collector could not read the buffer of a phase that carries data.
Omitted(p) ==
    \/ /\ DataPhase(p) /\ ~p.has_data
       /\ IF p.iso THEN \E f \in Range(p.frames) : f.length # 0 ELSE p.wire_len # 0
    \/ ~p.iso /\ p.has_data /\ p.payload_len # p.wire_len

\* The checks on the pseudoheader by itself.
ValidPacket(p) ==
    /\ p.iso \/ p.frames = <<>>
    /\ p.has_data \/ p.payload_len = 0

\* Every frame lies in the buffer, where its size is known, and in the payload.
FramesFit(p, requested) ==
    \A f \in Range(p.frames) :
       /\ requested # <<>> => f.offset + f.length <= requested[1]
       /\ p.has_data /\ f.length # 0 => f.offset + f.length <= p.payload_len

\* Mutant of RequestKey: URB ids of different sources are mixed up.
MutantRequestKey(source, id) == <<0, id>>

\* The tables of requests are kept per source.
RequestKey(source, id) == <<source, id>>

\* Enhanced Packet Block: skipped and counted when it was cut by a snap length;
\* else the request table is updated, the frames are checked, and the event is
\* returned unless its buffer was omitted.
ReadPacket(r, p) ==
    LET i == r.interfaces[p.interface + 1]
        key == RequestKey(i.source_id, p.urb_id)
        submission == p.event_type = "S"
        requested == IF submission THEN <<p.wire_len>>
                     ELSE IF key \in DOMAIN r.requested THEN <<r.requested[key]>>
                     ELSE <<>>
        table == IF submission THEN Inserted(r.requested, key, p.wire_len)
                 ELSE Removed(r.requested, key)
    IN  IF \/ p.interface >= Len(r.interfaces)
           \/ i.linktype # USB_LINUX_MMAPPED
           \/ PacketTime(i, p) < 0
        THEN [r EXCEPT !.failed = TRUE]
        ELSE IF p.cut THEN [r EXCEPT !.incomplete = @ + 1]
        ELSE IF \/ ~ValidPacket(p)
                \/ submission /\ Cardinality(DOMAIN r.requested) >= MaxUnmatched
                \/ ~FramesFit(p, requested)
        THEN [r EXCEPT !.failed = TRUE]
        ELSE IF Omitted(p) THEN [r EXCEPT !.requested = table, !.incomplete = @ + 1]
        ELSE [r EXCEPT
                !.requested = table,
                !.event = <<[source_id |-> i.source_id, urb_id |-> p.urb_id,
                             event_type |-> p.event_type, in |-> p.in, iso |-> p.iso,
                             timestamp |-> PacketTime(i, p),
                             requested_len |-> IF requested = <<>> THEN 0
                                               ELSE requested[1],
                             actual_len |-> IF submission THEN 0 ELSE p.wire_len,
                             has_data |-> p.has_data, payload_len |-> p.payload_len,
                             frames |-> p.frames, content |-> p.content,
                             identity_known |-> FALSE,
                             requested_known |-> requested # <<>>]>>]

\* next_event() on one block; an event is returned in the field of that name.
ReadBlock(reader, b) ==
    LET r == [reader EXCEPT !.event = <<>>] IN
    CASE r.failed -> r
      [] ~r.failed /\ b.kind = "section" -> ReadSection(r)
      [] ~r.failed /\ b.kind # "section" /\ ~r.section -> [r EXCEPT !.failed = TRUE]
      [] ~r.failed /\ b.kind \in {"legacy", "malformed"} -> [r EXCEPT !.failed = TRUE]
      [] ~r.failed /\ r.section /\ b.kind = "interface" -> ReadInterface(r, b)
      [] ~r.failed /\ r.section /\ b.kind = "packet" -> ReadPacket(r, b)
      [] ~r.failed /\ r.section /\ b.kind = "other" -> r

-----------------------------------------------------------------------------
(* Writer *)

Section == [kind |-> "section"]
Interface(linktype, units, offset) ==
    [kind |-> "interface", linktype |-> linktype, units |-> units, offset |-> offset]
OutputInterface == Interface(USB_LINUX_MMAPPED, UsPerSecond, 0)

\* Writer::new: the header blocks; blocks is what the file holds.
WriterNew ==
    [blocks |-> <<Section, OutputInterface>>, bytes |-> 48, interfaces |-> <<>>]

\* The length of a packet block: descriptors, payload, padding.
PacketSize(e) ==
    LET caplen == 64 + 16 * Len(e.frames) + e.payload_len
    IN  caplen + ((4 - (caplen % 4)) % 4) + 32

\* Mutant of WireLen: a completion is written with the length that was requested.
MutantWireLen(e) == e.requested_len

\* The one length that the format has room for.
WireLen(e) == IF e.event_type = "S" THEN e.requested_len ELSE e.actual_len

\* The packet block of an event.  Identity and, for an outcome, the requested
\* length are not part of the format; time is rounded down to microseconds.
Packet(e, index) ==
    [kind |-> "packet", interface |-> index, ticks |-> e.timestamp \div NsPerUs,
     cut |-> FALSE, urb_id |-> e.urb_id, event_type |-> e.event_type,
     in |-> e.in, iso |-> e.iso, has_data |-> e.has_data, wire_len |-> WireLen(e),
     payload_len |-> e.payload_len, frames |-> e.frames, content |-> e.content]

\* Mutant of InterfaceSize: a further interface block is not counted.
MutantInterfaceSize == 0

\* The length of an interface block without options.
InterfaceSize == 20

\* write_event(): each source gets an interface of its own, the first one the
\* interface of the header.
WriteEvent(w, e) ==
    LET known == e.source_id \in DOMAIN w.interfaces
        index == IF known THEN w.interfaces[e.source_id]
                 ELSE Cardinality(DOMAIN w.interfaces)
        added == IF known \/ index = 0 THEN <<>> ELSE <<OutputInterface>>
    IN  [blocks |-> w.blocks \o added \o <<Packet(e, index)>>,
         bytes |-> w.bytes + InterfaceSize * Len(added) + PacketSize(e),
         interfaces |-> Inserted(w.interfaces, e.source_id, index)]

=============================================================================
