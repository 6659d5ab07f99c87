----------------------------- MODULE Reassembler -----------------------------
(***************************************************************************)
(* The userspace reassembler (crates/usbscope-capture/src/lib.rs): push()   *)
(* takes one transport record of the kernel ring or of a raw archive, keeps *)
(* the events whose End record has not come yet, and hands an event on only *)
(* when every byte and descriptor it needs was received.                    *)
(*                                                                         *)
(* A payload is a function from offsets to bytes; Hole marks what no record *)
(* has written (a hole of the spooled file, which reads as zero).           *)
(***************************************************************************)
EXTENDS Integers, Sequences, FiniteSets, FiniteSetsExt, SequencesExt

CONSTANTS
    Ids,            \* event ids
    MaxLength,      \* longest payload: offsets are 0 .. MaxLength - 1
    MaxPending,     \* MAX_PENDING_EVENTS
    Hole            \* what an offset of the payload holds before it is written

ASSUME ReassemblerAssumption ==
    MaxLength \in Nat /\ MaxPending \in Nat /\ Hole \notin Nat

VARIABLES
    pending,        \* [Ids -> Pending records or None]: unfinished events
    reassembly,     \* ReassemblyStats
    delivered,      \* the events push() has returned
    failed,         \* push() has returned an error, which ends the program
    begun           \* ghost: how many Begin records were accepted

reassembler == <<pending, reassembly, delivered, failed, begun>>

Offsets == 0 .. (MaxLength - 1)

None == [meta |-> "none"]
Pending == {id \in Ids : pending[id] # None}

COMPLETE == 0

ReassemblerInit ==
    /\ pending = [id \in Ids |-> None]
    /\ reassembly = [complete |-> 0, incomplete |-> 0, orphan_records |-> 0,
                     kernel_losses |-> 0]
    /\ delivered = {}
    /\ failed = FALSE
    /\ begun = 0

-----------------------------------------------------------------------------
(* Event metadata *)

Metas == [event_type : {"S", "C", "E"}, in : BOOLEAN, iso : BOOLEAN,
          has_data : BOOLEAN, requested_len : Nat, actual_len : Nat,
          payload_len : Nat, iso_count : Nat]

\* What push() decodes from a record: whatever its bytes say, the fields of its kind
\* are there and have their types, and no payload exceeds MaxLength.
TypedRecord(r) ==
    \/ r.kind = "malformed"
    \/ r.kind = "stats" /\ r.losses \in Nat
    \/ /\ r.kind = "begin" /\ r.id \in Ids
       /\ r.meta \in Metas /\ r.meta.payload_len <= MaxLength
    \/ r.kind = "data" /\ r.id \in Ids /\ r.offset \in Nat /\ r.body \in Seq(Nat)
    \/ /\ r.kind = "iso" /\ r.id \in Ids
       /\ r.offset \in Nat /\ r.descriptor \in [offset : Nat, length : Nat]
    \/ r.kind = "end" /\ r.id \in Ids /\ r.copied \in Nat /\ r.descriptors \in Nat

\* decode_meta(): the checks on the fields the reassembler relies on.
ValidMeta(m) ==
    /\ m.has_data \/ m.payload_len = 0
    /\ m.iso \/ m.iso_count = 0
    /\ m.payload_len <= m.requested_len

\* OUT data travels with the submission, IN data with the completion.
DataPhase(m) ==
    \/ m.event_type = "S" /\ ~m.in
    \/ m.event_type = "C" /\ m.in

\* The end of the last frame that is not empty.
Span(iso) ==
    Max({0} \cup {d.offset + d.length : d \in {d \in Range(iso) : d.length # 0}})

\* The payload length that the URB itself implies.
ExpectedPayload(m, iso) ==
    CASE ~DataPhase(m) -> 0
      [] DataPhase(m) /\ m.iso -> Span(iso)
      [] DataPhase(m) /\ ~m.iso /\ m.event_type = "S" -> m.requested_len
      [] DataPhase(m) /\ ~m.iso /\ m.event_type # "S" -> m.actual_len

\* The sum of a sequence of numbers.
Total(w) == FoldLeft(LAMBDA sum, n : sum + n, 0, w)

-----------------------------------------------------------------------------
(* The byte ranges received so far: a map from the start of each to its end *)

\* The last range that starts at or before an offset, as a set of at most one.
Previous(ranges, offset) ==
    LET starts == {a \in DOMAIN ranges : a <= offset}
    IN  {a \in starts : \A b \in starts : b <= a}

\* The first range that starts at or behind an offset, likewise.
Following(ranges, offset) ==
    LET starts == {a \in DOMAIN ranges : a >= offset}
    IN  {a \in starts : \A b \in starts : a <= b}

\* Mutant of Touched: a range that only touches the fragment's start is missed.
MutantTouched(ranges, offset, end) ==
    LET before == {a \in Previous(ranges, offset) : ranges[a] > offset}
        first == Min({offset} \cup before)
    IN  {a \in DOMAIN ranges : first <= a /\ a <= end}

\* The ranges that a fragment offset .. end - 1 overlaps or touches.
Touched(ranges, offset, end) ==
    LET before == {a \in Previous(ranges, offset) : ranges[a] >= offset}
        first == Min({offset} \cup before)
    IN  {a \in DOMAIN ranges : first <= a /\ a <= end}

\* The touched ranges and the fragment become one range.
Merge(ranges, offset, end) ==
    LET touched == Touched(ranges, offset, end)
        start == Min({offset} \cup touched)
        merged_end == Max({end} \cup {ranges[a] : a \in touched})
    IN  [a \in (DOMAIN ranges \ touched) \cup {start} |->
            IF a = start THEN merged_end ELSE ranges[a]]

\* Mutant of Covers: one byte too generous.
MutantCovers(ranges, start, len) ==
    \/ len = 0
    \/ \E a \in Previous(ranges, start) : start + len <= ranges[a] + 1

\* len bytes from start on lie in one range.
Covers(ranges, start, len) ==
    \/ len = 0
    \/ \E a \in Previous(ranges, start) : start + len <= ranges[a]

-----------------------------------------------------------------------------
(* push() *)

\* An error of push() propagates with ? through every caller: what it leaves of
\* the open event is never read again.
Fail ==
    /\ failed' = TRUE
    /\ UNCHANGED <<pending, reassembly, delivered, begun>>

\* RECORD_STATS: the counters that mean loss are added up.
PushStats(r) ==
    /\ reassembly' = [reassembly EXCEPT !.kernel_losses = @ + r.losses]
    /\ UNCHANGED <<pending, delivered, failed, begun>>

\* Mutant of BeginRejected: a second Begin replaces the open event.
MutantBeginRejected(r) ==
    Cardinality(Pending) >= MaxPending \/ ~ValidMeta(r.meta)

\* A Begin record for an open event, for one event too many, or of bad metadata.
BeginRejected(r) ==
    \/ r.id \in Pending
    \/ Cardinality(Pending) >= MaxPending
    \/ ~ValidMeta(r.meta)

\* RECORD_BEGIN opens an event.
PushBegin(r) ==
    IF BeginRejected(r)
    THEN Fail
    ELSE /\ pending' = [pending EXCEPT ![r.id] =
                           [meta |-> r.meta, iso |-> <<>>,
                            payload |-> [o \in Offsets |-> Hole],
                            ranges |-> [a \in {} |-> 0], copied |-> 0]]
         /\ begun' = begun + 1
         /\ UNCHANGED <<reassembly, delivered, failed>>

\* A record whose event is unknown: its Begin was lost, or its End already came.
PushOrphan ==
    /\ reassembly' = [reassembly EXCEPT !.orphan_records = @ + 1]
    /\ UNCHANGED <<pending, delivered, failed, begun>>

\* Fragments of an event that is not isochronous never overlap.
Overlaps(p, offset, end) ==
    \/ \E a \in Previous(p.ranges, offset) : p.ranges[a] > offset
    \/ \E a \in Following(p.ranges, offset) : a < end

\* Mutant of Conflicts: the last copy wins.
MutantConflicts(p, offset, body) == FALSE

\* Frames that share a region must have brought the same bytes.
Conflicts(p, offset, body) ==
    \E a \in Touched(p.ranges, offset, offset + Len(body)) :
       \E o \in Max({a, offset}) .. (Min({p.ranges[a], offset + Len(body)}) - 1) :
          p.payload[o] # body[o - offset + 1]

\* RECORD_DATA adds a fragment to the payload.
PushData(r) ==
    LET p == pending[r.id]
        end == r.offset + Len(r.body)
    IN  IF \/ r.body = <<>>
           \/ end > p.meta.payload_len
           \/ ~p.meta.iso /\ Overlaps(p, r.offset, end)
           \/ Conflicts(p, r.offset, r.body)
        THEN Fail
        ELSE /\ pending' = [pending EXCEPT ![r.id] = [p EXCEPT
                   !.ranges = Merge(p.ranges, r.offset, end),
                   !.payload =
                       [o \in Offsets |-> IF o \in r.offset .. (end - 1)
                                          THEN r.body[o - r.offset + 1] ELSE p.payload[o]],
                   !.copied = p.copied + Len(r.body)]]
             /\ UNCHANGED <<reassembly, delivered, failed, begun>>

\* RECORD_ISO appends the next frame descriptor.
PushIso(r) ==
    LET p == pending[r.id]
    IN  IF r.offset # Len(p.iso) \/ r.offset >= p.meta.iso_count
        THEN Fail
        ELSE /\ pending' = [pending EXCEPT ![r.id].iso = Append(@, r.descriptor)]
             /\ UNCHANGED <<reassembly, delivered, failed, begun>>

\* Every byte that the metadata and the descriptors call for has arrived.
DataComplete(p) ==
    IF ~p.meta.has_data THEN p.copied = 0
    ELSE IF p.meta.iso
    THEN /\ p.copied = Total([i \in DOMAIN p.iso |-> p.iso[i].length])
         /\ \A d \in Range(p.iso) : Covers(p.ranges, d.offset, d.length)
    ELSE Covers(p.ranges, 0, p.meta.payload_len)

\* What the End record must agree with for the event to be complete.
Whole(p, r) ==
    LET expected == ExpectedPayload(p.meta, p.iso)
    IN  /\ r.reason = COMPLETE
        /\ r.copied = p.copied
        /\ r.descriptors = p.meta.iso_count
        /\ Len(p.iso) = p.meta.iso_count
        /\ p.meta.payload_len = expected
        /\ p.meta.has_data <=> expected # 0
        /\ DataComplete(p)

\* Mutant of CountIncomplete: the count goes the wrong way.
MutantCountIncomplete(n) == [reassembly EXCEPT !.incomplete = @ - n]

\* stats.incomplete += n
CountIncomplete(n) == [reassembly EXCEPT !.incomplete = @ + n]

\* RECORD_END closes the event and returns it when it is complete; a frame outside
\* the URB's buffer is an error, found after the event was taken out.
PushEnd(r) ==
    LET p == pending[r.id]
    IN  IF p.meta.iso /\ \E d \in Range(p.iso) : d.offset + d.length > p.meta.requested_len
        THEN /\ pending' = [pending EXCEPT ![r.id] = None]
             /\ failed' = TRUE
             /\ UNCHANGED <<reassembly, delivered, begun>>
        ELSE /\ pending' = [pending EXCEPT ![r.id] = None]
             /\ IF Whole(p, r)
                THEN /\ reassembly' = [reassembly EXCEPT !.complete = @ + 1]
                     /\ delivered' = delivered \cup
                           {[id |-> r.id, meta |-> p.meta, iso |-> p.iso,
                             payload |-> p.payload]}
                ELSE /\ reassembly' = CountIncomplete(1)
                     /\ UNCHANGED delivered
             /\ UNCHANGED <<failed, begun>>

\* Reassembler::push on one record.
Push(r) ==
    /\ ~failed
    /\ CASE r.kind = "stats" -> PushStats(r)
         [] r.kind = "begin" -> PushBegin(r)
         [] r.kind \in {"data", "iso", "end"} /\ r.id \notin Pending -> PushOrphan
         [] r.kind = "data" /\ r.id \in Pending -> PushData(r)
         [] r.kind = "iso" /\ r.id \in Pending -> PushIso(r)
         [] r.kind = "end" /\ r.id \in Pending -> PushEnd(r)
         [] r.kind = "malformed" -> Fail

\* Reassembler::finish: what is still open will not be completed.
Finish ==
    /\ ~failed
    /\ pending' = [id \in Ids |-> None]
    /\ reassembly' = CountIncomplete(Cardinality(Pending))
    /\ UNCHANGED <<delivered, failed, begun>>

=============================================================================
