------------------------------ MODULE Convert ------------------------------
(***************************************************************************)
(* What run() (src/main.rs) does with every complete event, whether it      *)
(* comes from a pcapng file, from a raw archive or from the kernel:         *)
(* consume_event() looks up its latency, applies the filter, feeds the ISO  *)
(* statistics (audio.rs) and hands it to CaptureOutput (output.rs), which   *)
(* starts a new pcapng file when the current one is large or old enough.    *)
(*                                                                         *)
(* The filter may select any event (Filter has its evaluation).  For raw    *)
(* archives and live capture the environment supplies complete events as    *)
(* Reassembler returns them.  An optional value is a sequence of length one *)
(* or zero.                                                                 *)
(***************************************************************************)
EXTENDS Pcapng

CONSTANT
    Scenarios       \* command lines, each with the input that may come: how it
                    \* begins (header), what may follow (inputs), its length

\* What the reassembler checks of an event before it returns it: descriptors inside
\* the buffer, and a payload in the phase that has one, of the length it must have (of
\* an ISO transfer, one that reaches the end of every frame).
Reassembled(e) ==
    /\ e.iso \/ e.frames = <<>>
    /\ \A f \in Range(e.frames) : f.offset + f.length <= e.requested_len
    /\ e.has_data <=> e.payload_len # 0
    /\ IF ~DataPhase(e) THEN e.payload_len = 0
       ELSE IF e.iso THEN \A f \in Range(e.frames) :
                             f.length # 0 => f.offset + f.length <= e.payload_len
       ELSE e.payload_len = IF e.event_type = "S" THEN e.requested_len ELSE e.actual_len

\* Blocks of a file, or events that the reassembler completes.
InputTypes(mode) ==
    IF mode = "pcapng" THEN BlockTypes ELSE {e \in EventTypes({0}) : Reassembled(e)}

ASSUME ConvertAssumption ==
    \A o \in Scenarios :
       /\ o.length \in Nat /\ o.mode \in {"pcapng", "raw", "live"}
       /\ o.needs_latency \in BOOLEAN /\ o.iso_stats \in BOOLEAN /\ o.write \in BOOLEAN
       /\ \A limit \in {o.count, o.size, o.seconds, o.max_files} :
             limit \in Seq(Nat) /\ Len(limit) <= 1
       /\ \A limit \in {o.size, o.seconds, o.max_files} : limit # <<0>>
       /\ o.header \in Seq(InputTypes(o.mode))
       /\ \A i \in DOMAIN o.header :
             "content" \in DOMAIN o.header[i] => o.header[i].content = i
       /\ \A x \in o.inputs : x \in InputTypes(o.mode)

VARIABLES
    options,        \* the command line
    input,          \* history: the blocks or events read so far
    reader,         \* pcapng_read::Reader
    returned,       \* history: each event, its latency, and what became of it
    submissions,    \* when the open submissions were made
    iso_stats,      \* IsoStats
    files,          \* the writers of all files so far; the last is the open one
    events,         \* CaptureOutput.events: how many are in the open file
    started,        \* CaptureOutput.started: the time of the first of them
    written,        \* how many events were written or printed
    output_full,    \* the last file that -W allows is full
    stopped,        \* consume_event() has asked for the end
    status          \* "running", "done", or what failed

table == <<submissions, iso_stats>>
output == <<files, events, started, written, output_full, stopped>>
vars == <<options, input, reader, returned, table, output, status>>

-----------------------------------------------------------------------------
(* Latency and ISO statistics *)

\* Mutant of Elapsed: the difference wraps to below zero.
MutantElapsed(now, start) == <<now - start>>

\* checked_sub: none if the clock was set back.
Elapsed(now, start) == IF now >= start THEN <<now - start>> ELSE <<>>

Key(e) == RequestKey(e.source_id, e.urb_id)

\* The latency table would exceed its limit.
TableFull(e) ==
    /\ options.needs_latency /\ e.event_type = "S"
    /\ Cardinality(DOMAIN submissions) >= MaxUnmatched

\* An outcome takes its submission out of the table.
Latency(e) ==
    IF options.needs_latency /\ e.event_type # "S" /\ Key(e) \in DOMAIN submissions
    THEN Elapsed(e.timestamp, submissions[Key(e)])
    ELSE <<>>

Submissions(e) ==
    IF ~options.needs_latency THEN submissions
    ELSE IF e.event_type = "S" THEN Inserted(submissions, Key(e), e.timestamp)
    ELSE Removed(submissions, Key(e))

\* Mutant of Gap: the time since the first completion.
MutantGap(ep, now) == IF ep.urbs = 1 THEN now - ep.previous[1] ELSE 0

\* The time since the endpoint's previous completion, if there was one.
Gap(ep, now) == IF ep.previous = <<>> THEN 0 ELSE now - ep.previous[1]

NewEndpoint ==
    [urbs |-> 0, frames |-> 0, bytes |-> 0, empty_frames |-> 0,
     previous |-> <<>>, max_gap |-> 0]

\* IsoStats::observe; of bus, device and endpoint the direction stands for all.
Observe(e) ==
    LET key == <<e.source_id, e.in>>
        ep == IF key \in DOMAIN iso_stats THEN iso_stats[key] ELSE NewEndpoint
    IN  IF ~e.iso \/ e.event_type # "C" THEN iso_stats
        ELSE Inserted(iso_stats, key,
                [urbs |-> ep.urbs + 1,
                 frames |-> ep.frames + Len(e.frames),
                 bytes |-> FoldLeft(LAMBDA n, f : n + f.length, ep.bytes, e.frames),
                 empty_frames |-> ep.empty_frames
                     + Cardinality({n \in DOMAIN e.frames : e.frames[n].length = 0}),
                 previous |-> <<e.timestamp>>,
                 max_gap |-> Max({ep.max_gap, Gap(ep, e.timestamp)})])

-----------------------------------------------------------------------------
(* CaptureOutput *)

Reached(limit, n) == limit # <<>> /\ n >= limit[1]

Rotating == options.size # <<>> \/ options.seconds # <<>>

\* The open file is large or old enough.  saturating_sub: a clock that was set
\* back is no reason to rotate.
Due(e) ==
    /\ events # 0
    /\ \/ Reached(options.size, Last(files).bytes)
       \/ started # <<>> /\ Reached(options.seconds,
                                    Max({0, e.timestamp - started[1]}) \div NsPerSecond)

\* Rotation would exceed -W; the event is not written.
Full(e) == Due(e) /\ Reached(options.max_files, Len(files))

\* Rotated files are only ever created: one that exists is an error.
Exists(index) == Rotating /\ index \in options.taken

\* The event goes into the open file, or into a new one.
Write(e) ==
    /\ IF Due(e)
       THEN /\ files' = Append(files, WriteEvent(WriterNew, e))
            /\ events' = 1
            /\ started' = <<e.timestamp>>
       ELSE /\ files' = [files EXCEPT ![Len(files)] = WriteEvent(@, e)]
            /\ events' = events + 1
            /\ started' = IF started = <<>> THEN <<e.timestamp>> ELSE started

-----------------------------------------------------------------------------
(* consume_event() *)

\* Mutant of Enough: one event more.
MutantEnough(n) == options.count # <<>> /\ n > options.count[1]

\* -c events have been written.
Enough(n) == Reached(options.count, n)

Limited == output_full \/ Enough(written)

Outcome(e, latency, what, file) ==
    returned' = Append(returned, [event |-> e, latency |-> latency,
                                  what |-> what, file |-> file])

\* The event was selected and goes to the output.
Emit(e) ==
    \/ /\ ~options.write
       /\ Outcome(e, Latency(e), "printed", 0)
       /\ written' = written + 1
       /\ stopped' = Enough(written')
       /\ UNCHANGED <<files, events, started, output_full, status>>
    \/ /\ options.write /\ Full(e)
       /\ Outcome(e, Latency(e), "full", 0)
       /\ output_full' = TRUE /\ stopped' = TRUE
       /\ UNCHANGED <<files, events, started, written, status>>
    \/ /\ options.write /\ Due(e) /\ ~Full(e) /\ Exists(Len(files))
       /\ Outcome(e, Latency(e), "failed", 0)
       /\ status' = "output failed"
       /\ UNCHANGED output
    \/ /\ options.write /\ ~Full(e)
       /\ ~(Due(e) /\ Exists(Len(files)))
       /\ Write(e)
       /\ Outcome(e, Latency(e), "written", Len(files'))
       /\ written' = written + 1
       /\ stopped' = Enough(written')
       /\ UNCHANGED <<output_full, status>>

ConsumeEvent(e) ==
    \/ /\ Limited
       /\ Outcome(e, <<>>, "ignored", 0)
       /\ stopped' = TRUE
       /\ UNCHANGED <<table, files, events, started, written, output_full, status>>
    \/ /\ ~Limited /\ TableFull(e)
       /\ Outcome(e, <<>>, "refused", 0)
       /\ status' = "latency table full"
       /\ UNCHANGED <<table, output>>
    \/ /\ ~Limited /\ ~TableFull(e)
       /\ submissions' = Submissions(e)
       /\ \/ /\ Outcome(e, Latency(e), "rejected", 0)
             /\ UNCHANGED <<iso_stats, output, status>>
          \/ /\ iso_stats' = IF options.iso_stats THEN Observe(e) ELSE iso_stats
             /\ Emit(e)

-----------------------------------------------------------------------------
(* run() *)

Init ==
    /\ options \in Scenarios
    /\ input = <<>> /\ reader = ReaderNew /\ returned = <<>>
    /\ submissions = <<>> /\ iso_stats = <<>>
    /\ events = 0 /\ started = <<>> /\ written = 0
    /\ output_full = FALSE /\ stopped = FALSE
    /\ \/ options.write /\ Exists(0) /\ files = <<>> /\ status = "output failed"
       \/ options.write /\ ~Exists(0) /\ files = <<WriterNew>> /\ status = "running"
       \/ ~options.write /\ files = <<>> /\ status = "running"

\* The next of the possible inputs; its content tells it from all others.
Incoming ==
    IF Len(input) < Len(options.header) THEN {options.header[Len(input) + 1]}
    ELSE {IF "content" \in DOMAIN x THEN [x EXCEPT !.content = Len(input) + 1] ELSE x :
             x \in options.inputs}

Reading ==
    /\ status = "running"
    /\ stopped => options.mode = "live"
    /\ Len(input) < options.length

\* The loop over the blocks of a pcapng file.
ReadNext ==
    /\ Reading /\ options.mode = "pcapng"
    /\ \E b \in Incoming :
          /\ input' = Append(input, b)
          /\ reader' = ReadBlock(reader, b)
    /\ UNCHANGED options
    /\ \/ /\ reader'.failed
          /\ status' = "input failed"
          /\ UNCHANGED <<returned, table, output>>
       \/ /\ ~reader'.failed /\ reader'.event = <<>>
          /\ UNCHANGED <<returned, table, output, status>>
       \/ /\ reader'.event # <<>>
          /\ ConsumeEvent(reader'.event[1])

\* The reassembler completes an event; a live capture goes on to drain the ring
\* after consume_event() has asked for the end.
Receive ==
    /\ Reading /\ options.mode # "pcapng"
    /\ \E e \in Incoming : input' = Append(input, e) /\ ConsumeEvent(e)
    /\ UNCHANGED <<options, reader>>

\* The end of the input, or an early stop.
Finish ==
    /\ status = "running"
    /\ status' = "done"
    /\ UNCHANGED <<options, input, reader, returned, table, output>>

Next == ReadNext \/ Receive \/ Finish

Spec == Init /\ [][Next]_vars

-----------------------------------------------------------------------------
(* Properties *)

Statuses == {"running", "done", "input failed", "latency table full", "output failed"}

TypeOK ==
    /\ reader.next_source_id \in Nat /\ reader.incomplete \in Nat
    /\ DOMAIN reader.requested \subseteq Nat \X Nat
    /\ DOMAIN submissions \subseteq Nat \X Nat
    /\ \A i \in DOMAIN returned :
          returned[i].latency = <<>> \/ returned[i].latency[1] \in Nat
    /\ \A key \in DOMAIN iso_stats : iso_stats[key].max_gap \in Nat
    /\ events \in Nat /\ written \in Nat
    /\ output_full \in BOOLEAN /\ stopped \in BOOLEAN
    /\ status \in Statuses

Offline == options.mode = "pcapng"

\* The capture source of an input: section and interface, by counting.
Origin(i) ==
    IF Offline
    THEN <<Cardinality({j \in 1 .. i : input[j].kind = "section"}), input[i].interface>>
    ELSE <<0, 0>>

Packets == {i \in DOMAIN input : ~Offline \/ input[i].kind = "packet"}

\* Two inputs name the same URB of the same source.
SameUrb(i, j) == input[i].urb_id = input[j].urb_id /\ Origin(i) = Origin(j)

\* Among some inputs, the submissions that nothing follows in their URB's name.
Open(inputs) ==
    {i \in inputs : /\ input[i].event_type = "S"
                    /\ \A j \in inputs : SameUrb(i, j) => j <= i}

\* Among some inputs, the submission that is open when i comes: at most one.
Partner(i, inputs) == {j \in Open({k \in inputs : k < i}) : SameUrb(i, j)}

At(n) == returned[n].event.content
EventAt(i) == returned[CHOOSE n \in DOMAIN returned : At(n) = i].event

\* The inputs whose events had one of some outcomes.
Became(whats) == {At(n) : n \in {m \in DOMAIN returned : returned[m].what \in whats}}

\* "Request pairing [is] scoped to the input interface and section"
\* (docs/usage.md:122): the requested length of a completion is that of the last
\* submission with its id in its own section and interface, and unknown if that
\* has had its outcome or was cut off.
RequestsAreScoped ==
    Offline =>
       \A n \in DOMAIN returned :
          LET e == returned[n].event
              partner == Partner(At(n), {j \in Packets : ~input[j].cut})
          IN  e.event_type # "S" =>
                 /\ e.requested_known <=> partner # {}
                 /\ \A j \in partner : e.requested_len = input[j].wire_len

\* The latency is measured against the same URB's submission in the same source,
\* selected or not, through reuse of ids and clocks set back; the table holds
\* the submissions still open and no more, so its limit is met only by them.
LatencyIsScoped ==
    options.needs_latency =>
       LET judged == Became({"printed", "written", "full", "failed", "rejected"}) IN
       /\ \A n \in DOMAIN returned :
             returned[n].event.event_type # "S" /\ At(n) \in judged =>
                LET since == {returned[n].event.timestamp - EventAt(j).timestamp :
                                 j \in Partner(At(n), judged)}
                IN  Range(returned[n].latency) = {t \in since : t >= 0}
       /\ Cardinality(DOMAIN submissions) = Cardinality(Open(judged))

\* A packet is returned with all the data that its phase carries, or counted as
\* incomplete: none is skipped in silence.
EveryPacketAccounted ==
    Offline /\ status # "input failed" =>
       /\ Cardinality(Packets) = Len(returned) + reader.incomplete
       /\ \A n \in DOMAIN returned :
             LET e == returned[n].event
                 length == IF e.event_type = "S" THEN e.requested_len ELSE e.actual_len
             IN  DataPhase(e) =>
                    IF e.iso THEN \A f \in Range(e.frames) :
                                     f.length # 0 => f.offset + f.length <= e.payload_len
                    ELSE e.payload_len = length

-----------------------------------------------------------------------------
(* What the files hold *)

InFile(k) == {At(n) : n \in {m \in DOMAIN returned : returned[m].file = k}}

\* A file, read to its end by the program itself.
ReadBack(blocks) ==
    FoldLeft(LAMBDA sum, b : LET r == ReadBlock(sum.reader, b)
                             IN  [reader |-> r, events |-> sum.events \o r.event],
             [reader |-> ReaderNew, events |-> <<>>], blocks)

\* What makes the reader give up on a file: too many submissions without an
\* outcome, or a frame outside the buffer of an unrelated submission whose own
\* outcome is not in the file.
Unreadable(k) ==
    \E i \in InFile(k) :
       IF EventAt(i).event_type = "S"
       THEN Cardinality(Open({j \in InFile(k) : j < i})) >= MaxUnmatched
       ELSE \E j \in Partner(i, InFile(k)), f \in Range(EventAt(i).frames) :
               f.offset + f.length > EventAt(j).requested_len

\* What survives writing and reading: of the two lengths one, of the time the
\* microseconds, neither identity nor source number.
Kept(e) ==
    <<e.content, e.urb_id, e.event_type, e.in, e.iso, e.timestamp \div NsPerUs,
      IF e.event_type = "S" THEN e.requested_len ELSE e.actual_len,
      e.has_data, e.payload_len, e.frames>>

\* "Rewritten files preserve those sources as separate interfaces" (docs/usage.md:123):
\* reading a file back gives the events written to it, in order, none of them
\* incomplete, with their sources apart and every completion paired with the
\* submission of that source if it is in the same file; only an Unreadable file
\* is given up.
ReadBackExact ==
    \A k \in DOMAIN files :
       LET back == ReadBack(files[k].blocks)
           contents(is) == {back.events[i].content : i \in is}
       IN  /\ back.reader.failed <=> Unreadable(k)
           /\ back.reader.incomplete = 0
           /\ ~back.reader.failed => contents(DOMAIN back.events) = InFile(k)
           /\ \A i \in DOMAIN back.events :
                 LET e == back.events[i]
                     partner == Partner(e.content, InFile(k))
                 IN  /\ e.content \in InFile(k)
                     /\ contents(1 .. i - 1) = {n \in InFile(k) : n < e.content}
                     /\ Kept(e) = Kept(EventAt(e.content))
                     /\ e.timestamp % NsPerUs = 0
                     /\ \A j \in DOMAIN back.events :
                           e.source_id = back.events[j].source_id
                              <=> Origin(e.content) = Origin(back.events[j].content)
                     /\ e.event_type # "S" =>
                           /\ e.requested_known <=> partner # {}
                           /\ \A j \in partner : e.requested_len = EventAt(j).requested_len

\* README.md:25: "Saved captures can also be filtered offline": whatever a filter has
\* selected, the program can read the files it has written.  Violated when a
\* file holds more submissions without outcome than the reader keeps, as after
\* docs/filters.md:11, which selects OUT submissions and no completion.
OutputIsReadable == \A k \in DOMAIN files : ~ReadBack(files[k].blocks).reader.failed

Size(b) == CASE b.kind = "section" -> 28
             [] b.kind = "interface" -> 20
             [] b.kind = "packet" -> PacketSize(b)

\* The bytes in a file up to some block.
Bytes(blocks) == FoldLeft(LAMBDA n, b : n + Size(b), 0, blocks)

\* "Both rotate between whole events" (docs/usage.md:126): no event is split, no file
\* left without one; a file is closed exactly when it has reached its size or
\* time limit, measured on what it really holds; there are never more files
\* than -W allows, and the program stops for that reason only when they are used.
RotationExact ==
    LET first(k) == EventAt(Min(InFile(k)))
        packets(k) == {n \in DOMAIN files[k].blocks : files[k].blocks[n].kind = "packet"}
        limit(k, blocks, now) ==
            \/ Reached(options.size, Bytes(blocks))
            \/ /\ options.seconds # <<>>
               /\ now - first(k).timestamp >= options.seconds[1] * NsPerSecond
    IN  /\ \A k \in DOMAIN files :
              /\ InFile(k) = {} => k = 1 /\ Len(files) = 1
              /\ InFile(k) = {files[k].blocks[n].content : n \in packets(k)}
              /\ Cardinality(InFile(k)) = Cardinality(packets(k))
              /\ k > 1 => limit(k - 1, files[k - 1].blocks, first(k).timestamp)
              /\ \A n \in packets(k) :
                    LET b == files[k].blocks[n]
                        before == SubSeq(files[k].blocks, 1,
                                         IF files[k].blocks[n - 1].kind = "interface"
                                         THEN n - 2 ELSE n - 1)
                    IN  b.content # first(k).content =>
                           ~limit(k, before, EventAt(b.content).timestamp)
        /\ options.max_files # <<>> => Len(files) <= options.max_files[1]
        /\ output_full =>
              /\ Len(files) = options.max_files[1]
              /\ \E n \in DOMAIN returned :
                    /\ returned[n].what = "full"
                    /\ limit(Len(files), Last(files).blocks, returned[n].event.timestamp)

\* Every event that the filter selects is written, in order, up to the -c-th or
\* up to the one that the last file has no room for; the program stops early
\* for these two reasons and for no other.
WrittenIsSelected ==
    LET kept == Became({"written", "printed"})
        judged == Became({"written", "printed", "rejected"})
        ignored == Became({"ignored"})
    IN  /\ written = Cardinality(kept)
        /\ options.count # <<>> => written <= options.count[1]
        /\ stopped <=> output_full \/ ignored # {} \/ (options.count = <<written>> /\ kept # {})
        /\ \A i \in ignored, j \in judged : i > j

\* "ISO statistics are scoped to the input interface and section" (docs/usage.md:122):
\* they sum up the completions of each endpoint of each source that were
\* selected, with the one that found the files full.
IsoStatsScoped ==
    LET counted == {i \in Became({"written", "printed", "full", "failed"}) :
                       /\ options.iso_stats
                       /\ EventAt(i).iso /\ EventAt(i).event_type = "C"}
        endpoint(i) == {j \in counted : /\ Origin(i) = Origin(j)
                                        /\ EventAt(i).in = EventAt(j).in}
        follows(j, i, is) == i < j /\ \A k \in is : k <= i \/ j <= k
        gaps(is) == {EventAt(p[2]).timestamp - EventAt(p[1]).timestamp :
                        p \in {q \in is \X is : follows(q[2], q[1], is)}}
        lengths(is) == UNION {{<<i, n>> : n \in DOMAIN EventAt(i).frames} : i \in is}
        empty(is) == {p \in lengths(is) : EventAt(p[1]).frames[p[2]].length = 0}
        bytes(is) == SumFunction([p \in lengths(is) |-> EventAt(p[1]).frames[p[2]].length])
        endpoints == {endpoint(i) : i \in counted}
    IN  /\ Cardinality(endpoints) = Cardinality(DOMAIN iso_stats)
        /\ {<<Cardinality(is), Cardinality(lengths(is)), bytes(is),
              Cardinality(empty(is)), Max({0} \cup gaps(is))>> : is \in endpoints}
              = {<<ep.urbs, ep.frames, ep.bytes, ep.empty_frames, ep.max_gap>> :
                    ep \in Range(iso_stats)}

=============================================================================
