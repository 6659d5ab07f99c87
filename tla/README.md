# usbscope: a TLA+ verification project

usbscope captures USB traffic on Linux without usbmon: BPF probes on four kernel
functions follow each USB request block (URB), publish events in pieces to a ring
buffer, and a userspace collector reassembles, filters and writes them. This
directory holds TLA+ models of that system, TLC configurations that check them on
small instances, and proofs that TLAPS checks. Paths such as `src/live.rs` are
relative to the repository.

## The system: inventory

| Component | State | Operations | What makes it correct |
| --- | --- | --- | --- |
| URB lifecycle probes (`crates/usbscope-ebpf/src/main.rs`) | `INFLIGHT` (address to id, status, ready), `SEQUENCE`, per-CPU `STATS`, `CONFIG.enabled` | `observe_submit`, `observe_submit_error`, `observe_giveback`, `observe_complete` | completions are read after the DMA unmap; an outcome is filed under its own submission; ids are unique; counters add up |
| Event emission (`emit`, `copy_sg`, `iso_emit`, `copy_callback`, `copy_chunk`; accessors in `core-shims/usb.c`) | per-invocation contexts, the BPF ring | reserve, read, submit or discard records | what is delivered is byte-exact; what is not is counted; no reservation is left open |
| Reassembler (`crates/usbscope-capture/src/lib.rs`) | open events with received byte ranges, statistics | `push` (5 record kinds), `finish`, `stop_at_limit` | only whole events are returned; each event is accounted for once |
| Raw archive replay (`run` of `src/main.rs`) | written count, stop flag | read, push, consume | holds for any archive, honest or not |
| Live collector (`capture` of `src/live.rs`) | stop deadline, counter snapshot | attach, enable, drain, stop, detach, snapshot, final drain | stops when asked; its report is final; success means nothing is missing |
| Filter (`filter.rs`, `KernelPredicate`, `prefilter`) | expression, predicates in the `FILTER` map | evaluate, prefilter, payload search | the kernel drops nothing that userspace would keep; unknown is not false |
| Filter parser (`Parser` of `filter.rs`) | position and depth in the tokens | `or`, `and`, `unary`, `predicate`, `balanced` | accepts exactly the grammar; the tree means what was written |
| Event consumer (`consume_event` of `src/main.rs`) | latency table, count, stop flag | one event: pair, filter, count, write | latency is that of the same URB of the same source; what is written is what was selected |
| pcapng reader (`pcapng_read.rs`) | interfaces, source numbers, requested lengths | one block | pairing stays inside section and interface; no packet is dropped in silence |
| pcapng writer (`pcapng.rs`), rotating output (`src/output.rs`) | interfaces, bytes, files | write an event, start a file | a file reads back as what was written; files are cut where the limits say |
| ISO statistics (`src/audio.rs`) | sums per endpoint | `observe` | cover exactly the selected completions |
| Tokenizer, command line, path checks, BPF object check, kernel configuration, device list | none that outlives a call | | not modelled: pure input checks or I/O |

Interaction: the kernel calls the probes on any CPU at any time; probes share
three maps and the ring; the collector polls the ring, pushes each record into the
reassembler, and hands each returned event to the filter and the output. At a stop
it clears `CONFIG.enabled`, waits 200 ms, drops the loader (which detaches the
probes one after the other), sums the counters and drains the ring once more.

What is hard here: interleavings of probes on several CPUs and of probes with the
start and stop of the collector; failing reads, insertions and reservations at any
point of an event; lost records of every kind; URB addresses that drivers reuse at
once; archives that were cut or edited. `PROJECT.json` lists these as hazards, each
at its line, with the properties that would catch it.

## Modules

| Module | Models | Instance for TLC |
| --- | --- | --- |
| `UrbTracking` | the four probes around the kernel's own steps; attach, enable, disable, detach | `MCUrbTracking` |
| `Reassembler` | `Reassembler::push`, `finish` | (component) |
| `RawReplay` | `Reassembler` fed by an arbitrary archive | `MCRawReplay` |
| `Transport` | `emit()` on several CPUs, the ring, the collector, and `Reassembler` behind it | `MCTransport` |
| `LiveCapture` | the collector's loop against a busy kernel | itself |
| `EventChannel` | abstract: what the path from probe to user promises | (implemented by `Transport`) |
| `FilterParser` | `Parser` and `balanced()`, from tokens to the tree | (component) |
| `Filter` | `FilterParser`, then evaluation, kernel predicates, prefilter, latency lookup | `MCFilter` |
| `Pcapng` | the reader, block by block, and the writer, event by event | (component) |
| `Convert` | `consume_event` and `CaptureOutput` between a `Pcapng` reader (or the reassembler) and `Pcapng` writers | `MCConvert` |
| `PayloadSearch` | `contains()` step by step | `MCPayloadSearch` |
| `UrbTrackingProofs`, `LiveCaptureProofs`, `PayloadSearchProofs` | theorems about the module of that name | |
| `ReassemblerProofs` | lemmas about one call of `push()`, range maps and sums, for the two below | |
| `RawReplayProofs` | theorems about `RawReplay` | |
| `TransportProofs`, `ChannelProofs` | theorems about `Transport`; that it implements `EventChannel` | |
| `ConvertProofs` | theorems about `Convert`, with lemmas about `Pcapng` | |

`Transport` and `RawReplay` compose the same `Reassembler` (EXTENDS) with the honest
kernel and with arbitrary input; `Convert` composes the reader and the writer of
`Pcapng`. Operators named `Mutant...` are wrong variants of
the definition that follows them; replacing the definition by its mutant makes TLC
report the property that the project file pairs with it.

### UrbTracking

`stage`, `result` and `owner` are the kernel's side of an URB (external): free,
entered (in `usb_hcd_submit_urb`), queued, giveback, synced (after
`unmap_urb_for_dma`), free again. `owner` is a ghost: the id that the current
submission is tracked under. A probe runs to its end before the hooked function
goes on, and everything it shares with probes of other URBs is an atomic add or an
atomic map operation on another key; therefore one probe run is one action
(`SubmitEntry`, `Queue` or `SubmitFails`, `Giveback`, `Unanchor`, `UnanchorElsewhere`), with
one disjunct per outcome. `Emit` is the part of `emit()` up to its first record:
published, URB unreadable, or ring full; `Transport` has the rest. Bus/device
selection and the prefilter appear as the free choice not to track
(`SubmitUntracked`).

Assumptions: reading the return address from the CPU's own stack does not fail; a
call under way when its probes are removed may return unobserved; the loader closes
its links in any order (it keeps its programs in a hash map).

### Reassembler, RawReplay

A payload is a function from offsets to bytes with `Hole` where nothing was written;
`ranges` is the code's map from range starts to range ends. An error of `push` sets
`failed`, which ends the run as `?` does in every caller. Byte-level checks (lengths,
version, unknown kind) are the record kind `malformed`.

### Transport

One action is one round of a `bpf_loop` callback, or a reservation with its write;
a payload chunk is two actions, as its read may fail between reservation and
submission, and other CPUs and the collector run in between. The byte at position p
of an URB's buffer is the number p, so a byte at a wrong place shows. The ring is a
sequence of slots, each busy, ready or discarded; its capacity is counted in units
of a small record. A scatter-gather list is a sequence of slots, as arrays of
`struct scatterlist` lie in memory: a slot is a segment or leads to another array,
and `SgSuccessor` looks one slot ahead as `core_sg_segment` does. The translation of
a page to an address is left out; a slot says where its memory begins. The kernel
builds a list so that its segments follow one another in the URB's buffer
(`Consecutive`, external): without that, no copy of the segments in list order
could be the buffer.

### EventChannel

The transport without its parts: events are offered, and each is delivered as it
was offered, at most once, or lost; a loss is counted in the very step in which
the event is lost, and once more at most. `Transport!ImplementsChannel` maps it
(INSTANCE ... WITH): an event is open while the `emit()` that sends it has met no
loss or its End record, with reason complete, is in the ring; it is lost when
neither holds and it was not delivered. So the refinement says more than
`LossesAreCounted`, which looks at quiet states only: no step of any CPU or of the
collector spoils an event without counting it there and then, and an event whose
complete End record was published is never dropped behind the counters' back.

### LiveCapture

Records are anonymous; the ring is a number. Assumption: closing the links waits
for running programs, so `Detach` needs `~probing`. Incomplete events are always in
the kernel's counters, too (`Transport!LossesAreCounted`), so `--fail-on-loss` is
modelled on the counters alone.

### FilterParser, Filter, PayloadSearch

A token carries what the code makes of its text: the number, the unit behind it, the
bytes of a pattern. `ParseOr`, `ParseAnd` and `ParseUnary` follow the recursive
descent, with positions passed along instead of kept in `self.at`. In `Filter` a text
is parsed first (`ParseText`), and every property is about the tree that came out.
An event that lacks a field has `<<>>` or a false `..._known` flag for it. `ReadBack`
is the same event read from a pcapng file, where identity, and without its
submission the requested length and latency, are unknown. Words have 8 bits (`AllOnes`).
`PayloadContains` in `Filter` is the definition of occurrence; `PayloadSearch` is
the algorithm.

### Pcapng, Convert

A file is a sequence of blocks. `ReadBlock` is `next_event()` on one block, `WriteEvent`
is `write_event()`; both are operators, so that `ReadBack` can run the reader over
what the writer wrote. `content` numbers the packets and stands for the payload and
the header fields that are copied as they are; conversions that lose something are
kept: nanoseconds to microseconds, two lengths to one, sources to interfaces. Blocks
that break a rule about lengths, magic or options are `malformed`.

`options` is the command line together with the input that may come; the filter is
the free choice in `ConsumeEvent` between rejecting and emitting. `input` and
`returned` are histories that the properties compare the code's tables with; the
reference for pairing (`Partner`, `Origin`) counts sections and interfaces in `input`
and knows nothing of source numbers. Writing does not fail, except that a rotated
file may exist already.

## Runs

| Run | Bounds and why they are enough | Shows |
| --- | --- | --- |
| `urb_faults` | 2 URBs, a map of 1 entry, 4 ids, 1 failure of any kind: a full map, a reused URB, a stale entry and every failure at every step occur | ids, pairing, counters and the time of reading are right |
| `urb_clean` | 2 URBs, room for both, 4 ids, 1 unreadable URB | the in-flight figure is exact until the detach |
| `urb_stop` | no failure at all | a disagreement with the docs, below |
| `replay_single` | 1 event at a time, payload of up to 5 bytes, 7 records with 1 or 2 bytes at any offset: all merges of touching, overlapping and separate ranges | no event with a missing byte is returned; bytes never change |
| `replay_mixed` | 3 ids, 8 records, table of 2, no count or a count of 2 | every event is accounted for (`Conservation`, from which `CleanReplayCorrect` is proved) |
| `transport_routes` | 1 CPU, 25 URB shapes, one or more per route, two of them with chained arrays of segments, one with a list that ends too soon, one with none, one with a frame too long for the loop, 2 events, a ring of 4 units, loops of 7 rounds, 1 failing read, 1 open event allowed; the collector may or may not make room in time, and after a lost End record the next Begin record meets the limit | delivered events are exact; the loops' iteration counts suffice; only that Begin record ends a capture |
| `transport_cpus` | 2 CPUs, 2 events of 5 shapes (plain, scattered, isochronous, without address, unreadable), a ring of 4 units, 1 failing read, 2 open events allowed, so that events are delivered whose records lie between those of the other CPU | losses are counted; no record is rejected or without its event; the ring never blocks; `Transport` implements `EventChannel` (an event delivered is the one offered) |
| `live_capture` | ring of 3, batches of 2, count 2; counters saturate at 2 | stop, final report, success |
| `filter` | 2916 nested filters, flat ones of 1, 3 and 5 operands over all kinds of fields, and every sequence of up to 5 tokens out of 9 (most of them no filter); nesting up to 4; 3 URBs, 4 outcomes, bus and device options | parser against grammar, prefilter, three-valued logic, latency lookup |
| `convert` | 12 command lines: files of up to 5 blocks of every kind, up to 5 packets that share one URB id in two interfaces and several sections, isochronous packets, rotation by size, time and both; raw and live events; tables of 2, seconds of 4 ns, so that limits and clocks set back occur | pairing, latency, accounting, files, statistics |
| `convert_reread` | three OUT transfers, a table of 2 | a disagreement with the docs, below |
| `payload_search` | all patterns up to 6 and payloads of 7 over two bytes, 4 layouts, buffer of 2; from length 6 on, falling back differs from starting over | the search is exact |

All runs switch deadlock checking off: a capture, a replay or a search ends.

`StreamIsAccepted` names the only step in which `push()` may fail: it takes a Begin record
that is in order, for an event that is not open, while `MAX_PENDING_EVENTS` others are. So a
rejected chunk, descriptor or End record shows whatever else is open, which it would not if
the property only asked for a full table in the state after the failure. The two runs look
at the two sides of it: with 2 events and room for both, `transport_cpus` must see no failure
at all; with room for one, `transport_routes` reaches the limit through a lost End record.

### Findings

`urb_stop`: `docs/usage.md:101` says that URBs in flight at the stop "are reported
separately from transport loss". `drop(bpf)` (`src/live.rs:246`) removes the probes
one by one; if the giveback probe goes before the completion probe, an URB given
back in between reaches `observe_complete` with no status noted and is counted as
a state error, which `--fail-on-loss` treats as a loss. The window is as long as it
takes to close four links. `HonestPairing` excepts events of that window, and
`InFlightExact` ends where it begins; `InFlightReport` and the other invariants hold
through it.

`convert_reread`: the reader keeps each submission's requested length until the
outcome comes and fails at 65536 of them (`pcapng_read.rs:237`); the writer writes
whatever was selected. After the example of `docs/filters.md:11`, which selects OUT
submissions by their payload and therefore no completion, a long capture cannot be
read again, although `README.md:25` says "Saved captures can also be filtered
offline". `ReadBackExact` names the two cases exactly (`Unreadable`): this one, and an
isochronous completion whose frames lie outside the buffer of an older submission
with its id that was selected without its outcome.

### Fairness

`Transport!Fairness`: a BPF program runs to its end (the kernel's verifier bounds
it) and the collector polls at least every 20 ms. No fairness for new events, none
for failures. `LiveCapture!Fairness`: the collector's thread runs, the 200 ms pass,
and a probe that began ends; nothing is assumed of the traffic, so the kernel may
fill the ring for ever.

## Proofs

All theorems hold for every value of the constants: any URBs, CPUs, map and ring
sizes, chunk size, shapes of URBs, archives, files, patterns and failures. An invariant that
is not inductive as it stands is strengthened; TLC checked each of the stronger forms
on the bounds of the runs above (all but `ChainInv` of `TransportProofs`, which
quantifies over chains of stages, and `TypeInv` of `ConvertProofs`, whose set of tables
is infinite: TLC cannot evaluate these two; `IsoInv` was checked with its witness, the
function from inputs to events, given, and `CauseInv` on `transport_cpus` and on
`transport_routes` with one event, because it enumerates the walks through a list).

| Module | Theorem | States | Inductive invariant |
| --- | --- | --- | --- |
| `UrbTrackingProofs` | `TypeCorrect`, `InFlightCorrect`, `SyncCorrect` | `[]TypeOK`, `[]InFlightReport`, `[]CompletionAfterSync` | themselves |
| | `LifecycleCorrect` | `[]OneLifecycle` | `LifeInv` |
| | `PairingCorrect` | `[]HonestPairing` | `PairInv` |
| | `LedgerCorrect` | `[]NothingVanishes` | `LedgerInv` |
| | `CleanCorrect` | `[]InFlightExact`, without read and map failures | `CleanInv` |
| `LiveCaptureProofs` | `TypeCorrect`, `ReportCorrect`, `SuccessCorrect` | `[]TypeOK`, `[]ReportIsFinal`, `[]SuccessMeansAll` | `StopInv` |
| `PayloadSearchProofs` | `TableCorrect`, `MemoryCorrect`, `AnswerCorrect` | `[]TableIsExact`, `[]NothingForgotten`, `[]AnswerIsExact` | `SearchInv` |
| `RawReplayProofs` | `TypeCorrect`, `RangesCorrect`, `WholeCorrect`, `ConservationCorrect`, `CleanReplayCorrect` | the four invariants of the replay runs, and that a replay to the end without a loss returned every event it saw begin (`CleanReplayIsTotal`) | `ReplayInv` |
| | `BytesCorrect` | the action property `BytesNeverChange` | `ReplayInv` |
| `TransportProofs` | `TypeCorrect`, `DeliveredCorrect` | `[]TypeOK`, `[]DeliveredExact` | `TransportInv` |
| | `StreamCorrect` | the action property `StreamIsAccepted` | `TransportInv` |
| `ChannelProofs` | `CountsCorrect` | `[]LossesAreCounted` | `TransportInv`, `CountInv` |
| | `ChannelCorrect` | the refinement `ImplementsChannel` | `TransportInv`, `CountInv` |
| | `CausesCorrect` | `[]LossesHaveCauses` | `TransportInv`, `CountInv`, `CauseInv` |
| `ConvertProofs` | `TypeCorrect`, `HistoryCorrect` | `[]TypeOK`; the histories match | `TypeInv`, `HistoryInv` |
| | `LimitsCorrect` | `[]WrittenIsSelected` | `LimitInv` |
| | `PacketsCorrect` | `[]EveryPacketAccounted` | `AccountInv` |
| | `SourcesCorrect` | `[]SourceInv` | itself |
| | `RequestsCorrect` | `[]RequestsAreScoped` | `SourceInv`, `RequestInv` |
| | `LatenciesCorrect` | `[]LatencyIsScoped` | `SourceInv`, `LatencyInv` |
| | `FilesCorrect`, `RotationCorrect` | `[]RotationInv`, `[]RotationExact` | `RotationInv` |
| | `ReadBackCorrect` | `[]ReadBackExact` | `RotationInv`, `BackInv` |
| | `IsoStatsCorrect` | `[]IsoStatsScoped` | `SourceInv`, `IsoInv` |

### The arguments

**UrbTracking.** `InFlightReport`: every step changes the number of tracked URBs and the
four counters together (`InFlightLemma`, on top of `TrackedLemma` and `EntryLemma`, which
say how one update of the map changes its cardinality). `LifeInv`: no id in the map or
in an event exceeds `SEQUENCE`, entries of different URBs have different ids, the id
of an entry has no outcome yet, and event ids and URB ids never meet; `StepKinds`
reduces the steps to a few shapes (nothing published, a submission, an outcome that
removes its entry). `CompletionAfterSync`: only a caller inside
`__usb_hcd_giveback_urb` passes `FromGiveback`, and the kernel calls from there after
the unmap. `PairInv`: nothing is tracked before all probes are attached, all of them
stay until the detach, and until then, while no state error is counted, each entry
carries the id of the submission its URB is in and a noted status is that
submission's result; `OneUrbLemma` reduces a step to the one URB it concerns.
`LedgerInv` names the sums of `NothingVanishes` and says that there are finitely many
events to count. `CleanInv` ties the map to the kernel's stage of each URB: an entry
exists exactly while the kernel owes an outcome, and is ready once it is given back.

**LiveCapture.** `StopInv` says what holds behind each point of the shutdown: from the
detach on no probe runs, so the snapshot stays what the kernel has, and the ring is
empty when the last drain is over.

**PayloadSearch.** `SearchInv`: each finished entry of the table is the longest proper
border of its prefix, `matched` is the longest part of the pattern that ends at the
current byte (or, while falling back, a part such that no longer one can go on), and
what lies behind the search holds no match. The heart is `BorderLemma` (of what fits,
a shorter part fits exactly if it is a border of the longer one), `FallBackLemma` and
`AdvanceLemma`; the table and the search are two uses of them. Pieces appear nowhere
but in the position: where the buffer cuts a region makes no difference.

**Reassembler, RawReplay.** `OpenInv` says of every open event that it is `Good`: its ranges
are ordered with a gap between any two, and are exactly the bytes received.
`MergeLemma` is the core: inserting a fragment into the range map adds its bytes, no
other, and keeps the gaps. `WholeLemma` shows that the comparison of the range map
with the frames, range by range, at the End record implies that each required byte
is there and none beyond. `BalanceLemma` keeps the sum of complete, incomplete, open
and discarded events. Lengths of frames are added up by a fold; what is needed of
it (`TotalLemma`: it adds one number at a time) is proved from the fold's definition
by taking the least index at which two functions would differ.

**Transport.** A delivered event is exact because four things hold at once, and
`TransportInv` is their conjunction: each running `emit()` is where its context says
(`ContextOK`: what is copied, what remains, which slot and which frame is next, each
route with its own equation); each record in the ring is `Honest`, its bytes being
those of the URB at its offset; each open event of the reassembler is `Faithful` (no
byte but those of its URB) and `Received` (the bytes so far, without a gap); and for
each event the ring is a chain (`Linked`): there is a stage (new, open, closed, with
numbers of frames and bytes) before and behind every slot, each record of the event
takes it from one to the next, the first is where the reassembler stands and the last
is where `emit()` stands. The chain makes the interleaving of CPUs harmless: a record
of another event leaves the stage as it is. For steps of `emit()` there is one
`...Effect` lemma each, which says what the step does to context and ring, and
`EffectCpu`, `EffectRing` and `EffectChain` carry the invariant over all of them; for
the collector, `PushAbsorbs` says what one record does to an event that is at the
stage it expects. `ConsumeAccepts` draws `StreamIsAccepted` from it: the stage before a Begin
record is new, so its event is not open, and a record that is `Honest` has sound metadata,
which leaves the limit as the only cause of a failure. A reservation that is still busy is the last slot of its event,
and a discarded one dooms it, so that a lost chunk never leaves a chain that ends as
complete.

**EventChannel.** `ImplementsChannel` needs one thing more, `CountInv`: every lost event was
counted at least once, and at most twice, and an event that is lost while its
`emit()` still runs (`Doomed`: it has its End record to send, whose loss would be
counted again) only once so far. `Fate` classifies the steps of `emit()`: it goes on, it
spoils its event and counts that, it gives up and counts that, or its End record is
out; they are a stutter, `Lose`, `Lose` or `CountAgain`, and a stutter of the channel.
`Start` is `Offer`, `OfferInVain` or `Refuse`; `Consume` is `Deliver` when it takes a complete
End record and a stutter otherwise. `LossesAreCounted` follows: when all is settled,
each id is delivered or lost.

**Causes of losses.** `LossesHaveCauses` says which events are complete when nothing
failed and the ring had room: those whose memory is `Addressable`, a property of the
URB alone. `CauseInv` says it at every moment: an event that ended well is addressable, one
that is lost is not (unless a read failed or the ring was full), and an `emit()` that has
met no loss is on its way (`OnWay`). On a list of segments, `SgWay`, the way is three facts.
The segments taken so far are a walk through the list that holds the bytes up to the end
of the current one (`Found`), so that a copy that reaches its end has found the whole
payload; they are the first of *every* walk, and none of these is longer than what is
already covered (`OnEachWalk`), so that a list that ends too soon refutes all walks; and
each round but one per segment has copied a whole chunk (`RoundsUsed`). From the last,
`RoundsSuffice`: while bytes are left to copy, the granted rounds are not used up, whatever the
lengths of the segments, so that the test behind the loop of `copy_sg` never finds bytes
left over. No sum over the list is needed, since the
number of copied bytes is itself the sum. `Caused` says it of one step, with a `...Cause` lemma
for each step of `emit()`; what becomes of the other events is taken from `Fate` and the
lemmas of the channel. The attempt to prove the property corrected the model twice:
`Addressable` has to ask for the first `num_sgs` entries of a list, not for all of them, and
`iso_emit` counts a frame whose loop `bpf_loop` refuses as lost
(`usbscope-ebpf/src/main.rs:632`), which `IsoFrame` now does.

**Convert.** `ReadEffect` says what the reader does with one block (a section, an
interface, another block, a packet that was cut, a whole packet, or failure),
`ConsumeEffect` what `consume_event()` does with one event, and `Steps` that every step is
the end, a block without an event, or an input with its event; everything else is
proved from these three. `HistoryInv`: an event returned is that of the packet that its
content numbers, with its id and phase, and the order is kept. `LimitInv` adds to
`WrittenIsSelected` that an ignored event has met a limit. `SourceInv` is what the
pairing rests on: the interfaces of the current section have different source
numbers, all below `next_source_id`; an event of the current section has the number of
its interface, and one of an earlier section a number below all of the current
ones, so that equal numbers and equal origins (section and interface, counted in
`input`) are the same. Without the second part a new section could take over the
number of an old one. `RequestInv`: the reader's table has one entry for each
submission of the current section that is open in `input`, with its length, and no
other, and each completion already returned has its partner's length; entries of
earlier sections are gone when the section begins. `LatencyInv` says the same of the
table of `consume_event()`, whose submissions stay open across sections and are counted
among the events judged only; that the table is as large as the set of open
submissions follows from the bijection between keys and submissions. `LatestInput`,
`OpenStays` and `PartnersStay` say how open submissions and partners change with one more
input; both tables follow them.

`RotationInv` says of each file (`FileOK`) that `bytes` is the sum of its blocks' sizes,
that its packets are the events that went into it, one each, and that none but the
first came when the blocks before it, and its time, had reached a limit; of the files
together (`Rotated`) that each but the first began with an event that found the one
before at its limit, and that `events` and `started` are the number of events in the
open file and the time of its first. `Due` measures by `bytes`, `events` and `started`,
the property by the blocks and the history: `DueIsLimit` says that they agree, for
positive limits. `WriteEffect` and `FilesEffect` say how the files grow by one event,
`FileNew`, `FileGrows` and `FileStays` what becomes of `FileOK`. The size of a file is a fold;
`FoldedAppend` (a fold over one element more is one step more) is proved once, for any
step that is a function, from the existence of the recursive function that the
library's fold chooses (`IterateExists`, by its greatest initial part).

`BackInv` says of each file what the reader is left with when it has read all of it:
either it has given up, and then one of the file's events is `Doomed` (a submission that
found the table full, or a completion with a frame outside the buffer that the
table had for it), or it is still `Going`: it has returned the events the file holds, and its
table of requested lengths has an entry for each submission that is open in the file, and
no other. The events it has returned are, one by one, those written (`SameEvent`), under
the number of their interface, and the interfaces of the file are one for each source
(`IndexesOK`), so that the numbers tell the sources apart as those of the first reading
did. `ReadWrittenPacket` says what the reader makes of one packet block that the writer wrote:
none of the format's checks refuses it, because every event returned is whole
(`WholeEvent`: the first reader has made the same checks, and so has the reassembler for raw
and live input), and only its own table can. The table of the second reading follows the
same lemmas as that of `consume_event()` (`Opened`), restricted to the events of one file:
a submission in an earlier file is no partner. Property and invariant differ in how they
find an event: by its place in `returned`, or by the number of the input.

`IsoInv` says of each key of `iso_stats` that its record is `Summed` over the inputs that were
counted for this source and endpoint (`CountedFor`): URBs, frames, bytes and empty frames are
theirs, `previous` is the time of the last of them and `max_gap` the greatest time between
two that follow each other, or 0. It is needed because the property speaks of the set of
records only: it does not say which record belongs to which endpoint, nor what `previous`
is. `SumIs` and `SumMore` show that the library's sum over a set has a value that does not
depend on the order in which it takes the elements, and grows by what is added;
`LengthsAreSum` that the fold over the frames in `observe()` is such a sum. The property follows
as keys and the property's classes of inputs correspond one to one: two inputs have the
same source number exactly if they have the same origin, by `SourceInv`.

### Assumptions

`ConstantsAssumption` (`UrbTracking`), `LiveCaptureAssumption`, `SearchAssumption`,
`ReassemblerAssumption` and `ReplayAssumption` (`TypedRecord`: what a record of each kind
has as its fields, nothing about their values), `TransportAssumption` and
`ShapesAssumption` (the types of an URB's fields, `Consecutive`, and that no payload
exceeds `MaxLength`, the bound of the model's payloads), `PcapngAssumption` (the units of
time and the limit of the tables are not zero) and `ConvertAssumption` (the types of the
command line's fields and of the blocks and events that may come; limits of rotation are
positive, which `CaptureOutput::new` checks, `output.rs:41`; a packet of the header is numbered
by its place; raw and live events are `Reassembled`, what `decode_meta()` and the End record
check, `lib.rs:97` and `lib.rs:238`, of which `CompleteIsWhole`, proved in `RawReplayProofs`, is the
part about the payload). TLC evaluates all of them on
every run whose module extends theirs.

### Only model-checked

* `EventuallySettled` and `StopsWhenAsked`: TLAPS does not reason about fairness.
* The properties of `Filter`: `FilterParser` and `Filter` use RECURSIVE operators, which
  follow the recursion of the code and which the prover cannot use; and each of them is
  an induction over the filter's syntax tree, which is out of its reach as well.

## Plan

Done: all modules and runs above; the theorems above.

Open: the properties of `Filter`, for the reasons given above; the run `filter` checks them
for the filters and tokens that the table of the runs names.

## Not modelled

* The translation of a page to an address (`core_sg_segment`, `kernel_config.rs`): its
  rules are about fixed bit positions of 64-bit addresses (36 to 52 bits, 1 GiB, page
  shifts 12, 14, 16); they do not scale to words that TLC can enumerate, and there is
  no state.
* `tokenize()`, `number()` on characters, byte order, option and padding arithmetic of
  pcapng, framing of raw archives: pure text and byte layouts.
* Command line and path checks, object validation, kernel symbols, device listing:
  input checks and I/O before a capture starts.
* Failing writes to files and pipes: they end the program with an error at once.
* Limits of fixed-width words that no behaviour of interest reaches: a requested length
  above `i32::MAX` (`emit()` treats it as a read error; the USB core submits none), a
  timestamp beyond 64 bits and frame ends beyond 32 in `Pcapng`, and the writer's errors
  for blocks or interfaces too many for 32 bits (`pcapng.rs:48`). Numbers are unbounded
  there; offsets, lengths and capacities that decide a case are kept.
* Fields that a property does not tell apart. `Filter!Value` has one numeric field of each
  kind that evaluation distinguishes (always known; `vid`, unknown for a device without
  an identity; `requested`, unknown unless the record has it; `actual`, unknown at a
  submission), and those stand for the others; the `setup.*` fields, which are unknown
  without a setup packet, are left out: they follow the pattern of `vid`. The
  endpoint of `Convert!Observe` is its direction, and its two error sums are left out: they
  are added up as the URBs are.
* Regions of `PayloadSearch` lie inside the payload. An empty frame may lie behind it in
  the code; it is searched in no step.
* `RawReplay` consumes events without an output file; the stop at a full set of files is in
  `Convert`.
* Build scripts, CI and test programs.
