------------------------------ MODULE RawReplay ------------------------------
(***************************************************************************)
(* Offline replay of a raw archive (run() of src/main.rs with -r): records  *)
(* are read one by one and pushed into the reassembler until the archive    *)
(* ends, the requested event count is reached, or an error ends the run.    *)
(* The archive is arbitrary: it may be cut, edited or hold anything.        *)
(***************************************************************************)
EXTENDS Reassembler

CONSTANTS
    Records,        \* the records an archive may contain
    CountLimits,    \* what -c may be, 0 for none
    MaxRecords      \* bound: how many records are read

ASSUME ReplayAssumption ==
    /\ CountLimits \subseteq Nat /\ MaxRecords \in Nat
    /\ \A r \in Records : TypedRecord(r)

VARIABLES
    limit,          \* args.count
    status,         \* "reading", "stopping" (offline_stop), "done"
    written,        \* events that passed the filter and were written
    records,        \* ghost: records read
    discarded       \* ghost: events open when the limit stopped the replay

vars == <<pending, reassembly, delivered, failed, begun,
          limit, status, written, records, discarded>>

Init ==
    /\ ReassemblerInit
    /\ limit \in CountLimits
    /\ status = "reading"
    /\ written = 0 /\ records = 0 /\ discarded = 0

\* consume_event(): an event that passes the filters is written; the answer is
\* whether the requested count is reached.
ConsumeEvent ==
    \/ UNCHANGED <<written, status>>                 \* filtered out
    \/ /\ written' = written + 1
       /\ status' = IF limit # 0 /\ written' >= limit
                    THEN "stopping" ELSE status

\* read_record(), then consume(): push, and on to consume_event() with what it
\* returned.
Consume ==
    /\ status = "reading" /\ ~failed
    /\ records < MaxRecords
    /\ records' = records + 1
    /\ \E r \in Records : Push(r)
    /\ IF reassembly'.complete # reassembly.complete
       THEN ConsumeEvent
       ELSE UNCHANGED <<written, status>>
    /\ UNCHANGED <<limit, discarded>>

\* The end of the archive: Reassembler::finish.
EndOfArchive ==
    /\ status = "reading"
    /\ Finish
    /\ status' = "done"
    /\ UNCHANGED <<limit, written, records, discarded>>

\* Reassembler::stop_at_limit: what is open is dropped, uncounted.
StopAtLimit ==
    /\ status = "stopping"
    /\ discarded' = discarded + Cardinality(Pending)
    /\ pending' = [id \in Ids |-> None]
    /\ status' = "done"
    /\ UNCHANGED <<reassembly, delivered, failed, begun, limit, written, records>>

Next == Consume \/ EndOfArchive \/ StopAtLimit

Spec == Init /\ [][Next]_vars

\* The losses that the summary reports and --fail-on-loss tests.
Losses == reassembly.incomplete + reassembly.orphan_records + reassembly.kernel_losses

-----------------------------------------------------------------------------
(* Properties *)

\* Every variable has its type; an open event has all the fields of Pending.
TypeOK ==
    /\ \A id \in Pending :
          LET p == pending[id] IN
          /\ p.meta \in Metas
          /\ p.payload \in [Offsets -> Nat \cup {Hole}]
          /\ DOMAIN p.ranges \subseteq Nat
          /\ \A a \in DOMAIN p.ranges : p.ranges[a] \in Nat
          /\ p.copied \in Nat
    /\ reassembly \in [{"complete", "incomplete", "orphan_records",
                        "kernel_losses"} -> Nat]
    /\ failed \in BOOLEAN
    /\ status \in {"reading", "stopping", "done"}
    /\ begun \in Nat /\ written \in Nat /\ records \in Nat /\ discarded \in Nat

\* The range map is exactly the set of bytes received: ranges are not empty, are
\* apart from each other by at least one missing byte, and together are the
\* written offsets, whatever the order, overlap and adjacency of the fragments.
RangesExact ==
    \A id \in Pending :
       LET p == pending[id] IN
       /\ \A a \in DOMAIN p.ranges : a < p.ranges[a]
       /\ \A a, b \in DOMAIN p.ranges : a < b => p.ranges[a] < b
       /\ {o \in Offsets : p.payload[o] # Hole}
             = UNION {a .. (p.ranges[a] - 1) : a \in DOMAIN p.ranges}

\* The offsets an event needs: all its frames, or the whole data phase.
Required(e) ==
    IF ~DataPhase(e.meta) THEN {}
    ELSE IF e.meta.iso
    THEN UNION {d.offset .. (d.offset + d.length - 1) : d \in Range(e.iso)}
    ELSE 0 .. ((IF e.meta.event_type = "S" THEN e.meta.requested_len
                ELSE e.meta.actual_len) - 1)

\* "A complete event must include every required descriptor and payload range"
\* (docs/implementation.md:39): no archive makes push() return an event with a
\* missing byte, nor one with a byte beyond the data phase.  (An archive whose
\* frames overlap may carry bytes that lie in no frame, below the last one.)
CompleteIsWhole ==
    \A e \in delivered :
       LET received == {o \in Offsets : e.payload[o] # Hole} IN
       /\ Len(e.iso) = e.meta.iso_count
       /\ Required(e) \subseteq received
       /\ \A o \in received : \E n \in Required(e) : o <= n
       /\ ~e.meta.iso => received = Required(e)

\* Unless an error ends the run, every accepted Begin is exactly one of: returned
\* complete, counted incomplete, still open, or dropped at a requested limit.
Conservation ==
    ~failed => begun = reassembly.complete + reassembly.incomplete
                           + Cardinality(Pending) + discarded

\* A replay to the end that reports no loss returned every event it saw begin.
CleanReplayIsTotal ==
    status = "done" /\ limit = 0 /\ Losses = 0 => begun = reassembly.complete

\* A byte once received is never changed while its event is open: later frames
\* that share the region agree with it or end the run.
BytesNeverChange ==
    [][\A id \in Pending :
          pending'[id] # None =>
             \A o \in Offsets :
                pending[id].payload[o] # Hole =>
                   pending'[id].payload[o] = pending[id].payload[o]]_vars

=============================================================================
