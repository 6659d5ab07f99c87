----------------------------- MODULE MCRawReplay -----------------------------
(* Archives for RawReplay: honest and lying metadata, fragments of one and two *)
(* bytes anywhere in the buffer, frames that share a region, any End record.   *)
EXTENDS RawReplay

Meta(type, in, iso, data, requested, actual, payload, frames) ==
    [event_type |-> type, in |-> in, iso |-> iso, has_data |-> data,
     requested_len |-> requested, actual_len |-> actual,
     payload_len |-> payload, iso_count |-> frames]

Begins(metas) == {[kind |-> "begin", id |-> id, meta |-> m] : id \in Ids, m \in metas}

Fragments(bodies) ==
    {[kind |-> "data", id |-> id, offset |-> o, body |-> b] :
        id \in Ids, o \in Offsets, b \in bodies}

Ends(copied, frames) ==
    {[kind |-> "end", id |-> id, copied |-> c, descriptors |-> f, reason |-> w] :
        id \in Ids, c \in copied, f \in frames, w \in {COMPLETE, 2}}

Frames(descriptors) ==
    {[kind |-> "iso", id |-> id, offset |-> i, descriptor |-> d] :
        id \in Ids, i \in 0 .. 1, d \in descriptors}

\* One event at a time, not isochronous.
BulkRecords ==
    Begins({Meta("C", TRUE, FALSE, TRUE, 5, 4, 4, 0),    \* honest
            Meta("C", TRUE, FALSE, TRUE, 5, 4, 3, 0),    \* span too short
            Meta("C", TRUE, FALSE, FALSE, 5, 4, 0, 0),   \* data flag cleared
            Meta("S", FALSE, FALSE, TRUE, 3, 0, 3, 0),
            Meta("S", TRUE, FALSE, TRUE, 3, 0, 2, 0),    \* data in no data phase
            Meta("E", FALSE, FALSE, FALSE, 3, 0, 0, 0),
            Meta("C", TRUE, FALSE, TRUE, 3, 4, 4, 0)})   \* beyond the buffer
    \cup Fragments({<<>>, <<7>>, <<7, 8>>})
    \cup Ends(0 .. 5, {0, 1})
    \cup {[kind |-> "malformed"]}

\* One isochronous event at a time.
IsoRecords ==
    Begins({Meta("C", TRUE, TRUE, TRUE, 4, 0, 4, 2),
            Meta("C", TRUE, TRUE, TRUE, 4, 0, 3, 2),
            Meta("S", TRUE, TRUE, FALSE, 4, 0, 0, 1)})
    \cup Frames({[offset |-> 0, length |-> 2], [offset |-> 1, length |-> 2],
                 [offset |-> 2, length |-> 2], [offset |-> 3, length |-> 0],
                 [offset |-> 3, length |-> 2]})
    \cup Fragments({<<7>>, <<8>>, <<7, 7>>, <<7, 8>>})
    \cup Ends({0, 2, 3, 4}, {1, 2})

SingleRecords == BulkRecords \cup IsoRecords

\* Several events interleaved, with orphans and a kernel summary.
MixedRecords ==
    Begins({Meta("C", TRUE, FALSE, TRUE, 2, 2, 2, 0),
            Meta("S", TRUE, FALSE, FALSE, 2, 0, 0, 0)})
    \cup Fragments({<<7>>, <<7, 8>>})
    \cup Frames({[offset |-> 0, length |-> 1]})
    \cup Ends({0, 2}, {0})
    \cup {[kind |-> "stats", losses |-> 1]}

=============================================================================
