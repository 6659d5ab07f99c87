----------------------------- MODULE MCTransport -----------------------------
(* URBs for Transport: every route through emit(). *)
EXTENDS Transport

Plain(type, in, requested, actual, buffer) ==
    [event_type |-> type, in |-> in, iso |-> FALSE, requested |-> requested,
     actual |-> actual, buffer |-> buffer, num_sgs |-> 0, sg |-> <<>>, frames |-> <<>>]

\* An array of segments for the memory from start on; its last entry may lead to
\* another array instead.
Segments(start, lengths, chain) ==
    [k \in DOMAIN lengths |->
        [start |-> start + FoldLeft(LAMBDA sum, len : sum + len, 0,
                                    SubSeq(lengths, 1, k - 1)),
         length |-> lengths[k], last |-> chain = 0 /\ k = Len(lengths), chain |-> 0]]
    \o IF chain = 0 THEN <<>>
       ELSE <<[start |-> 50, length |-> 1, last |-> FALSE, chain |-> chain]>>

Scattered(actual, lengths) ==
    [Plain("C", TRUE, 6, actual, TRUE) EXCEPT
        !.num_sgs = Len(lengths), !.sg = Segments(0, lengths, 0)]

\* Three arrays, the second of them part of another list.
Chained(actual, first, second) ==
    [Plain("C", TRUE, 6, actual, TRUE) EXCEPT
        !.num_sgs = Len(first) + Len(second),
        !.sg = Segments(0, first, Len(first) + 3) \o Segments(40, <<2>>, 0)
               \o Segments(FoldLeft(LAMBDA sum, len : sum + len, 0, first), second, 0)]

Frame(offset, length, actual) ==
    [offset |-> offset, length |-> length, actual |-> actual]

Iso(type, in, buffer, frames) ==
    [Plain(type, in, 6, 0, buffer) EXCEPT !.iso = TRUE, !.frames = frames]

PlainShapes ==
    {Plain("S", FALSE, 5, 0, TRUE),      \* OUT data, a short last chunk
     Plain("C", TRUE, 6, 4, TRUE),       \* IN data, whole chunks
     Plain("S", TRUE, 6, 0, TRUE),       \* no data phase
     Plain("E", FALSE, 5, 0, TRUE),
     Plain("C", TRUE, 5, 0, TRUE),       \* nothing transferred
     Plain("C", TRUE, 3, 4, TRUE),       \* more than asked for: unreadable
     Plain("C", TRUE, 3, 3, FALSE),      \* no address of the buffer
     Plain("S", FALSE, 15, 0, TRUE)}     \* more chunks than a loop has rounds

SgShapes ==
    {Scattered(6, <<1, 1, 1, 3>>),       \* a short chunk in every segment
     Scattered(5, <<3, 0, 3>>),          \* an empty one, the last cut short
     Scattered(4, <<2, 2, 2>>),          \* the last one not needed
     Scattered(5, <<2, 2>>),             \* list too short
     [Scattered(3, <<>>) EXCEPT !.num_sgs = 1],          \* no list
     Chained(6, <<2, 1>>, <<2, 1>>),     \* from one array to another
     [Chained(4, <<2>>, <<2, 1>>) EXCEPT !.num_sgs = 2], \* fewer than the list has
     [Scattered(5, <<3, 3>>) EXCEPT !.num_sgs = 1],      \* and fewer than needed
     Scattered(2, <<1, 0, 0, 0, 0, 0, 0, 1>>)} \* too many iterations

IsoShapes ==
    {Iso("C", TRUE, TRUE, <<Frame(0, 3, 3), Frame(3, 3, 2)>>),
     Iso("C", TRUE, TRUE, <<Frame(0, 3, 1), Frame(4, 2, 0), Frame(2, 3, 3)>>),
     Iso("S", FALSE, TRUE, <<Frame(0, 4, 0), Frame(2, 3, 0)>>),  \* shared region
     Iso("S", TRUE, TRUE, <<Frame(0, 3, 0), Frame(3, 3, 0)>>),
     Iso("C", TRUE, TRUE, <<>>),
     Iso("C", TRUE, TRUE, <<Frame(5, 2, 2)>>),                   \* out of bounds
     Iso("S", FALSE, FALSE, <<Frame(0, 3, 0)>>),
     [Iso("S", FALSE, TRUE, <<Frame(0, 15, 0)>>) EXCEPT !.requested = 15]} \* too long a frame

AllShapes == PlainShapes \cup SgShapes \cup IsoShapes

\* For two CPUs in one small ring.
MixedShapes ==
    {Plain("S", FALSE, 3, 0, TRUE), Scattered(3, <<1, 2>>),
     Plain("C", TRUE, 3, 3, FALSE),      \* no address of the buffer
     Plain("C", TRUE, 2, 3, TRUE),       \* more than asked for: unreadable
     Iso("C", TRUE, TRUE, <<Frame(0, 2, 1), Frame(2, 2, 1)>>)}

=============================================================================
