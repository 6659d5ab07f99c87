---------------------------- MODULE PayloadSearch ----------------------------
(***************************************************************************)
(* contains() of crates/usbscope-capture/src/filter.rs: does a byte pattern *)
(* occur in an event's payload?  A streaming search (Knuth, Morris, Pratt): *)
(* first the table of the pattern's borders, then the payload, region by    *)
(* region and each region in pieces of the read buffer's size.  Regions are *)
(* the frames of an isochronous event, or the whole payload of another one. *)
(*                                                                         *)
(* One action is one round of an inner loop.  Indices count from 0 as in the*)
(* code; needle[i] there is At(needle, i) here.                             *)
(***************************************************************************)
EXTENDS Integers, Sequences, FiniteSetsExt

CONSTANTS
    Needles,        \* patterns; the parser rejects an empty one
    Payloads,
    Layouts,        \* sequences of [offset, length] within a payload
    BufferSize      \* bytes read at once

Bytes == 0 .. 255

ASSUME SearchAssumption ==
    /\ BufferSize \in Nat \ {0}
    /\ \A n \in Needles : n \in Seq(Bytes) /\ n # <<>>
    /\ Payloads \subseteq Seq(Bytes)
    /\ \A l \in Layouts : l \in Seq([offset : Nat, length : Nat])

VARIABLES
    needle, payload, regions,   \* the arguments
    pc,             \* "build", "region", "read", "scan", "done"
    i,              \* the position whose border is computed
    prefix,         \* prefix[0 .. i - 1] is computed
    matched,        \* bytes of the pattern that match so far
    region,         \* the region searched, counted from 1
    at,             \* the next payload byte
    length,         \* bytes of the region not yet read
    piece,          \* bytes read and not yet looked at
    found           \* the answer

vars == <<needle, payload, regions, pc, i, prefix, matched, region, at, length,
          piece, found>>
arguments == <<needle, payload, regions>>
reading == <<region, at, length, piece, found>>

At(seq, n) == seq[n + 1]

Init ==
    /\ needle \in Needles /\ payload \in Payloads
    /\ regions \in {l \in Layouts :
                       \A r \in 1 .. Len(l) : l[r].offset + l[r].length <= Len(payload)}
    /\ pc = "build" /\ i = 1 /\ matched = 0
    /\ prefix = [n \in 0 .. (Len(needle) - 1) |-> 0]
    /\ region = 1 /\ at = 0 /\ length = 0 /\ piece = 0 /\ found = FALSE

\* Mutant of FallBack: start over instead of trying the next shorter border.
MutantFallBack(m) == 0

\* The next shorter prefix of the pattern that may still match.
FallBack(m) == prefix[m - 1]

\* One round of the table's loop: fall back, or settle the entry.
Build ==
    /\ pc = "build"
    /\ IF i >= Len(needle)
       THEN pc' = "region" /\ UNCHANGED <<i, prefix, matched>>
       ELSE IF matched # 0 /\ At(needle, i) # At(needle, matched)
       THEN matched' = FallBack(matched) /\ UNCHANGED <<pc, i, prefix>>
       ELSE /\ matched' = IF At(needle, i) = At(needle, matched)
                          THEN matched + 1 ELSE matched
            /\ prefix' = [prefix EXCEPT ![i] = matched']
            /\ i' = i + 1
            /\ UNCHANGED pc
    /\ UNCHANGED <<arguments, reading>>

\* Mutant of Restart: a match may begin in one region and end in the next.
MutantRestart == IF region = 1 THEN 0 ELSE matched

\* No match crosses from one region to the next.
Restart == 0

\* Seek to the next region, or answer no.
Region ==
    /\ pc = "region"
    /\ IF region > Len(regions)
       THEN pc' = "done" /\ UNCHANGED <<matched, at, length>>
       ELSE /\ pc' = "read"
            /\ matched' = Restart
            /\ at' = regions[region].offset
            /\ length' = regions[region].length
    /\ UNCHANGED <<arguments, i, prefix, region, piece, found>>

\* Fill the buffer with the next piece of the region, if any is left.
ReadPiece ==
    /\ pc = "read"
    /\ IF length = 0
       THEN pc' = "region" /\ region' = region + 1 /\ UNCHANGED <<length, piece>>
       ELSE /\ pc' = "scan"
            /\ piece' = Min({length, BufferSize})
            /\ length' = length - piece'
            /\ UNCHANGED region
    /\ UNCHANGED <<arguments, i, prefix, matched, at, found>>

\* One byte of the piece: fall back, or go on; a whole match answers yes.
Scan ==
    /\ pc = "scan"
    /\ IF piece = 0
       THEN pc' = "read" /\ UNCHANGED <<matched, at, piece, found>>
       ELSE IF matched # 0 /\ At(payload, at) # At(needle, matched)
       THEN matched' = FallBack(matched) /\ UNCHANGED <<pc, at, piece, found>>
       ELSE /\ matched' = IF At(payload, at) = At(needle, matched)
                          THEN matched + 1 ELSE matched
            /\ at' = at + 1
            /\ piece' = piece - 1
            /\ found' = (matched' = Len(needle))
            /\ pc' = IF found' THEN "done" ELSE pc
    /\ UNCHANGED <<arguments, i, prefix, region, length>>

Next == Build \/ Region \/ ReadPiece \/ Scan

Spec == Init /\ [][Next]_vars

-----------------------------------------------------------------------------
(* Properties *)

\* The first n bytes of the pattern end at position end of a sequence, and begin
\* at or behind position start.
Ends(n, seq, start, end) ==
    /\ end - n >= start
    /\ \A k \in 0 .. (n - 1) : At(seq, end - n + k) = At(needle, k)

\* Every entry of the finished part of the table is the longest proper border of
\* the pattern's prefix of that length, and no index leaves the pattern (in Rust,
\* a panic).
TableIsExact ==
    /\ matched \in 0 .. Len(needle)
    /\ pc \in {"build", "read", "scan"} => matched < Len(needle)
    /\ \A n \in 1 .. (Min({i, Len(needle)}) - 1) :
          prefix[n] = Max({b \in 0 .. n : Ends(b, needle, 0, n + 1)})

\* At each piece's end the search remembers the longest prefix of the pattern that
\* ends there inside the region, however the buffer cuts the region into pieces
\* ("matches crossing transport/spool boundaries", filter.rs:346).
NothingForgotten ==
    pc = "read" =>
       matched = Max({n \in 0 .. (Len(needle) - 1) :
                         Ends(n, payload, regions[region].offset, at)})

\* The answer is yes exactly if the pattern lies within one region: never across
\* two frames, never in the padding between them (docs/filters.md, "searches
\* within each frame and does not stitch separate frames together").
AnswerIsExact ==
    pc = "done" =>
       found = \E r \in 1 .. Len(regions) :
                  \E end \in 0 .. (regions[r].offset + regions[r].length) :
                     Ends(Len(needle), payload, regions[r].offset, end)

=============================================================================
