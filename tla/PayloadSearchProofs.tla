------------------------- MODULE PayloadSearchProofs -------------------------
(***************************************************************************)
(* Proofs about contains(): for every pattern, payload, layout of regions   *)
(* and buffer size, the table holds the pattern's borders, no match is      *)
(* forgotten where the buffer cuts a region, and the answer is exact.       *)
(***************************************************************************)
EXTENDS PayloadSearch, TLAPS

-----------------------------------------------------------------------------
(* Borders *)

\* Ends for a pattern that is given, not read from the state.
Fits(p, n, seq, start, end) ==
    /\ end - n >= start
    /\ \A k \in 0 .. (n - 1) : seq[end - n + k + 1] = p[k + 1]

\* The a first bytes of p fit at end; a longer part of it, shorter than limit, that
\* fits there as well does not go on with the byte behind end.
Near(p, a, limit, seq, start, end) ==
    /\ a \in 0 .. (limit - 1)
    /\ Fits(p, a, seq, start, end)
    /\ \A b \in 0 .. (limit - 1) :
          b > a /\ Fits(p, b, seq, start, end) => seq[end + 1] # p[b + 1]

\* a is the longest part of p, shorter than limit, that fits at end.
Longest(p, a, limit, seq, start, end) ==
    /\ a \in 0 .. (limit - 1)
    /\ Fits(p, a, seq, start, end)
    /\ \A b \in 0 .. (limit - 1) : Fits(p, b, seq, start, end) => b <= a

\* The two ways to say that a part of the pattern fits agree.
LEMMA EndsIsFits ==
    ASSUME NEW n, NEW seq, NEW start, NEW end
    PROVE  Ends(n, seq, start, end) <=> Fits(needle, n, seq, start, end)
  BY DEF Ends, Fits, At

\* Of what fits, a shorter part fits exactly if it is a border of the longer one.
LEMMA BorderLemma ==
    ASSUME NEW p, NEW seq, NEW start \in Int, NEW end \in Int,
           NEW a \in Nat, NEW b \in 0 .. a, Fits(p, a, seq, start, end)
    PROVE  Fits(p, b, seq, start, end) <=> Fits(p, b, p, 0, a)
  <1>1. ASSUME NEW k \in 0 .. (b - 1)
        PROVE  seq[end - b + k + 1] = p[a - b + k + 1]
    <2>1. a - b + k \in 0 .. (a - 1) /\ end - a + (a - b + k) + 1 = end - b + k + 1
      OBVIOUS
    <2>2. seq[end - a + (a - b + k) + 1] = p[(a - b + k) + 1]
      BY <2>1 DEF Fits
    <2>3. QED
      BY <2>1, <2>2
  <1>2. end - b >= start /\ a - b >= 0
    BY DEF Fits
  <1>3. ASSUME Fits(p, b, seq, start, end) PROVE Fits(p, b, p, 0, a)
    <2>1. \A k \in 0 .. (b - 1) : seq[end - b + k + 1] = p[k + 1]
      BY <1>3 DEF Fits
    <2>2. ASSUME NEW k \in 0 .. (b - 1) PROVE p[a - b + k + 1] = p[k + 1]
      <3>1. seq[end - b + k + 1] = p[k + 1]
        BY <2>1
      <3>2. seq[end - b + k + 1] = p[a - b + k + 1]
        BY <1>1
      <3>3. QED
        BY <3>1, <3>2
    <2>3. QED
      BY <1>2, <2>2 DEF Fits
  <1>4. ASSUME Fits(p, b, p, 0, a) PROVE Fits(p, b, seq, start, end)
    <2>1. \A k \in 0 .. (b - 1) : p[a - b + k + 1] = p[k + 1]
      BY <1>4 DEF Fits
    <2>2. ASSUME NEW k \in 0 .. (b - 1) PROVE seq[end - b + k + 1] = p[k + 1]
      <3>1. p[a - b + k + 1] = p[k + 1]
        BY <2>1
      <3>2. seq[end - b + k + 1] = p[a - b + k + 1]
        BY <1>1
      <3>3. QED
        BY <3>1, <3>2
    <2>3. QED
      BY <1>2, <2>2 DEF Fits
  <1>5. QED
    BY <1>3, <1>4

\* One more byte fits exactly if the part without it does and the byte agrees.
LEMMA ExtendLemma ==
    ASSUME NEW p, NEW seq, NEW start \in Int, NEW end \in Int, NEW n \in Nat
    PROVE  Fits(p, n + 1, seq, start, end + 1)
              <=> Fits(p, n, seq, start, end) /\ seq[end + 1] = p[n + 1]
  <1>1. end + 1 - (n + 1) = end - n /\ n + 1 - 1 = n /\ end - n + n + 1 = end + 1
    OBVIOUS
  <1>2. \A k \in 0 .. n : k \in 0 .. (n - 1) \/ k = n
    OBVIOUS
  <1>3. n \in 0 .. n /\ \A k \in 0 .. (n - 1) : k \in 0 .. n
    OBVIOUS
  <1>4. ASSUME Fits(p, n + 1, seq, start, end + 1)
        PROVE  Fits(p, n, seq, start, end) /\ seq[end + 1] = p[n + 1]
    <2>1. \A k \in 0 .. n : seq[end - n + k + 1] = p[k + 1]
      BY <1>1, <1>4 DEF Fits
    <2>2. QED
      BY <1>1, <1>3, <1>4, <2>1 DEF Fits
  <1>5. ASSUME Fits(p, n, seq, start, end), seq[end + 1] = p[n + 1]
        PROVE  Fits(p, n + 1, seq, start, end + 1)
    <2>1. \A k \in 0 .. n : seq[end - n + k + 1] = p[k + 1]
      BY <1>1, <1>2, <1>5 DEF Fits
    <2>2. QED
      BY <1>1, <1>5, <2>1 DEF Fits
  <1>6. QED
    BY <1>4, <1>5

\* Falling back to the longest border loses no part that may still go on.
LEMMA FallBackLemma ==
    ASSUME NEW p, NEW seq, NEW start \in Int, NEW end \in Int,
           NEW limit \in Nat, NEW a \in Nat, NEW c \in Nat,
           Near(p, a, limit, seq, start, end), a # 0, seq[end + 1] # p[a + 1],
           Longest(p, c, a, p, 0, a)
    PROVE  Near(p, c, limit, seq, start, end) /\ c < a
  <1>1. /\ a \in 0 .. (limit - 1) /\ c \in 0 .. (a - 1)
        /\ Fits(p, a, seq, start, end) /\ Fits(p, c, p, 0, a)
    BY DEF Near, Longest
  <1>2. c \in 0 .. (limit - 1) /\ c \in 0 .. a /\ c < a
    BY <1>1
  <1>3. Fits(p, c, seq, start, end)
    BY <1>1, <1>2, BorderLemma
  <1>4. ASSUME NEW b \in 0 .. (limit - 1), b > c, Fits(p, b, seq, start, end)
        PROVE  seq[end + 1] # p[b + 1]
    <2>1. CASE b > a
      BY <1>4, <2>1 DEF Near
    <2>2. CASE b = a
      BY <2>2
    <2>3. CASE b < a
      <3>1. b \in 0 .. a /\ b \in 0 .. (a - 1)
        BY <1>1, <2>3
      <3>2. Fits(p, b, p, 0, a)
        BY <1>1, <1>4, <3>1, BorderLemma
      <3>3. b <= c
        BY <3>1, <3>2 DEF Longest
      <3>4. QED
        BY <1>1, <1>4, <3>1, <3>3
    <2>4. QED
      BY <1>1, <2>1, <2>2, <2>3
  <1>5. QED
    BY <1>2, <1>3, <1>4 DEF Near

\* Taking a byte that goes on, or that nothing goes on with, gives the longest part
\* that fits behind it.
LEMMA AdvanceLemma ==
    ASSUME NEW p, NEW seq, NEW start \in Int, NEW end \in Int,
           NEW limit \in Nat, NEW a \in Nat, start <= end,
           Near(p, a, limit, seq, start, end), a = 0 \/ seq[end + 1] = p[a + 1]
    PROVE  Longest(p, IF seq[end + 1] = p[a + 1] THEN a + 1 ELSE a, limit + 1,
                   seq, start, end + 1)
  <1> DEFINE new == IF seq[end + 1] = p[a + 1] THEN a + 1 ELSE a
  <1>1. a \in 0 .. (limit - 1) /\ Fits(p, a, seq, start, end)
    BY DEF Near
  <1>2. new \in 0 .. limit
    BY <1>1
  <1>3. Fits(p, new, seq, start, end + 1)
    <2>1. CASE seq[end + 1] = p[a + 1]
      BY <1>1, <2>1, ExtendLemma
    <2>2. CASE seq[end + 1] # p[a + 1]
      <3>1. new = 0
        BY <2>2
      <3>2. Fits(p, 0, seq, start, end + 1)
        BY DEF Fits
      <3>3. QED
        BY <3>1, <3>2
    <2>3. QED
      BY <2>1, <2>2
  <1>4. ASSUME NEW b \in 0 .. limit, Fits(p, b, seq, start, end + 1)
        PROVE  b <= new
    <2>1. CASE b = 0
      BY <1>2, <2>1
    <2>2. CASE b # 0
      <3> DEFINE c == b - 1
      <3>1. c \in 0 .. (limit - 1) /\ c \in Nat /\ b = c + 1
        BY <2>2
      <3>2. Fits(p, c + 1, seq, start, end + 1)
        BY <1>4, <3>1
      <3> HIDE DEF c
      <3>3. Fits(p, c, seq, start, end) /\ seq[end + 1] = p[c + 1]
        BY <3>1, <3>2, ExtendLemma
      <3>4. c <= a
        BY <3>1, <3>3, <1>1 DEF Near
      <3>5. CASE c = a
        BY <3>1, <3>3, <3>5
      <3>6. CASE c < a
        BY <1>1, <3>1, <3>6
      <3>7. QED
        BY <1>1, <3>1, <3>4, <3>5, <3>6
    <2>3. QED
      BY <2>1, <2>2
  <1>5. limit + 1 - 1 = limit
    OBVIOUS
  <1> HIDE DEF new
  <1>6. Longest(p, new, limit + 1, seq, start, end + 1)
    BY <1>2, <1>3, <1>4, <1>5 DEF Longest
  <1>7. QED
    BY <1>6 DEF new

\* At a region's first byte nothing of the pattern fits yet.
LEMMA FreshLemma ==
    ASSUME NEW p, NEW seq, NEW start \in Nat, NEW limit \in Nat \ {0}
    PROVE  /\ Longest(p, 0, limit, seq, start, start)
           /\ \A end \in 0 .. start : ~Fits(p, limit, seq, start, end)
  <1>1. Fits(p, 0, seq, start, start)
    BY DEF Fits
  <1>2. \A b \in 0 .. (limit - 1) : Fits(p, b, seq, start, start) => b <= 0
    BY DEF Fits
  <1>3. \A end \in 0 .. start : ~Fits(p, limit, seq, start, end)
    BY DEF Fits
  <1>4. QED
    BY <1>1, <1>2, <1>3 DEF Longest

\* What is longest is near.
LEMMA LongestIsNear ==
    ASSUME NEW p, NEW seq, NEW start, NEW end, NEW limit \in Nat, NEW a \in Nat,
           Longest(p, a, limit, seq, start, end)
    PROVE  Near(p, a, limit, seq, start, end)
  BY DEF Longest, Near

\* A member of a set of integers that no other exceeds is its maximum.
LEMMA MaxLemma ==
    ASSUME NEW S \in SUBSET Int, NEW x \in S, \A y \in S : y <= x
    PROVE  Max(S) = x
  <1>1. \A y \in S : x >= y
    OBVIOUS
  <1>2. Max(S) \in S /\ \A y \in S : Max(S) >= y
    <2> DEFINE P(z) == z \in S /\ \A y \in S : z >= y
    <2>1. P(x)
      BY <1>1
    <2>2. Max(S) = CHOOSE z : P(z)
      BY DEF Max
    <2> HIDE DEF P
    <2>3. P(Max(S))
      BY <2>1, <2>2
    <2>4. QED
      BY <2>3 DEF P
  <1>3. Max(S) \in Int /\ x \in Int /\ Max(S) >= x /\ Max(S) <= x
    BY <1>2
  <1>4. QED
    BY <1>3

-----------------------------------------------------------------------------
(* The inductive invariant *)

Size == Len(needle)
Start == regions[region].offset
End(r) == regions[r].offset + regions[r].length

SearchTypes ==
    /\ needle \in Seq(Bytes) /\ Size \in Nat \ {0}
    /\ payload \in Seq(Bytes) /\ regions \in Seq([offset : Nat, length : Nat])
    /\ pc \in {"build", "region", "read", "scan", "done"}
    /\ i \in 1 .. Size /\ prefix \in [0 .. (Size - 1) -> Nat] /\ matched \in 0 .. Size
    /\ region \in 1 .. (Len(regions) + 1)
    /\ at \in Nat /\ length \in Nat /\ piece \in Nat /\ found \in BOOLEAN

\* The finished part of the table, and the border that the loop is about to try.
TableInv ==
    /\ \A n \in 1 .. i : Longest(needle, prefix[n - 1], n, needle, 0, n)
    /\ pc = "build" => matched < i
    /\ pc = "build" /\ i < Size => Near(needle, matched, i, needle, 0, i)
    /\ pc # "build" => i = Size

\* What is remembered of the region that is searched: the longest part of the
\* pattern, unless bytes of a piece wait and a shorter one is being tried.
RegionInv ==
    /\ pc # "done" => ~found /\ matched < Size
    /\ pc \in {"build", "region", "read"} => piece = 0
    /\ pc \in {"read", "scan"} =>
          /\ region <= Len(regions)
          /\ Start <= at /\ at + piece + length = End(region)
          /\ Near(needle, matched, Size, payload, Start, at)
          /\ piece = 0 => Longest(needle, matched, Size, payload, Start, at)

\* What lies behind the search holds no match.
SeenInv ==
    /\ \A r \in 1 .. (region - 1) : \A end \in 0 .. End(r) :
          ~Fits(needle, Size, payload, regions[r].offset, end)
    /\ pc \in {"read", "scan"} =>
          \A end \in 0 .. at : ~Fits(needle, Size, payload, Start, end)
    /\ pc = "done" /\ ~found => region > Len(regions)
    /\ pc = "done" /\ found =>
          /\ region <= Len(regions) /\ at <= End(region)
          /\ Fits(needle, Size, payload, Start, at)

SearchInv == SearchTypes /\ TableInv /\ RegionInv /\ SeenInv

\* The lesser of two numbers.
LEMMA MinLemma ==
    ASSUME NEW a \in Int, NEW b \in Int
    PROVE  Min({a, b}) = IF a <= b THEN a ELSE b
  <1> DEFINE least == IF a <= b THEN a ELSE b
             P(z) == z \in {a, b} /\ \A y \in {a, b} : z =< y
  <1>1. P(least) /\ \A z : P(z) => z = least
    OBVIOUS
  <1>2. Min({a, b}) = CHOOSE z : P(z)
    BY DEF Min
  <1> HIDE DEF P, least
  <1>3. P(Min({a, b}))
    BY <1>1, <1>2
  <1>4. QED
    BY <1>1, <1>3 DEF least

\* A region has an offset and a length.
LEMMA PartLemma ==
    ASSUME SearchTypes, NEW r \in 1 .. Len(regions)
    PROVE  regions[r].offset \in Nat /\ regions[r].length \in Nat
  <1> DEFINE Parts == [offset : Nat, length : Nat]
  <1>1. regions \in Seq(Parts)
    BY DEF SearchTypes
  <1>2. ASSUME NEW p \in Parts PROVE p.offset \in Nat /\ p.length \in Nat
    OBVIOUS
  <1> HIDE DEF Parts
  <1>3. regions[r] \in Parts
    BY <1>1
  <1>4. QED
    BY <1>2, <1>3

LEMMA SearchInit == Init => SearchInv
  <1> SUFFICES ASSUME Init PROVE SearchInv
    OBVIOUS
  <1>1. SearchTypes
    <2>1. needle \in Seq(Bytes) /\ needle # <<>> /\ payload \in Seq(Bytes)
          /\ regions \in Seq([offset : Nat, length : Nat])
      BY SearchAssumption DEF Init
    <2>2. Len(needle) \in Nat \ {0} /\ Len(regions) \in Nat
      BY <2>1
    <2>3. /\ pc = "build" /\ i = 1 /\ matched = 0 /\ found = FALSE
          /\ prefix = [n \in 0 .. (Len(needle) - 1) |-> 0]
          /\ region = 1 /\ at = 0 /\ length = 0 /\ piece = 0
      BY DEF Init
    <2>4. i \in 1 .. Len(needle) /\ matched \in 0 .. Len(needle)
          /\ region \in 1 .. (Len(regions) + 1)
      BY <2>2, <2>3
    <2>5. prefix \in [0 .. (Len(needle) - 1) -> Nat]
      BY <2>3
    <2>6. QED
      BY <2>1, <2>2, <2>3, <2>4, <2>5 DEF SearchTypes, Size
  <1>2. TableInv
    <2>1. i = 1 /\ pc = "build" /\ matched = 0 /\ prefix[0] = 0
      BY <1>1 DEF Init, SearchTypes, Size
    <2>2. Longest(needle, 0, 1, needle, 0, 1)
      BY DEF Longest, Fits
    <2>3. Near(needle, 0, 1, needle, 0, 1)
      BY <2>2, LongestIsNear
    <2>4. \A n \in 1 .. 1 : n = 1 /\ n - 1 = 0
      OBVIOUS
    <2>5. QED
      BY <2>1, <2>2, <2>3, <2>4 DEF TableInv
  <1>3. RegionInv /\ SeenInv
    BY <1>1 DEF Init, SearchTypes, RegionInv, SeenInv, Size
  <1>4. QED
    BY <1>1, <1>2, <1>3 DEF SearchInv

\* The table's loop: the entries are borders, whatever the round does.
LEMMA BuildLemma == SearchInv /\ Build => SearchInv'
  <1> SUFFICES ASSUME SearchInv, Build PROVE SearchInv'
    OBVIOUS
  <1> USE DEF SearchInv
  <1>1. /\ pc = "build" /\ UNCHANGED <<needle, payload, regions>>
        /\ UNCHANGED <<region, at, length, piece, found>>
    BY DEF Build, arguments, reading
  <1>2. Size' = Size /\ Size \in Nat \ {0} /\ i \in 1 .. Size /\ matched < i
        /\ matched \in Nat
    BY <1>1 DEF Size, SearchTypes, TableInv
  <1>3. SeenInv' /\ RegionInv' /\ SearchTypes' <=>
           /\ i' \in 1 .. Size /\ prefix' \in [0 .. (Size - 1) -> Nat]
           /\ matched' \in 0 .. Size /\ pc' \in {"build", "region"} /\ matched' < Size
    <2>1. pc' \in {"build", "region"}
      BY <1>1 DEF Build
    <2>2. SeenInv'
      BY <1>1, <1>2, <2>1 DEF SeenInv, End, Start
    <2>3. QED
      BY <1>1, <1>2, <2>1, <2>2 DEF SearchTypes, RegionInv
  <1>4. CASE i >= Len(needle)
    <2>1. pc' = "region" /\ i' = i /\ prefix' = prefix /\ matched' = matched /\ i = Size
      BY <1>1, <1>2, <1>4 DEF Build, Size
    <2>2. TableInv'
      BY <1>1, <1>2, <2>1 DEF TableInv
    <2>3. QED
      BY <1>2, <1>3, <2>1, <2>2 DEF SearchTypes
  <1>5. CASE i < Len(needle) /\ matched # 0 /\ At(needle, i) # At(needle, matched)
    <2>1. /\ pc' = "build" /\ i' = i /\ prefix' = prefix /\ i < Size
          /\ matched' = prefix[matched - 1]
      BY <1>1, <1>2, <1>5 DEF Build, FallBack, Size
    <2>2. /\ Near(needle, matched, i, needle, 0, i)
          /\ needle[i + 1] # needle[matched + 1]
      BY <1>1, <1>5, <2>1 DEF TableInv, At
    <2>3. matched \in 1 .. i /\ matched - 1 \in 0 .. (Size - 1)
      BY <1>2, <1>5
    <2>4. /\ Longest(needle, matched', matched, needle, 0, matched)
          /\ matched' \in Nat
      BY <2>1, <2>3 DEF TableInv, SearchTypes
    <2>5. Near(needle, matched', i, needle, 0, i) /\ matched' < matched
      BY <1>2, <1>5, <2>2, <2>4, FallBackLemma
    <2>6. TableInv'
      BY <1>1, <1>2, <2>1, <2>4, <2>5 DEF TableInv
    <2>7. matched' \in 0 .. Size /\ matched' < Size
      BY <1>2, <2>4, <2>5
    <2>8. prefix' \in [0 .. (Size - 1) -> Nat] /\ i' \in 1 .. Size
      BY <2>1 DEF SearchTypes
    <2>9. QED
      BY <1>3, <2>1, <2>6, <2>7, <2>8
  <1>6. CASE i < Len(needle) /\ (matched = 0 \/ At(needle, i) = At(needle, matched))
    <2>1. /\ pc' = "build" /\ i' = i + 1 /\ prefix' = [prefix EXCEPT ![i] = matched']
          /\ matched' = IF needle[i + 1] = needle[matched + 1] THEN matched + 1 ELSE matched
          /\ i < Size
      BY <1>1, <1>2, <1>6 DEF Build, At, Size
    <2>2. /\ Near(needle, matched, i, needle, 0, i)
          /\ matched = 0 \/ needle[i + 1] = needle[matched + 1]
      BY <1>1, <1>6, <2>1 DEF TableInv, At
    <2>3. Longest(needle, matched', i + 1, needle, 0, i + 1)
      BY <1>2, <2>1, <2>2, AdvanceLemma
    <2>4. /\ matched' \in 0 .. i /\ matched' \in Nat /\ i + 1 \in 1 .. Size
          /\ i \in 0 .. (Size - 1)
      BY <1>2, <2>1, <2>3 DEF Longest
    <2>5. /\ prefix' \in [0 .. (Size - 1) -> Nat] /\ prefix'[i] = matched'
          /\ \A n \in 0 .. (i - 1) : prefix'[n] = prefix[n]
      BY <1>2, <2>1, <2>4 DEF SearchTypes
    <2>6. ASSUME NEW n \in 1 .. (i + 1)
          PROVE  Longest(needle, prefix'[n - 1], n, needle, 0, n)
      <3>1. CASE n = i + 1
        BY <1>2, <2>3, <2>5, <3>1
      <3>2. CASE n \in 1 .. i
        <4>1. prefix'[n - 1] = prefix[n - 1]
          BY <1>2, <2>5, <3>2
        <4>2. QED
          BY <3>2, <4>1 DEF TableInv
      <3>3. QED
        BY <1>2, <3>1, <3>2
    <2>7. Near(needle, matched', i + 1, needle, 0, i + 1)
      BY <1>2, <2>3, <2>4, LongestIsNear
    <2>8. TableInv'
      BY <1>1, <1>2, <2>1, <2>4, <2>6, <2>7 DEF TableInv
    <2>9. QED
      BY <1>2, <1>3, <2>1, <2>4, <2>5, <2>8
  <1>7. QED
    BY <1>2, <1>4, <1>5, <1>6 DEF Size, SearchTypes

\* The next region is searched from nothing, and one that is left held no match.
LEMMA RegionLemma == SearchInv /\ Region => SearchInv'
  <1> SUFFICES ASSUME SearchInv, Region PROVE SearchInv'
    OBVIOUS
  <1> USE DEF SearchInv
  <1>1. /\ pc = "region" /\ UNCHANGED <<needle, payload, regions, i, prefix>>
        /\ UNCHANGED <<region, piece, found>>
    BY DEF Region, arguments
  <1>2. /\ Size' = Size /\ Size \in Nat \ {0} /\ region \in 1 .. (Len(regions) + 1)
        /\ Len(regions) \in Nat /\ ~found /\ piece = 0 /\ matched < Size
    BY <1>1 DEF Size, SearchTypes, RegionInv
  <1>3. CASE region > Len(regions)
    <2>1. pc' = "done" /\ UNCHANGED <<matched, at, length>>
      BY <1>3 DEF Region
    <2>2. SearchTypes'
      BY <1>1, <1>2, <2>1 DEF SearchTypes
    <2>3. TableInv'
      BY <1>1, <1>2, <2>1 DEF TableInv
    <2>4. RegionInv' /\ SeenInv'
      BY <1>1, <1>2, <1>3, <2>1 DEF RegionInv, SeenInv, End, Start
    <2>5. QED
      BY <2>2, <2>3, <2>4
  <1>4. CASE region <= Len(regions)
    <2>1. /\ pc' = "read" /\ matched' = 0 /\ at' = regions[region].offset
          /\ length' = regions[region].length
      BY <1>2, <1>4 DEF Region, Restart
    <2>2. regions[region].offset \in Nat /\ regions[region].length \in Nat
      BY <1>2, <1>4, PartLemma
    <2>3. at' \in Nat /\ length' \in Nat /\ Start' = at' /\ End(region)' = at' + length'
      BY <1>1, <2>1, <2>2 DEF Start, End
    <2>n. at' \in Nat /\ length' \in Nat
      BY <2>1, <2>2
    <2>4. SearchTypes'
      <3>1. 0 \in 0 .. Size
        BY <1>2
      <3>2. QED
        BY <1>1, <1>2, <2>1, <2>n, <3>1 DEF SearchTypes
    <2>5. TableInv'
      BY <1>1, <1>2, <2>1 DEF TableInv
    <2>8. /\ Longest(needle, 0, Size, payload, at', at')
          /\ \A end \in 0 .. at' : ~Fits(needle, Size, payload, at', end)
      BY <1>2, <2>n, FreshLemma
    <2>9. Near(needle, 0, Size, payload, at', at')
      BY <1>2, <2>8, LongestIsNear
    <2>10. RegionInv'
      BY <1>1, <1>2, <1>4, <2>1, <2>3, <2>8, <2>9 DEF RegionInv
    <2>11. SeenInv'
      BY <1>1, <1>2, <2>1, <2>3, <2>8 DEF SeenInv, End
    <2>12. QED
      BY <2>4, <2>5, <2>10, <2>11
  <1>5. QED
    BY <1>2, <1>3, <1>4

\* Where the buffer cuts the region makes no difference.
LEMMA ReadLemma == SearchInv /\ ReadPiece => SearchInv'
  <1> SUFFICES ASSUME SearchInv, ReadPiece PROVE SearchInv'
    OBVIOUS
  <1> USE DEF SearchInv
  <1>1. /\ pc = "read" /\ UNCHANGED <<needle, payload, regions, i, prefix>>
        /\ UNCHANGED <<matched, at, found>>
    BY DEF ReadPiece, arguments
  <1>2. /\ Size' = Size /\ Size \in Nat \ {0} /\ region \in 1 .. Len(regions)
        /\ Len(regions) \in Nat /\ ~found /\ piece = 0 /\ matched < Size
        /\ at \in Nat /\ length \in Nat /\ at + length = End(region) /\ Start <= at
    BY <1>1 DEF Size, SearchTypes, RegionInv
  <1>3. CASE length = 0
    <2>1. pc' = "region" /\ region' = region + 1 /\ UNCHANGED <<length, piece>>
      BY <1>3 DEF ReadPiece
    <2>2. SearchTypes'
      <3>1. region + 1 \in 1 .. (Len(regions) + 1)
        BY <1>2
      <3>2. QED
        BY <1>1, <1>2, <2>1, <3>1 DEF SearchTypes
    <2>3. TableInv'
      BY <1>1, <1>2, <2>1 DEF TableInv
    <2>4. RegionInv'
      BY <1>1, <1>2, <2>1 DEF RegionInv
    <2>5. \A end \in 0 .. End(region) : ~Fits(needle, Size, payload, Start, end)
      BY <1>1, <1>2, <1>3 DEF SeenInv
    <2>6. \A r \in 1 .. region : r \in 1 .. (region - 1) \/ r = region
      BY <1>2
    <2>7. \A r \in 1 .. region : \A end \in 0 .. End(r) :
             ~Fits(needle, Size, payload, regions[r].offset, end)
      BY <2>5, <2>6 DEF SeenInv, Start
    <2>8. region + 1 - 1 = region
      BY <1>2
    <2>9. SeenInv'
      BY <1>1, <1>2, <2>1, <2>7, <2>8 DEF SeenInv, End
    <2>10. QED
      BY <2>2, <2>3, <2>4, <2>9
  <1>4. CASE length # 0
    <2>1. /\ pc' = "scan" /\ region' = region
          /\ piece' = Min({length, BufferSize}) /\ length' = length - piece'
      BY <1>4 DEF ReadPiece
    <2>2. piece' \in Nat /\ piece' # 0 /\ length' \in Nat /\ piece' + length' = length
      <3>1. BufferSize \in Nat \ {0}
        BY SearchAssumption
      <3>2. piece' = IF length <= BufferSize THEN length ELSE BufferSize
        BY <1>2, <2>1, <3>1, MinLemma
      <3>3. QED
        BY <1>2, <1>4, <2>1, <3>1, <3>2
    <2>3. SearchTypes'
      BY <1>1, <1>2, <2>1, <2>2 DEF SearchTypes
    <2>4. TableInv'
      BY <1>1, <1>2, <2>1 DEF TableInv
    <2>5. at' + piece' + length' = End(region)'
      BY <1>1, <1>2, <2>1, <2>2 DEF End
    <2>6. Start' = Start
      BY <1>1, <2>1 DEF Start
    <2>7. RegionInv'
      BY <1>1, <1>2, <2>1, <2>2, <2>5, <2>6 DEF RegionInv
    <2>8. SeenInv'
      BY <1>1, <1>2, <2>1, <2>6 DEF SeenInv, End
    <2>9. QED
      BY <2>3, <2>4, <2>7, <2>8
  <1>5. QED
    BY <1>3, <1>4

\* One byte: a shorter border, one byte more, or the whole pattern.
LEMMA ScanLemma == SearchInv /\ Scan => SearchInv'
  <1> SUFFICES ASSUME SearchInv, Scan PROVE SearchInv'
    OBVIOUS
  <1> USE DEF SearchInv
  <1>1. /\ pc = "scan" /\ UNCHANGED <<needle, payload, regions, i, prefix>>
        /\ UNCHANGED <<region, length>>
    BY DEF Scan, arguments
  <1>2. /\ Size' = Size /\ Size \in Nat \ {0} /\ region \in 1 .. Len(regions)
        /\ Len(regions) \in Nat /\ ~found /\ matched \in 0 .. (Size - 1)
        /\ at \in Nat /\ length \in Nat /\ piece \in Nat
        /\ at + piece + length = End(region) /\ Start <= at
        /\ Near(needle, matched, Size, payload, Start, at)
    BY <1>1 DEF Size, SearchTypes, RegionInv
  <1>3. /\ Start' = Start /\ End(region)' = End(region) /\ Start \in Nat
        /\ i = Size
    <2>1. regions[region].offset \in Nat /\ regions[region].length \in Nat
      BY <1>2, PartLemma
    <2>2. QED
      BY <1>1, <2>1 DEF Start, End, TableInv
  <1>4. ASSUME pc' # "build" PROVE TableInv'
    BY <1>1, <1>2, <1>4 DEF TableInv
  <1>5. CASE piece = 0
    <2>1. pc' = "read" /\ UNCHANGED <<matched, at, piece, found>>
      BY <1>5 DEF Scan
    <2>2. SearchTypes' /\ TableInv'
      BY <1>1, <1>2, <1>4, <2>1 DEF SearchTypes
    <2>3. RegionInv'
      BY <1>1, <1>2, <1>3, <1>5, <2>1 DEF RegionInv
    <2>4. SeenInv'
      BY <1>1, <1>2, <1>3, <2>1 DEF SeenInv, End
    <2>5. QED
      BY <2>2, <2>3, <2>4
  <1>6. CASE piece # 0 /\ matched # 0 /\ At(payload, at) # At(needle, matched)
    <2>1. /\ pc' = pc /\ UNCHANGED <<at, piece, found>>
          /\ matched' = prefix[matched - 1] /\ payload[at + 1] # needle[matched + 1]
      BY <1>6 DEF Scan, FallBack, At
    <2>2. matched \in 1 .. i /\ matched - 1 \in 0 .. (Size - 1)
      BY <1>2, <1>3, <1>6
    <2>3. Longest(needle, matched', matched, needle, 0, matched) /\ matched' \in Nat
      BY <2>1, <2>2 DEF TableInv, SearchTypes
    <2>4. Near(needle, matched', Size, payload, Start, at) /\ matched' < matched
      <3>1. matched \in Nat /\ Size \in Nat /\ Start \in Int /\ at \in Int
        BY <1>2, <1>3
      <3>2. /\ matched # 0 /\ Near(needle, matched, Size, payload, Start, at)
            /\ payload[at + 1] # needle[matched + 1]
        BY <1>2, <1>6, <2>1
      <3>3. QED
        BY <2>3, <3>1, <3>2, FallBackLemma
    <2>5. matched' \in 0 .. Size /\ matched' < Size
      BY <1>2, <2>3, <2>4
    <2>6. SearchTypes' /\ TableInv'
      BY <1>1, <1>2, <1>4, <2>1, <2>5 DEF SearchTypes
    <2>7. RegionInv'
      BY <1>1, <1>2, <1>3, <1>6, <2>1, <2>4, <2>5 DEF RegionInv
    <2>8. SeenInv'
      BY <1>1, <1>2, <1>3, <2>1 DEF SeenInv, End
    <2>9. QED
      BY <2>6, <2>7, <2>8
  <1>7. CASE piece # 0 /\ (matched = 0 \/ At(payload, at) = At(needle, matched))
    <2>1. /\ at' = at + 1 /\ piece' = piece - 1
          /\ matched' = IF payload[at + 1] = needle[matched + 1]
                        THEN matched + 1 ELSE matched
          /\ found' = (matched' = Size) /\ pc' = IF found' THEN "done" ELSE "scan"
      BY <1>1, <1>7 DEF Scan, At, Size
    <2>2. matched = 0 \/ payload[at + 1] = needle[matched + 1]
      BY <1>7 DEF At
    <2>3. Longest(needle, matched', Size + 1, payload, Start, at + 1)
      BY <1>2, <1>3, <2>1, <2>2, AdvanceLemma
    <2>4. /\ matched' \in 0 .. Size /\ Fits(needle, matched', payload, Start, at')
          /\ \A b \in 0 .. Size : Fits(needle, b, payload, Start, at') => b <= matched'
      BY <1>2, <2>1, <2>3 DEF Longest
    <2>5. /\ at' \in Nat /\ piece' \in Nat /\ at' + piece' + length' = End(region)
          /\ Start <= at'
      BY <1>1, <1>2, <1>3, <1>7, <2>1
    <2>6. SearchTypes' /\ TableInv'
      BY <1>1, <1>2, <1>4, <2>1, <2>4, <2>5 DEF SearchTypes
    <2>7. CASE matched' = Size
      <3>1. pc' = "done" /\ found'
        BY <2>1, <2>7
      <3>2. RegionInv'
        BY <3>1 DEF RegionInv
      <3>3. at' <= End(region)'
        BY <1>1, <1>2, <1>3, <2>5
      <3>4. SeenInv'
        BY <1>1, <1>2, <1>3, <2>4, <2>7, <3>1, <3>3 DEF SeenInv, End
      <3>5. QED
        BY <2>6, <3>2, <3>4
    <2>8. CASE matched' # Size
      <3>1. pc' = "scan" /\ ~found' /\ matched' \in 0 .. (Size - 1)
        <4>1. pc' = "scan" /\ ~found'
          BY <2>1, <2>8
        <4>2. matched' \in 0 .. (Size - 1)
          BY <1>2, <2>4, <2>8
        <4>3. QED
          BY <4>1, <4>2
      <3>2. Longest(needle, matched', Size, payload, Start, at')
        BY <1>2, <2>4, <3>1 DEF Longest
      <3>3. Near(needle, matched', Size, payload, Start, at')
        BY <1>2, <3>1, <3>2, LongestIsNear
      <3>4. RegionInv'
        BY <1>1, <1>2, <1>3, <2>5, <3>1, <3>2, <3>3 DEF RegionInv
      <3>5. ~Fits(needle, Size, payload, Start, at')
        BY <1>2, <2>4, <3>1
      <3>6. \A end \in 0 .. at' : end \in 0 .. at \/ end = at'
        BY <1>2, <2>1
      <3>7. \A end \in 0 .. at' : ~Fits(needle, Size, payload, Start, end)
        BY <1>1, <3>5, <3>6 DEF SeenInv
      <3>8. SeenInv'
        BY <1>1, <1>2, <1>3, <3>1, <3>7 DEF SeenInv, End
      <3>9. QED
        BY <2>6, <3>4, <3>8
    <2>9. QED
      BY <2>7, <2>8
  <1>8. QED
    BY <1>5, <1>6, <1>7

LEMMA SearchCorrect == Spec => []SearchInv
  <1>1. SearchInv /\ [Next]_vars => SearchInv'
    <2> SUFFICES ASSUME SearchInv, [Next]_vars PROVE SearchInv'
      OBVIOUS
    <2>1. CASE UNCHANGED vars
      BY <2>1 DEF SearchInv, SearchTypes, TableInv, RegionInv, SeenInv, Size, Start,
                  End, vars
    <2>2. QED
      BY <2>1, BuildLemma, RegionLemma, ReadLemma, ScanLemma DEF Next
  <1>2. QED
    BY <1>1, SearchInit, PTL DEF Spec

-----------------------------------------------------------------------------
(* Results *)

\* The longest of the parts that fit is the maximum of their lengths.
LEMMA LongestIsMax ==
    ASSUME NEW seq, NEW start, NEW end, NEW limit \in Nat, NEW a \in Nat,
           Longest(needle, a, limit, seq, start, end)
    PROVE  a = Max({n \in 0 .. (limit - 1) : Ends(n, seq, start, end)})
  <1> DEFINE S == {n \in 0 .. (limit - 1) : Ends(n, seq, start, end)}
  <1>1. S \in SUBSET Int /\ a \in S /\ \A y \in S : y <= a
    BY EndsIsFits DEF Longest
  <1> HIDE DEF S
  <1>2. Max(S) = a
    BY <1>1, MaxLemma
  <1>3. QED
    BY <1>2 DEF S

\* Every finished entry of the table that contains() builds is the longest proper
\* border of its prefix, and no index leaves the pattern, for every pattern.
THEOREM TableCorrect == Spec => []TableIsExact
  <1>1. SearchInv => TableIsExact
    <2> SUFFICES ASSUME SearchInv PROVE TableIsExact
      OBVIOUS
    <2> USE DEF SearchInv
    <2>1. /\ Size = Len(needle) /\ Len(needle) \in Nat \ {0} /\ i \in 1 .. Len(needle)
          /\ matched \in 0 .. Len(needle)
          /\ pc \in {"build", "read", "scan"} => matched < Len(needle)
      BY DEF SearchTypes, RegionInv, Size
    <2>2. Min({i, Len(needle)}) = i
      BY <2>1, MinLemma
    <2>3. ASSUME NEW n \in 1 .. (i - 1)
          PROVE  prefix[n] = Max({b \in 0 .. n : Ends(b, needle, 0, n + 1)})
      <3>1. n + 1 \in 1 .. i /\ n + 1 - 1 = n /\ n + 1 \in Nat /\ n \in 0 .. (Size - 1)
        BY <2>1
      <3>2. Longest(needle, prefix[n], n + 1, needle, 0, n + 1) /\ prefix[n] \in Nat
        BY <3>1 DEF TableInv, SearchTypes
      <3>3. prefix[n] = Max({b \in 0 .. (n + 1 - 1) : Ends(b, needle, 0, n + 1)})
        BY <3>1, <3>2, LongestIsMax
      <3>4. QED
        BY <3>1, <3>3
    <2>4. QED
      BY <2>1, <2>2, <2>3 DEF TableIsExact
  <1>2. QED
    BY <1>1, SearchCorrect, PTL

\* Between two pieces of a region, whatever the buffer's size, contains() remembers
\* the longest part of the pattern that ends there.
THEOREM MemoryCorrect == Spec => []NothingForgotten
  <1>1. SearchInv => NothingForgotten
    <2> SUFFICES ASSUME SearchInv, pc = "read"
                 PROVE  matched = Max({n \in 0 .. (Len(needle) - 1) :
                                          Ends(n, payload, regions[region].offset, at)})
      BY DEF NothingForgotten
    <2>1. /\ Longest(needle, matched, Len(needle), payload, regions[region].offset, at)
          /\ Len(needle) \in Nat /\ matched \in Nat
      BY DEF SearchInv, RegionInv, SearchTypes, Size, Start
    <2>2. QED
      BY <2>1, LongestIsMax
  <1>2. QED
    BY <1>1, SearchCorrect, PTL

\* contains() answers yes exactly if the pattern lies within one region, for every
\* pattern, payload, layout of regions and buffer size.
THEOREM AnswerCorrect == Spec => []AnswerIsExact
  <1>1. SearchInv => AnswerIsExact
    <2> SUFFICES ASSUME SearchInv, pc = "done"
                 PROVE  found = \E r \in 1 .. Len(regions) :
                           \E end \in 0 .. (regions[r].offset + regions[r].length) :
                              Ends(Len(needle), payload, regions[r].offset, end)
      BY DEF AnswerIsExact
    <2> USE DEF SearchInv
    <2>1. \A r, end : Ends(Len(needle), payload, regions[r].offset, end) <=>
                         Fits(needle, Len(needle), payload, regions[r].offset, end)
      BY EndsIsFits
    <2>2. Len(regions) \in Nat /\ region \in 1 .. (Len(regions) + 1) /\ at \in Nat
          /\ found \in BOOLEAN
      BY DEF SearchTypes
    <2>3. CASE found
      <3>1. /\ region <= Len(regions) /\ at <= End(region)
            /\ Fits(needle, Len(needle), payload, regions[region].offset, at)
        BY <2>3 DEF SeenInv, Size, Start
      <3>2. region \in 1 .. Len(regions)
        BY <2>2, <3>1
      <3>3. regions[region].offset \in Nat /\ regions[region].length \in Nat
        BY <3>2, PartLemma
      <3>4. at \in 0 .. (regions[region].offset + regions[region].length)
        BY <2>2, <3>1, <3>3 DEF End
      <3>5. QED
        BY <2>1, <2>3, <3>1, <3>2, <3>4
    <2>4. CASE ~found
      <3>1. region = Len(regions) + 1 /\ region - 1 = Len(regions)
        BY <2>2, <2>4 DEF SeenInv
      <3>2. \A r \in 1 .. Len(regions) :
               \A end \in 0 .. (regions[r].offset + regions[r].length) :
                  ~Fits(needle, Len(needle), payload, regions[r].offset, end)
        BY <3>1 DEF SeenInv, End, Size
      <3>3. ~\E r \in 1 .. Len(regions) :
               \E end \in 0 .. (regions[r].offset + regions[r].length) :
                  Ends(Len(needle), payload, regions[r].offset, end)
        BY <2>1, <3>2
      <3>4. found = FALSE
        BY <2>2, <2>4
      <3>5. QED
        BY <3>3, <3>4, Zenon
    <2>5. QED
      BY <2>2, <2>3, <2>4
  <1>2. QED
    BY <1>1, SearchCorrect, PTL

=============================================================================
