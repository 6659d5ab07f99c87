-------------------------- MODULE ReassemblerProofs --------------------------
(***************************************************************************)
(* Lemmas about the reassembler: what a merge makes of its range map, what a *)
(* fragment touches, what it means that a span is covered, and what each     *)
(* record does to the open events and the counters.                         *)
(***************************************************************************)
EXTENDS Reassembler, FiniteSetTheorems, TLAPS

-----------------------------------------------------------------------------
(* Least and greatest numbers *)

\* A set of natural numbers that is not empty has a least one.
LEMMA LeastExists ==
    ASSUME NEW S \in SUBSET Nat, S # {}
    PROVE  \E m \in S : \A x \in S : m <= x
  <1>1. PICK m \in S : \A y \in S : ~(<<y, m>> \in OpToRel(<, Nat))
    BY NatLessThanWellFounded, WFMin, Zenon
  <1>2. ASSUME NEW y \in S PROVE m <= y
    <2>1. ~(<<y, m>> \in {ss \in Nat \X Nat : ss[1] < ss[2]})
      BY <1>1 DEF OpToRel
    <2>2. QED
      BY <2>1
  <1>3. QED
    BY <1>2

\* A bounded one has a greatest, too.
LEMMA GreatestExists ==
    ASSUME NEW S \in SUBSET Nat, S # {}, NEW n \in Nat, \A x \in S : x <= n
    PROVE  \E m \in S : \A x \in S : x <= m
  <1> DEFINE U == {u \in Nat : \A x \in S : x <= u}
  <1>1. U \in SUBSET Nat /\ U # {}
    OBVIOUS
  <1>2. PICK m \in U : \A u \in U : m <= u
    BY <1>1, LeastExists
  <1>3. m \in S
    <2> SUFFICES ASSUME m \notin S PROVE FALSE
      OBVIOUS
    <2>1. PICK x \in S : TRUE
      OBVIOUS
    <2>2. m # 0
      BY <1>2, <2>1
    <2>3. m - 1 \in U
      BY <1>2, <2>2
    <2>4. QED
      BY <1>2, <2>3
  <1>4. QED
    BY <1>2, <1>3

\* Min and Max are what they are called where there is such a member.
LEMMA MinIs ==
    ASSUME NEW S \in SUBSET Int, NEW m \in S, \A x \in S : m <= x
    PROVE  Min(S) = m
  <1> DEFINE P(z) == z \in S /\ \A y \in S : z =< y
  <1>1. P(m)
    OBVIOUS
  <1>2. Min(S) = CHOOSE z : P(z)
    BY DEF Min
  <1> HIDE DEF P
  <1>3. P(Min(S))
    BY <1>1, <1>2
  <1>4. Min(S) \in Int /\ m \in Int /\ Min(S) <= m /\ m <= Min(S)
    BY <1>3 DEF P
  <1>5. QED
    BY <1>4

LEMMA MaxIs ==
    ASSUME NEW S \in SUBSET Int, NEW m \in S, \A x \in S : x <= m
    PROVE  Max(S) = m
  <1> DEFINE P(z) == z \in S /\ \A y \in S : z >= y
  <1>1. P(m)
    OBVIOUS
  <1>2. Max(S) = CHOOSE z : P(z)
    BY DEF Max
  <1> HIDE DEF P
  <1>3. P(Max(S))
    BY <1>1, <1>2
  <1>4. Max(S) \in Int /\ m \in Int /\ Max(S) >= m /\ Max(S) <= m
    BY <1>3 DEF P
  <1>5. QED
    BY <1>4

\* Of two numbers.
LEMMA PairLemma ==
    ASSUME NEW a \in Int, NEW b \in Int
    PROVE  /\ Min({a, b}) = IF a <= b THEN a ELSE b
           /\ Max({a, b}) = IF a <= b THEN b ELSE a
  <1> DEFINE S == {a, b}
             least == IF a <= b THEN a ELSE b
             most == IF a <= b THEN b ELSE a
  <1>1. S \in SUBSET Int /\ least \in S /\ most \in S
        /\ \A x \in S : least <= x /\ x <= most
    OBVIOUS
  <1> HIDE DEF S, least, most
  <1>2. Min(S) = least /\ Max(S) = most
    BY <1>1, MinIs, MaxIs
  <1>3. QED
    BY <1>2 DEF S, least, most

-----------------------------------------------------------------------------
(* Sums *)

\* The sums of the first k numbers of w.
Sums(g, w) ==
    /\ g \in [0 .. Len(w) -> Nat] /\ g[0] = 0
    /\ \A k \in 1 .. Len(w) : g[k] = g[k - 1] + w[k]

\* A fold adds the numbers up from the first to the last.  (Its recursive function
\* exists: one for 1 .. m + 1 is made of one for 1 .. m.)
LEMMA SumsLemma ==
    ASSUME NEW w \in Seq(Nat)
    PROVE  \E g : Sums(g, w) /\ Total(w) = g[Len(w)]
  <1> DEFINE n == Len(w)
             Step(it, s) == IF s = {} THEN 0 ELSE it[s \ {Max(s)}] + w[Max(s)]
             Iterates(it, m) == /\ it \in [SUBSET (1 .. m) -> Nat]
                                /\ \A s \in SUBSET (1 .. m) : it[s] = Step(it, s)
             Bad == {m \in 0 .. n : ~\E it : Iterates(it, m)}
  <1>0. n \in Nat /\ DOMAIN w = 1 .. n /\ \A k \in 1 .. n : w[k] \in Nat
    OBVIOUS
  <1> HIDE DEF n
  <1>a. ASSUME NEW m \in Nat, NEW s \in SUBSET (1 .. m), s # {}
        PROVE  Max(s) \in s /\ \A x \in s : x <= Max(s)
    <2>1. s \in SUBSET Nat /\ s \in SUBSET Int /\ \A x \in s : x <= m
      BY <1>a
    <2>2. PICK x \in s : \A y \in s : y <= x
      BY <1>a, <2>1, GreatestExists
    <2>3. Max(s) = x
      BY <2>1, <2>2, MaxIs
    <2>4. QED
      BY <2>2, <2>3
  <1>1. Iterates([s \in SUBSET (1 .. 0) |-> 0], 0)
    <2>1. SUBSET (1 .. 0) = {{}}
      OBVIOUS
    <2>2. QED
      BY <2>1
  <1>2. ASSUME NEW m \in Nat, m + 1 <= n, NEW it, Iterates(it, m)
        PROVE  \E jt : Iterates(jt, m + 1)
    <2> DEFINE jt == [s \in SUBSET (1 .. (m + 1)) |->
                         IF m + 1 \in s THEN it[s \ {m + 1}] + w[m + 1] ELSE it[s]]
    <2>1. \A s \in SUBSET (1 .. (m + 1)) :
             /\ s \ {m + 1} \in SUBSET (1 .. m)
             /\ m + 1 \notin s => s \in SUBSET (1 .. m)
      BY <1>2
    <2>2. w[m + 1] \in Nat
      BY <1>0, <1>2
    <2>3. \A s \in SUBSET (1 .. m) : it[s] \in Nat /\ it[s] = Step(it, s)
      BY <1>2
    <2>4. jt \in [SUBSET (1 .. (m + 1)) -> Nat]
      <3>1. ASSUME NEW s \in SUBSET (1 .. (m + 1))
            PROVE  (IF m + 1 \in s THEN it[s \ {m + 1}] + w[m + 1] ELSE it[s]) \in Nat
        <4>1. it[s \ {m + 1}] \in Nat /\ (m + 1 \notin s => it[s] \in Nat)
          BY <2>1, <2>3
        <4>2. QED
          BY <2>2, <4>1
      <3>2. QED
        BY <3>1
    <2>5. ASSUME NEW s \in SUBSET (1 .. (m + 1)) PROVE jt[s] = Step(jt, s)
      <3>1. CASE s = {}
        BY <2>1, <2>3, <3>1
      <3>2. CASE m + 1 \in s
        <4>1. Max(s) = m + 1
          <5>1. s \in SUBSET Int /\ \A x \in s : x <= m + 1
            BY <1>2
          <5>2. QED
            BY <3>2, <5>1, MaxIs
        <4>2. jt[s \ {m + 1}] = it[s \ {m + 1}]
          BY <2>1
        <4>3. QED
          BY <3>2, <4>1, <4>2
      <3>3. CASE m + 1 \notin s /\ s # {}
        <4>1. s \in SUBSET (1 .. m)
          BY <2>1, <3>3
        <4>2. s \ {Max(s)} \in SUBSET (1 .. m) /\ m + 1 \notin s \ {Max(s)}
              /\ s \ {Max(s)} \in SUBSET (1 .. (m + 1))
          BY <2>1, <3>3, <4>1
        <4>3. jt[s] = it[s] /\ jt[s \ {Max(s)}] = it[s \ {Max(s)}]
          BY <3>3, <4>2
        <4>4. QED
          BY <2>3, <3>3, <4>1, <4>3
      <3>4. QED
        BY <3>1, <3>2, <3>3
    <2> HIDE DEF jt
    <2>6. Iterates(jt, m + 1)
      BY <2>4, <2>5
    <2>7. QED
      BY <2>6
  <1>3. \E it : Iterates(it, n)
    <2> SUFFICES ASSUME ~\E it : Iterates(it, n) PROVE FALSE
      OBVIOUS
    <2> HIDE DEF Iterates
    <2>1. Bad \in SUBSET Nat /\ Bad # {}
      <3>1. n \in Bad
        BY <1>0
      <3>2. Bad \in SUBSET Nat
        BY <1>0
      <3>3. QED
        BY <3>1, <3>2
    <2>2. PICK m \in Bad : \A x \in Bad : m <= x
      BY <2>1, LeastExists
    <2>3. m # 0
      BY <1>1, <2>2
    <2>4. m - 1 \in Nat /\ m - 1 \in 0 .. n /\ (m - 1) + 1 = m /\ m <= n
      BY <1>0, <2>2, <2>3
    <2>5. PICK it : Iterates(it, m - 1)
      <3>1. m - 1 \notin Bad
        BY <2>2, <2>4
      <3>2. QED
        BY <2>4, <3>1
    <2>6. \E jt : Iterates(jt, m)
      BY <1>2, <2>4, <2>5
    <2>7. QED
      BY <2>2, <2>6
  <1> DEFINE Body(it) == [s \in SUBSET (DOMAIN w) |->
                             IF s = {} THEN 0 ELSE it[s \ {Max(s)}] + w[Max(s)]]
             iter == CHOOSE it : it = Body(it)
  <1>4. Total(w) = iter[DOMAIN w]
    BY DEF Total, FoldLeft, MapThenFoldSet
  <1>5. iter = Body(iter)
    <2>1. PICK it : Iterates(it, n)
      BY <1>3
    <2>2. it = Body(it)
      BY <1>0, <2>1
    <2> HIDE DEF Body
    <2>3. QED
      BY <2>2
  <1> HIDE DEF iter
  <1>6. \A s \in SUBSET (1 .. n) : iter[s] = Step(iter, s)
    BY <1>0, <1>5
  <1> DEFINE g == [k \in 0 .. n |-> iter[1 .. k]]
  <1>7. g[0] = 0
    <2>1. 1 .. 0 = {} /\ 1 .. 0 \in SUBSET (1 .. n)
      OBVIOUS
    <2>2. iter[1 .. 0] = 0
      BY <1>6, <2>1
    <2>3. QED
      BY <1>0, <2>2
  <1>8. ASSUME NEW k \in 1 .. n PROVE g[k] = g[k - 1] + w[k]
    <2>1. 1 .. k \in SUBSET (1 .. n) /\ k \in 1 .. k
      <3>1. k \in Nat /\ 1 <= k /\ k <= n
        BY <1>0
      <3>2. \A x \in 1 .. k : x \in 1 .. n
        BY <1>0, <3>1
      <3>3. QED
        BY <3>1, <3>2
    <2>2. Max(1 .. k) = k
      <3>1. 1 .. k \in SUBSET Int /\ \A x \in 1 .. k : x <= k
        BY <1>0
      <3>2. QED
        BY <2>1, <3>1, MaxIs
    <2>3. (1 .. k) \ {k} = 1 .. (k - 1)
      BY <1>0
    <2>4. iter[1 .. k] = iter[1 .. (k - 1)] + w[k]
      BY <1>6, <2>1, <2>2, <2>3
    <2>5. k \in 0 .. n /\ k - 1 \in 0 .. n
      BY <1>0
    <2>6. QED
      BY <2>4, <2>5
  <1>9. \A k \in 0 .. n : g[k] \in Nat
    <2> DEFINE Worse == {k \in 0 .. n : g[k] \notin Nat}
    <2> SUFFICES ASSUME Worse # {} PROVE FALSE
      OBVIOUS
    <2> HIDE DEF g
    <2>1. PICK k \in Worse : \A x \in Worse : k <= x
      <3>1. Worse \in SUBSET Nat
        BY <1>0
      <3>2. QED
        BY <3>1, LeastExists
    <2>2. k # 0 /\ k \in 1 .. n
      BY <1>7, <1>0, <2>1
    <2>3. k - 1 \in 0 .. n /\ k - 1 \notin Worse
      BY <1>0, <2>1, <2>2
    <2>4. g[k] \in Nat
      BY <1>0, <1>8, <2>2, <2>3
    <2>5. QED
      BY <2>1, <2>4
  <1>10. DOMAIN g = 0 .. n /\ Total(w) = g[n]
    BY <1>0, <1>4
  <1>11. g \in [0 .. n -> Nat]
    BY <1>9
  <1> HIDE DEF g
  <1>12. Sums(g, w)
    BY <1>7, <1>8, <1>11 DEF Sums, n
  <1>13. QED
    BY <1>10, <1>12 DEF n

\* g and h add up the same numbers, h from c on.
SameSteps(n, w, g, h, c) ==
    /\ n \in Nat /\ c \in Nat /\ g[0] = 0 /\ h[0] = c
    /\ \A k \in 1 .. n : /\ w[k] \in Nat
                         /\ g[k] = g[k - 1] + w[k] /\ h[k] = h[k - 1] + w[k]

\* Their distance stays the same.
LEMMA SumsUnique ==
    ASSUME NEW n, NEW w, NEW g, NEW h, NEW c, SameSteps(n, w, g, h, c)
    PROVE  \A k \in 0 .. n : g[k] \in Nat /\ h[k] = g[k] + c
  <1> USE DEF SameSteps
  <1> DEFINE Bad == {k \in 0 .. n : ~(g[k] \in Nat /\ h[k] = g[k] + c)}
  <1> SUFFICES ASSUME Bad # {} PROVE FALSE
    OBVIOUS
  <1>1. Bad \in SUBSET Nat
    OBVIOUS
  <1>2. PICK k \in Bad : \A x \in Bad : k <= x
    BY <1>1, LeastExists
  <1>3. k \in 0 .. n /\ k # 0 /\ k \in 1 .. n
    BY <1>2
  <1>4. g[k - 1] \in Nat /\ h[k - 1] = g[k - 1] + c
    <2>1. k - 1 \in 0 .. n /\ k - 1 \notin Bad
      BY <1>2, <1>3
    <2>2. QED
      BY <2>1
  <1>5. w[k] \in Nat /\ g[k] = g[k - 1] + w[k] /\ h[k] = h[k - 1] + w[k]
    BY <1>3
  <1>6. g[k] \in Nat /\ h[k] = g[k] + c
    BY <1>4, <1>5
  <1>7. QED
    BY <1>2, <1>6

\* What a sum of numbers is when one comes behind or in front.
LEMMA TotalLemma ==
    /\ Total(<<>>) = 0
    /\ \A w \in Seq(Nat) : Total(w) \in Nat
    /\ \A w \in Seq(Nat), x \in Nat : Total(Append(w, x)) = Total(w) + x
    /\ \A w \in Seq(Nat) : w # <<>> => Total(w) = w[1] + Total(Tail(w))
  <1>1. Total(<<>>) = 0
    <2>1. <<>> \in Seq(Nat) /\ Len(<<>>) = 0
      OBVIOUS
    <2>2. PICK g : Sums(g, <<>>) /\ Total(<<>>) = g[Len(<<>>)]
      BY <2>1, SumsLemma, Zenon
    <2>3. QED
      BY <2>1, <2>2 DEF Sums
  <1>2. \A w \in Seq(Nat) : Total(w) \in Nat
    <2> SUFFICES ASSUME NEW w \in Seq(Nat) PROVE Total(w) \in Nat
      OBVIOUS
    <2>1. PICK g : Sums(g, w) /\ Total(w) = g[Len(w)]
      BY SumsLemma
    <2>2. QED
      BY <2>1 DEF Sums
  <1>3. ASSUME NEW w \in Seq(Nat), NEW x \in Nat
        PROVE  Total(Append(w, x)) = Total(w) + x
    <2> DEFINE v == Append(w, x)
    <2>1. /\ v \in Seq(Nat) /\ Len(v) = Len(w) + 1 /\ v[Len(w) + 1] = x
          /\ \A k \in 1 .. Len(w) : v[k] = w[k] /\ w[k] \in Nat
          /\ Len(w) \in Nat
      OBVIOUS
    <2> HIDE DEF v
    <2>2. PICK g : Sums(g, w) /\ Total(w) = g[Len(w)]
      BY SumsLemma
    <2>3. PICK h : Sums(h, v) /\ Total(v) = h[Len(v)]
      BY <2>1, SumsLemma
    <2>4. \A k \in 1 .. Len(w) : g[k] = g[k - 1] + w[k] /\ h[k] = h[k - 1] + w[k]
      BY <2>1, <2>2, <2>3 DEF Sums
    <2>5. g[0] = 0 /\ h[0] = 0
      BY <2>2, <2>3 DEF Sums
    <2>6. \A k \in 0 .. Len(w) : g[k] \in Nat /\ h[k] = g[k] + 0
      <3>1. SameSteps(Len(w), w, g, h, 0)
        BY <2>1, <2>4, <2>5 DEF SameSteps
      <3>2. QED
        BY <3>1, SumsUnique
    <2>7. h[Len(w) + 1] = h[Len(w)] + x
      <3>1. Len(w) + 1 \in 1 .. Len(v) /\ (Len(w) + 1) - 1 = Len(w)
        BY <2>1
      <3>2. QED
        BY <2>1, <2>3, <3>1 DEF Sums
    <2>8. h[Len(w)] = g[Len(w)] /\ g[Len(w)] \in Nat
      BY <2>1, <2>6
    <2>9. QED
      BY <2>1, <2>2, <2>3, <2>7, <2>8 DEF v
  <1>4. ASSUME NEW w \in Seq(Nat), w # <<>>
        PROVE  Total(w) = w[1] + Total(Tail(w))
    <2> DEFINE v == Tail(w)
    <2>1. /\ v \in Seq(Nat) /\ Len(v) = Len(w) - 1 /\ Len(v) \in Nat
          /\ \A k \in 1 .. Len(v) : v[k] = w[k + 1] /\ v[k] \in Nat
          /\ w[1] \in Nat /\ Len(w) \in Nat
      BY <1>4
    <2> HIDE DEF v
    <2>2. PICK g : Sums(g, w) /\ Total(w) = g[Len(w)]
      BY SumsLemma
    <2>3. PICK h : Sums(h, v) /\ Total(v) = h[Len(v)]
      BY <2>1, SumsLemma
    <2> DEFINE f == [k \in 0 .. Len(v) |-> g[k + 1]]
    <2>4. f[0] = w[1] /\ h[0] = 0
      <3>1. g[1] = g[0] + w[1] /\ g[0] = 0
        <4>1. 1 \in 1 .. Len(w) /\ 1 - 1 = 0
          BY <2>1
        <4>2. QED
          BY <2>2, <4>1 DEF Sums
      <3>2. QED
        BY <2>1, <2>3, <3>1 DEF Sums
    <2>5. ASSUME NEW k \in 1 .. Len(v)
          PROVE  f[k] = f[k - 1] + v[k] /\ h[k] = h[k - 1] + v[k]
      <3>1. k + 1 \in 1 .. Len(w) /\ (k + 1) - 1 = k
        BY <2>1
      <3>2. g[k + 1] = g[k] + w[k + 1]
        BY <2>2, <3>1 DEF Sums
      <3>3. f[k] = g[k + 1] /\ f[k - 1] = g[k]
        <4>1. k \in 0 .. Len(v) /\ k - 1 \in 0 .. Len(v) /\ (k - 1) + 1 = k
          BY <2>1
        <4>2. QED
          BY <4>1
      <3>4. h[k] = h[k - 1] + v[k]
        BY <2>3 DEF Sums
      <3>5. QED
        BY <2>1, <3>2, <3>3, <3>4
    <2>6. f[Len(v)] = g[Len(w)]
      BY <2>1
    <2> HIDE DEF f
    <2>7. \A k \in 0 .. Len(v) : h[k] \in Nat /\ f[k] = h[k] + w[1]
      <3>1. SameSteps(Len(v), v, h, f, w[1])
        BY <2>1, <2>4, <2>5 DEF SameSteps
      <3>2. QED
        BY <3>1, SumsUnique
    <2>8. h[Len(v)] \in Nat /\ f[Len(v)] = h[Len(v)] + w[1]
      BY <2>1, <2>7
    <2>9. QED
      BY <2>1, <2>2, <2>3, <2>6, <2>8 DEF v
  <1>5. QED
    BY <1>1, <1>2, <1>3, <1>4

-----------------------------------------------------------------------------
(* The range map *)

\* The ranges are not empty and leave a gap between each other.
Ordered(ranges) ==
    /\ DOMAIN ranges \subseteq Nat
    /\ \A a \in DOMAIN ranges : ranges[a] \in Nat /\ a < ranges[a]
    /\ \A a, b \in DOMAIN ranges : a < b => ranges[a] < b

\* An offset lies in one of them.
In(ranges, o) == \E a \in DOMAIN ranges : a <= o /\ o < ranges[a]

\* The ranges that reach a fragment's start and do not begin behind its end.
Reached(ranges, offset, end) ==
    {a \in DOMAIN ranges : a <= end /\ offset <= ranges[a]}

\* Of the ranges that start at or before an offset, the one that counts is found.
LEMMA PreviousLemma ==
    ASSUME NEW R, Ordered(R), NEW offset \in Nat, NEW a \in DOMAIN R, a <= offset
    PROVE  \E b \in Previous(R, offset) : a <= b
  <1> DEFINE S == {x \in DOMAIN R : x <= offset}
  <1>1. S \in SUBSET Nat /\ a \in S /\ \A x \in S : x <= offset
    BY DEF Ordered
  <1>2. PICK m \in S : \A x \in S : x <= m
    BY <1>1, GreatestExists
  <1>3. m \in Previous(R, offset)
    BY <1>2 DEF Previous
  <1>4. QED
    BY <1>1, <1>2, <1>3

\* The search that starts at the previous range misses none and finds no other.
LEMMA TouchedLemma ==
    ASSUME NEW R, Ordered(R), NEW offset \in Nat, NEW end \in Nat, offset < end
    PROVE  Touched(R, offset, end) = Reached(R, offset, end)
  <1> DEFINE before == {a \in Previous(R, offset) : R[a] >= offset}
             first == Min({offset} \cup before)
  <1>1. /\ \A a \in Previous(R, offset) : a \in DOMAIN R /\ a \in Nat /\ a <= offset
        /\ \A a, b \in Previous(R, offset) : a = b
    BY DEF Previous, Ordered
  <1>2. /\ first \in Nat /\ first <= offset
        /\ before = {} => first = offset
        /\ \A a \in before : first = a
    <2>1. CASE before = {}
      <3>1. Min({offset} \cup before) = offset
        BY <2>1, MinIs
      <3>2. QED
        BY <2>1, <3>1
    <2>2. ASSUME NEW a \in before
          PROVE  first = a /\ a \in Nat /\ a <= offset
      <3>1. before = {a} /\ a \in Nat /\ a <= offset
        BY <1>1
      <3>2. Min({offset} \cup {a}) = a
        BY <3>1, MinIs
      <3>3. QED
        BY <3>1, <3>2
    <2>3. QED
      BY <2>1, <2>2
  <1>3. Touched(R, offset, end) = {a \in DOMAIN R : first <= a /\ a <= end}
    BY DEF Touched
  <1>4. ASSUME NEW a \in DOMAIN R, first <= a, a <= end
        PROVE  offset <= R[a]
    <2>1. CASE a >= offset
      BY <2>1 DEF Ordered
    <2>2. CASE a < offset
      <3>1. PICK b \in before : TRUE
        BY <1>2, <1>4, <2>2 DEF Ordered
      <3>2. first = b /\ b \in Previous(R, offset) /\ R[b] >= offset
        BY <1>2
      <3>3. a <= b
        <4>1. a \in {x \in DOMAIN R : x <= offset}
          BY <2>2 DEF Ordered
        <4>2. QED
          BY <3>2, <4>1 DEF Previous
      <3>4. a = b
        BY <1>1, <1>4, <3>2, <3>3 DEF Ordered
      <3>5. QED
        BY <3>2, <3>4 DEF Ordered
    <2>3. QED
      BY <2>1, <2>2 DEF Ordered
  <1>5. ASSUME NEW a \in DOMAIN R, a <= end, offset <= R[a]
        PROVE  first <= a
    <2>1. CASE a >= offset
      BY <1>2, <2>1 DEF Ordered
    <2>2. CASE a < offset
      <3>1. PICK b \in Previous(R, offset) : a <= b
        BY <2>2, PreviousLemma DEF Ordered
      <3>2. ~(a < b)
        BY <1>1, <1>5, <3>1 DEF Ordered
      <3>3. a = b
        BY <1>1, <3>1, <3>2 DEF Ordered
      <3>4. a \in before
        BY <1>5, <3>1, <3>3
      <3>5. QED
        BY <1>2, <3>4
    <2>3. QED
      BY <2>1, <2>2 DEF Ordered
  <1> HIDE DEF first
  <1>6. QED
    BY <1>3, <1>4, <1>5 DEF Reached

\* Merging a fragment into the map adds its bytes, no other, and keeps the gaps.
LEMMA MergeLemma ==
    ASSUME NEW R, Ordered(R), NEW offset \in Nat, NEW end \in Nat, offset < end
    PROVE  /\ Ordered(Merge(R, offset, end))
           /\ \A o \in Int : In(Merge(R, offset, end), o)
                                <=> In(R, o) \/ (offset <= o /\ o < end)
  <1> DEFINE T == Reached(R, offset, end)
             start == Min({offset} \cup T)
             last == Max({end} \cup {R[a] : a \in T})
             M == [a \in (DOMAIN R \ T) \cup {start} |->
                      IF a = start THEN last ELSE R[a]]
  <1>1. Merge(R, offset, end) = M
    BY TouchedLemma DEF Merge
  <1>2. /\ \A a \in DOMAIN R : a \in Nat /\ R[a] \in Nat /\ a < R[a]
        /\ \A a, b \in DOMAIN R : a < b => R[a] < b
    BY DEF Ordered
  <1>3. \A a : a \in T <=> a \in DOMAIN R /\ a <= end /\ offset <= R[a]
    BY DEF Reached
  <1>4. start \in {offset} \cup T /\ \A a \in {offset} \cup T : start <= a
    <2>1. {offset} \cup T \in SUBSET Nat /\ {offset} \cup T # {}
      BY <1>2, <1>3
    <2>2. PICK m \in {offset} \cup T : \A x \in {offset} \cup T : m <= x
      BY <2>1, LeastExists
    <2>3. start = m
      <3> DEFINE S == {offset} \cup T
      <3>1. S \in SUBSET Int /\ m \in S /\ \A x \in S : m <= x
        BY <2>1, <2>2
      <3> HIDE DEF S
      <3>2. Min(S) = m
        BY <3>1, MinIs
      <3>3. QED
        BY <3>2 DEF S
    <2>4. QED
      BY <2>2, <2>3
  <1>5. /\ last = end \/ \E a \in T : last = R[a]
        /\ last >= end /\ last \in Nat /\ \A a \in T : R[a] <= last
    <2> DEFINE E == {end} \cup {R[a] : a \in T}
    <2>1. E \in SUBSET Nat
      BY <1>2, <1>3
    <2>2. PICK m \in E : \A x \in E : x <= m
      <3>1. CASE T = {}
        BY <3>1
      <3>2. CASE T # {}
        <4>1. T \in SUBSET Nat /\ \A x \in T : x <= end
          BY <1>2, <1>3
        <4>2. PICK t \in T : \A x \in T : x <= t
          BY <3>2, <4>1, GreatestExists
        <4>3. ASSUME NEW x \in T PROVE R[x] <= R[t]
          BY <1>2, <1>3, <4>2
        <4>4. CASE R[t] <= end
          <5>1. \A x \in T : R[x] <= end
            BY <1>2, <1>3, <4>2, <4>3, <4>4
          <5>2. QED
            BY <5>1
        <4>5. CASE end < R[t]
          <5>1. R[t] \in E /\ end <= R[t]
            BY <1>2, <1>3, <4>5
          <5>2. QED
            BY <4>3, <5>1
        <4>6. QED
          BY <1>2, <1>3, <4>4, <4>5
      <3>3. QED
        BY <3>1, <3>2
    <2>3. last = m
      <3>1. last = Max(E) /\ E \in SUBSET Int
        BY <2>1
      <3> HIDE DEF E, last
      <3>2. QED
        BY <2>2, <3>1, MaxIs
    <2> HIDE DEF last
    <2>4. QED
      BY <2>1, <2>2, <2>3
  <1> HIDE DEF start, last, T
  <1>6. start \in Nat /\ start <= offset /\ start < last
    BY <1>2, <1>3, <1>4, <1>5
  <1>7. start \notin DOMAIN R \ T
    BY <1>2, <1>3, <1>4
  <1>8. /\ DOMAIN M = (DOMAIN R \ T) \cup {start} /\ M[start] = last
        /\ \A a \in DOMAIN R \ T : M[a] = R[a]
    BY <1>7
  <1> HIDE DEF M
  <1>9. ASSUME NEW b \in DOMAIN R \ T, start < b PROVE last < b
    <2>1. b > end
      <3> SUFFICES ASSUME b <= end PROVE FALSE
        BY <1>2
      <3>1. R[b] < offset /\ b < offset
        BY <1>2, <1>3
      <3>2. start \in T
        BY <1>4, <1>9, <3>1, <1>2
      <3>3. R[start] < b /\ R[start] >= offset
        BY <1>2, <1>3, <1>9, <3>2
      <3>4. QED
        BY <1>2, <1>3, <3>1, <3>2, <3>3
    <2>2. ASSUME NEW a \in T PROVE R[a] < b
      BY <1>2, <1>3, <2>1
    <2>3. QED
      BY <1>2, <1>5, <2>1, <2>2
  <1>10. ASSUME NEW a \in DOMAIN R \ T, a < start PROVE R[a] < start
    <2>1. R[a] < offset
      BY <1>2, <1>3, <1>6, <1>10
    <2>2. QED
      BY <1>2, <1>3, <1>4, <1>10, <2>1
  <1>11. Ordered(M)
    <2>1. \A a \in DOMAIN M : a \in Nat /\ M[a] \in Nat /\ a < M[a]
      BY <1>2, <1>5, <1>6, <1>8
    <2>2. ASSUME NEW a \in DOMAIN M, NEW b \in DOMAIN M, a < b PROVE M[a] < b
      <3>1. CASE a = start
        BY <1>6, <1>8, <1>9, <2>2, <3>1
      <3>2. CASE b = start /\ a # start
        BY <1>8, <1>10, <2>2, <3>2
      <3>3. CASE a # start /\ b # start
        BY <1>2, <1>8, <2>2, <3>3
      <3>4. QED
        BY <3>1, <3>2, <3>3
    <2>3. QED
      BY <2>1, <2>2 DEF Ordered
  <1>12. ASSUME NEW o \in Int, In(R, o) \/ (offset <= o /\ o < end)
         PROVE  In(M, o)
    <2>1. CASE offset <= o /\ o < end
      <3>1. start <= o /\ o < last
        BY <1>5, <1>6, <2>1
      <3>2. QED
        BY <1>8, <3>1 DEF In
    <2>2. CASE In(R, o)
      <3>1. PICK a \in DOMAIN R : a <= o /\ o < R[a]
        BY <2>2 DEF In
      <3>2. CASE a \in T
        <4>1. start <= o /\ o < last
          BY <1>2, <1>4, <1>5, <1>6, <3>1, <3>2
        <4>2. QED
          BY <1>8, <4>1 DEF In
      <3>3. CASE a \notin T
        BY <1>8, <3>1, <3>3 DEF In
      <3>4. QED
        BY <3>2, <3>3
    <2>3. QED
      BY <1>12, <2>1, <2>2
  <1>13. ASSUME NEW o \in Int, In(M, o)
         PROVE  In(R, o) \/ (offset <= o /\ o < end)
    <2>1. PICK a \in DOMAIN M : a <= o /\ o < M[a]
      BY <1>13 DEF In
    <2>2. CASE a # start
      BY <1>8, <2>1, <2>2 DEF In
    <2>3. CASE a = start
      <3>1. start <= o /\ o < last
        BY <1>8, <2>1, <2>3
      <3>2. CASE o < offset
        <4>1. start \in T
          BY <1>4, <1>6, <3>1, <3>2
        <4>2. start \in DOMAIN R /\ o < R[start]
          BY <1>2, <1>3, <3>2, <4>1
        <4>3. QED
          BY <3>1, <4>2 DEF In
      <3>3. CASE o >= end
        <4>1. PICK t \in T : last = R[t]
          BY <1>5, <3>1, <3>3
        <4>2. t \in DOMAIN R /\ t <= o /\ o < R[t]
          BY <1>2, <1>3, <3>1, <3>3, <4>1
        <4>3. QED
          BY <4>2 DEF In
      <3>4. QED
        BY <3>2, <3>3
    <2>4. QED
      BY <2>2, <2>3
  <1>14. QED
    BY <1>1, <1>11, <1>12, <1>13

\* A covered span has each of its bytes.
LEMMA CoversLemma ==
    ASSUME NEW R, Ordered(R), NEW offset \in Nat, NEW len \in Nat,
           Covers(R, offset, len)
    PROVE  \A o \in offset .. (offset + len - 1) : In(R, o)
  <1> TAKE o \in offset .. (offset + len - 1)
  <1>1. len # 0
    OBVIOUS
  <1>2. PICK a \in Previous(R, offset) : offset + len <= R[a]
    BY <1>1 DEF Covers
  <1>3. a \in DOMAIN R /\ a <= offset /\ a \in Nat /\ R[a] \in Nat
    BY DEF Previous, Ordered
  <1>4. QED
    BY <1>2, <1>3 DEF In

\* And the other way: ranges leave gaps, so all its bytes lie in one.
LEMMA CoversAll ==
    ASSUME NEW R, Ordered(R), NEW offset \in Nat, NEW len \in Nat,
           \A o \in offset .. (offset + len - 1) : In(R, o)
    PROVE  Covers(R, offset, len)
  <1>1. CASE len = 0
    BY <1>1 DEF Covers
  <1>2. CASE len # 0
    <2>1. PICK a \in DOMAIN R : a <= offset /\ offset < R[a]
      BY <1>2 DEF In
    <2>2. PICK b \in Previous(R, offset) : a <= b
      BY <2>1, PreviousLemma
    <2>3. a \in Nat /\ R[a] \in Nat /\ b \in DOMAIN R /\ b \in Nat /\ b <= offset
      BY <2>1, <2>2 DEF Ordered, Previous
    <2>4. a = b
      BY <2>1, <2>2, <2>3 DEF Ordered
    <2>5. offset + len <= R[a]
      <3> SUFFICES ASSUME ~(offset + len <= R[a]) PROVE FALSE
        OBVIOUS
      <3>1. R[a] \in offset .. (offset + len - 1)
        BY <2>1, <2>3
      <3>2. PICK e \in DOMAIN R : e <= R[a] /\ R[a] < R[e]
        BY <3>1 DEF In
      <3>3. e \in Nat /\ R[e] \in Nat
        BY <3>2 DEF Ordered
      <3>4. ~(a < e) /\ a # e
        BY <2>1, <2>3, <3>2, <3>3 DEF Ordered
      <3>5. e < a /\ R[e] < a
        BY <2>1, <2>3, <3>3, <3>4 DEF Ordered
      <3>6. QED
        BY <2>1, <2>3, <3>2, <3>3, <3>5
    <2>6. QED
      BY <2>2, <2>4, <2>5 DEF Covers
  <1>3. QED
    BY <1>1, <1>2

\* A fragment that conflicts with nothing has the bytes that were received before.
LEMMA ConflictLemma ==
    ASSUME NEW p, Ordered(p.ranges), NEW offset \in Nat, NEW body \in Seq(Nat),
           body # <<>>, ~Conflicts(p, offset, body),
           NEW o \in offset .. (offset + Len(body) - 1), In(p.ranges, o)
    PROVE  p.payload[o] = body[o - offset + 1]
  <1> DEFINE end == offset + Len(body)
             R == p.ranges
  <1>1. end \in Nat /\ offset < end /\ o < end /\ offset <= o
    OBVIOUS
  <1>2. PICK a \in DOMAIN R : a <= o /\ o < R[a]
    BY DEF In
  <1>3. a \in Nat /\ R[a] \in Nat
    BY DEF Ordered
  <1>4. a \in Reached(R, offset, end)
    BY <1>1, <1>2, <1>3 DEF Reached
  <1>5. a \in Touched(R, offset, end)
    BY <1>1, <1>4, TouchedLemma
  <1>6. Max({a, offset}) <= o /\ Max({a, offset}) \in Int
    <2>1. Max({a, offset}) = IF a <= offset THEN offset ELSE a
      <3>1. a \in Int /\ offset \in Int
        BY <1>3
      <3>2. QED
        BY <3>1, PairLemma, Zenon
    <2>2. QED
      BY <1>1, <1>2, <1>3, <2>1
  <1>7. o < Min({R[a], end}) /\ Min({R[a], end}) \in Int
    BY <1>1, <1>2, <1>3, PairLemma
  <1>8. o \in Max({a, offset}) .. (Min({R[a], end}) - 1)
    BY <1>1, <1>6, <1>7
  <1>9. QED
    BY <1>5, <1>8 DEF Conflicts

-----------------------------------------------------------------------------
(* An open event *)

FrameTypes == [offset : Nat, length : Nat]

\* An open event has its fields, and its range map tells which bytes of the payload
\* were received, all within the length that its Begin record announced.
Good(p) ==
    /\ DOMAIN p = {"meta", "iso", "payload", "ranges", "copied"}
    /\ p.meta \in Metas /\ p.meta.payload_len <= MaxLength
    /\ p.iso \in Seq(FrameTypes) /\ p.copied \in Nat
    /\ p.payload \in [Offsets -> Nat \cup {Hole}]
    /\ Ordered(p.ranges)
    /\ \A o \in Offsets : p.payload[o] # Hole <=> In(p.ranges, o)
    /\ \A o \in Int : In(p.ranges, o) => o \in 0 .. (p.meta.payload_len - 1)

\* No open event is the mark of an absent one.
LEMMA GoodIsOpen ==
    ASSUME NEW p, Good(p) PROVE p # None
  <1>1. "iso" \in DOMAIN p
    BY DEF Good
  <1>2. "iso" \notin DOMAIN None
    BY DEF None
  <1>3. QED
    BY <1>1, <1>2

\* A Begin record opens an event of which nothing is received.
LEMMA BeginGood ==
    ASSUME NEW m \in Metas, m.payload_len <= MaxLength
    PROVE  Good([meta |-> m, iso |-> <<>>, payload |-> [o \in Offsets |-> Hole],
                 ranges |-> [a \in {} |-> 0], copied |-> 0])
  <1> DEFINE R == [a \in {} |-> 0]
             p == [meta |-> m, iso |-> <<>>, payload |-> [o \in Offsets |-> Hole],
                   ranges |-> R, copied |-> 0]
  <1>1. DOMAIN R = {}
    OBVIOUS
  <1>2. Ordered(R) /\ \A o : ~In(R, o)
    BY <1>1 DEF Ordered, In
  <1>3. /\ p.meta = m /\ p.iso = <<>> /\ p.copied = 0 /\ p.ranges = R
        /\ p.payload = [o \in Offsets |-> Hole]
    OBVIOUS
  <1>4. DOMAIN p = {"meta", "iso", "payload", "ranges", "copied"}
    OBVIOUS
  <1> HIDE DEF p, R
  <1>5. <<>> \in Seq(FrameTypes)
    OBVIOUS
  <1>6. QED
    BY <1>2, <1>3, <1>4, <1>5 DEF Good, p, R

\* The event q is p with one more fragment.
Filled(q, p, offset, body) ==
    /\ DOMAIN q = DOMAIN p
    /\ q.meta = p.meta /\ q.iso = p.iso /\ q.copied = p.copied + Len(body)
    /\ q.ranges = Merge(p.ranges, offset, offset + Len(body))
    /\ q.payload = [o \in Offsets |-> IF o \in offset .. (offset + Len(body) - 1)
                                      THEN body[o - offset + 1] ELSE p.payload[o]]

\* Byte by byte.
LEMMA FilledBytes ==
    ASSUME NEW p, NEW q, NEW offset, NEW body, Filled(q, p, offset, body), NEW o \in Offsets
    PROVE  q.payload[o] = IF o \in offset .. (offset + Len(body) - 1)
                          THEN body[o - offset + 1] ELSE p.payload[o]
  <1>1. q.payload = [k \in Offsets |-> IF k \in offset .. (offset + Len(body) - 1)
                                       THEN body[k - offset + 1] ELSE p.payload[k]]
    BY DEF Filled
  <1>2. QED
    BY <1>1, Zenon

\* A fragment within the announced length keeps the range map exact.
LEMMA FilledGood ==
    ASSUME NEW p, Good(p), NEW q, NEW offset \in Nat, NEW body \in Seq(Nat),
           body # <<>>, offset + Len(body) <= p.meta.payload_len,
           Filled(q, p, offset, body)
    PROVE  Good(q)
  <1> DEFINE end == offset + Len(body)
  <1>1. /\ DOMAIN q = DOMAIN p
        /\ q.meta = p.meta /\ q.iso = p.iso /\ q.copied = p.copied + Len(body)
        /\ q.ranges = Merge(p.ranges, offset, end)
        /\ q.payload = [o \in Offsets |-> IF o \in offset .. (end - 1)
                                          THEN body[o - offset + 1] ELSE p.payload[o]]
    BY DEF Filled
  <1>2. Len(body) \in Nat \ {0} /\ end \in Nat /\ offset < end /\ end - 1 \in Nat
    OBVIOUS
  <1>3. \A o \in offset .. (end - 1) : body[o - offset + 1] \in Nat
    <2> TAKE o \in offset .. (end - 1)
    <2>1. o - offset + 1 \in 1 .. Len(body)
      OBVIOUS
    <2>2. QED
      BY <2>1
  <1>4. Ordered(p.ranges) /\ p.payload \in [Offsets -> Nat \cup {Hole}]
        /\ p.copied \in Nat /\ p.meta.payload_len \in Nat
    BY DEF Good, Metas
  <1>5. /\ Ordered(q.ranges)
        /\ \A o \in Int : In(q.ranges, o) <=> In(p.ranges, o) \/ (offset <= o /\ o < end)
    <2>1. q.ranges = Merge(p.ranges, offset, end)
      BY <1>1
    <2>2. end \in Nat /\ offset < end
      BY <1>2
    <2> HIDE DEF end
    <2>3. /\ Ordered(Merge(p.ranges, offset, end))
          /\ \A o \in Int : In(Merge(p.ranges, offset, end), o)
                               <=> In(p.ranges, o) \/ (offset <= o /\ o < end)
      BY <1>4, <2>2, MergeLemma
    <2>4. QED
      BY <2>1, <2>3
  <1>6. q.payload \in [Offsets -> Nat \cup {Hole}]
    BY <1>1, <1>3, <1>4
  <1>7. ASSUME NEW o \in Offsets
        PROVE  q.payload[o] # Hole <=> In(q.ranges, o)
    <2>1. o \in Int
      BY DEF Offsets
    <2>2. CASE o \in offset .. (end - 1)
      <3>1. q.payload[o] \in Nat
        BY <1>1, <1>3, <2>2
      <3>2. offset <= o /\ o < end
        BY <1>2, <2>2
      <3>3. QED
        BY <1>5, <2>1, <3>1, <3>2, ReassemblerAssumption
    <2>3. CASE o \notin offset .. (end - 1)
      <3>1. q.payload[o] = p.payload[o]
        BY <1>1, <2>3
      <3>2. ~(offset <= o /\ o < end)
        BY <1>2, <2>1, <2>3
      <3>3. QED
        BY <1>5, <2>1, <3>1, <3>2 DEF Good
    <2>4. QED
      BY <2>2, <2>3
  <1>8. ASSUME NEW o \in Int, In(q.ranges, o)
        PROVE  o \in 0 .. (p.meta.payload_len - 1)
    <2>1. CASE In(p.ranges, o)
      BY <2>1 DEF Good
    <2>2. CASE offset <= o /\ o < end
      BY <1>2, <1>4, <2>2
    <2>3. QED
      BY <1>5, <1>8, <2>1, <2>2
  <1>9. /\ q.meta \in Metas /\ q.meta.payload_len <= MaxLength
        /\ q.iso \in Seq(FrameTypes) /\ q.copied \in Nat
        /\ DOMAIN q = {"meta", "iso", "payload", "ranges", "copied"}
    BY <1>1, <1>2, <1>4 DEF Good
  <1>10. QED
    BY <1>1, <1>5, <1>6, <1>7, <1>8, <1>9 DEF Good

\* The event q is p with one more frame descriptor.
Described(q, p, d) ==
    /\ DOMAIN q = DOMAIN p /\ q.iso = Append(p.iso, d)
    /\ q.meta = p.meta /\ q.payload = p.payload
    /\ q.ranges = p.ranges /\ q.copied = p.copied

\* A frame descriptor leaves the bytes alone.
LEMMA FrameGood ==
    ASSUME NEW p, Good(p), NEW q, NEW d \in FrameTypes, Described(q, p, d)
    PROVE  Good(q)
  <1>1. q.iso \in Seq(FrameTypes)
    BY DEF Good, Described
  <1>2. QED
    BY <1>1 DEF Good, Described

\* The end of the last frame is the end of a frame, and no frame goes beyond it.
LEMMA SpanLemma ==
    ASSUME NEW iso \in Seq(FrameTypes), NEW n \in Nat,
           \A d \in Range(iso) : d.offset + d.length <= n
    PROVE  /\ \A d \in Range(iso) : d.offset \in Nat /\ d.length \in Nat
           /\ Span(iso) \in Nat
           /\ Span(iso) # 0 => \E d \in Range(iso) :
                                  d.length # 0 /\ Span(iso) = d.offset + d.length
           /\ \A d \in Range(iso) : d.length # 0 => d.offset + d.length <= Span(iso)
  <1>1. ASSUME NEW d \in Range(iso) PROVE d.offset \in Nat /\ d.length \in Nat
    <2>1. PICK i \in DOMAIN iso : d = iso[i]
      BY DEF Range
    <2> DEFINE D == FrameTypes
    <2>2. i \in 1 .. Len(iso) /\ iso \in Seq(D)
      OBVIOUS
    <2> HIDE DEF D
    <2>3. d \in D
      BY <2>1, <2>2
    <2>4. QED
      BY <2>3 DEF D, FrameTypes
  <1> DEFINE Used == {d \in Range(iso) : d.length # 0}
             S == {0} \cup {d.offset + d.length : d \in Used}
  <1>2. S \in SUBSET Nat /\ 0 \in S /\ \A x \in S : x <= n
    BY <1>1
  <1>3. PICK m \in S : \A x \in S : x <= m
    BY <1>2, GreatestExists
  <1>4. Span(iso) = Max(S) /\ S \in SUBSET Int
    BY <1>2 DEF Span
  <1>5. Max(S) = m
    <2> HIDE DEF S
    <2> QED
      BY <1>3, <1>4, MaxIs
  <1>6. m = 0 \/ \E d \in Used : m = d.offset + d.length
    BY <1>3
  <1>7. \A d \in Range(iso) : d.length # 0 => d.offset + d.length <= m
    BY <1>3
  <1>8. QED
    BY <1>1, <1>2, <1>3, <1>4, <1>5, <1>6, <1>7

-----------------------------------------------------------------------------
(* push() *)

\* Every open event is good.
OpenInv ==
    /\ DOMAIN pending = Ids
    /\ \A id \in Ids : pending[id] = None \/ Good(pending[id])

\* The record's case of push().
LEMMA PushCases ==
    ASSUME NEW r, TypedRecord(r), Push(r)
    PROVE  \/ r.kind = "stats" /\ r.losses \in Nat /\ PushStats(r)
           \/ /\ r.kind = "begin" /\ r.id \in Ids /\ PushBegin(r)
              /\ r.meta \in Metas /\ r.meta.payload_len <= MaxLength
           \/ PushOrphan
           \/ /\ r.kind = "data" /\ r.id \in Ids /\ r.id \in Pending /\ PushData(r)
              /\ r.offset \in Nat /\ r.body \in Seq(Nat)
           \/ /\ r.kind = "iso" /\ r.id \in Ids /\ r.id \in Pending /\ PushIso(r)
              /\ r.offset \in Nat /\ r.descriptor \in FrameTypes
           \/ r.kind = "end" /\ r.id \in Ids /\ r.id \in Pending /\ PushEnd(r)
           \/ Fail
  <1>1. CASE r.kind = "malformed"
    BY <1>1 DEF Push
  <1>2. CASE r.kind = "stats" /\ r.losses \in Nat
    BY <1>2 DEF Push
  <1>3. CASE /\ r.kind = "begin" /\ r.id \in Ids
             /\ r.meta \in Metas /\ r.meta.payload_len <= MaxLength
    BY <1>3 DEF Push
  <1>4. CASE r.kind = "data" /\ r.id \in Ids /\ r.offset \in Nat /\ r.body \in Seq(Nat)
    BY <1>4 DEF Push
  <1>5. CASE /\ r.kind = "iso" /\ r.id \in Ids
             /\ r.offset \in Nat /\ r.descriptor \in [offset : Nat, length : Nat]
    BY <1>5 DEF Push, FrameTypes
  <1>6. CASE r.kind = "end" /\ r.id \in Ids
    BY <1>6 DEF Push
  <1>7. QED
    BY <1>1, <1>2, <1>3, <1>4, <1>5, <1>6 DEF TypedRecord

\* What an accepted fragment makes of its event.
LEMMA DataStep ==
    ASSUME OpenInv, NEW r, r.id \in Ids, r.id \in Pending, PushData(r),
           r.offset \in Nat, r.body \in Seq(Nat), ~Fail
    PROVE  /\ DOMAIN pending' = Ids
           /\ Filled(pending'[r.id], pending[r.id], r.offset, r.body)
           /\ \A id \in Ids : id # r.id => pending'[id] = pending[id]
           /\ r.body # <<>> /\ ~Conflicts(pending[r.id], r.offset, r.body)
           /\ r.offset + Len(r.body) <= pending[r.id].meta.payload_len
           /\ UNCHANGED <<reassembly, delivered, failed, begun>>
  <1> DEFINE p == pending[r.id]
             end == r.offset + Len(r.body)
             bytes == [o \in Offsets |-> IF o \in r.offset .. (end - 1)
                                         THEN r.body[o - r.offset + 1] ELSE p.payload[o]]
  <1>1. /\ r.body # <<>> /\ ~(end > p.meta.payload_len)
        /\ ~Conflicts(p, r.offset, r.body)
        /\ pending' = [pending EXCEPT ![r.id] =
              [p EXCEPT !.ranges = Merge(p.ranges, r.offset, end), !.payload = bytes,
                        !.copied = p.copied + Len(r.body)]]
        /\ UNCHANGED <<reassembly, delivered, failed, begun>>
    BY DEF PushData
  <1>2. Good(p)
    BY DEF OpenInv, Pending
  <1>3. /\ DOMAIN pending' = Ids
        /\ \A id \in Ids : id # r.id => pending'[id] = pending[id]
    BY <1>1 DEF OpenInv
  <1>4. DOMAIN p = {"meta", "iso", "payload", "ranges", "copied"}
    BY <1>2 DEF Good
  <1>5. Filled(pending'[r.id], p, r.offset, r.body)
    <2> DEFINE ranges == Merge(p.ranges, r.offset, end)
               copied == p.copied + Len(r.body)
               p1 == [p EXCEPT !.ranges = ranges]
               p2 == [p1 EXCEPT !.payload = bytes]
               p3 == [p2 EXCEPT !.copied = copied]
    <2>1. pending'[r.id] = [p EXCEPT !.ranges = ranges, !.payload = bytes,
                                     !.copied = copied]
      BY <1>1 DEF OpenInv
    <2>2. pending'[r.id] = p3
      BY <2>1, Zenon
    <2> HIDE DEF bytes, copied, ranges
    <2>3. /\ DOMAIN p1 = DOMAIN p /\ p1.ranges = ranges /\ p1.meta = p.meta
          /\ p1.iso = p.iso /\ p1.payload = p.payload /\ p1.copied = p.copied
      BY <1>4
    <2> HIDE DEF p1
    <2>4. /\ DOMAIN p2 = DOMAIN p /\ p2.ranges = ranges /\ p2.meta = p.meta
          /\ p2.iso = p.iso /\ p2.payload = bytes /\ p2.copied = p.copied
      BY <1>4, <2>3
    <2> HIDE DEF p2
    <2>5. /\ DOMAIN p3 = DOMAIN p /\ p3.ranges = ranges /\ p3.meta = p.meta
          /\ p3.iso = p.iso /\ p3.payload = bytes /\ p3.copied = copied
      BY <1>4, <2>4
    <2> HIDE DEF p3
    <2>6. QED
      BY <2>2, <2>5 DEF Filled, bytes, copied, ranges
  <1>6. end <= p.meta.payload_len
    <2>1. p.meta.payload_len \in Nat /\ end \in Nat
      BY <1>2 DEF Good, Metas
    <2>2. ~(end > p.meta.payload_len)
      BY <1>1
    <2>3. QED
      BY <2>1, <2>2
  <1>7. QED
    BY <1>1, <1>3, <1>5, <1>6

\* What an accepted descriptor makes of its event.
LEMMA IsoStep ==
    ASSUME OpenInv, NEW r, r.id \in Ids, r.id \in Pending, PushIso(r),
           r.offset \in Nat, r.descriptor \in FrameTypes, ~Fail
    PROVE  /\ DOMAIN pending' = Ids
           /\ Described(pending'[r.id], pending[r.id], r.descriptor)
           /\ \A id \in Ids : id # r.id => pending'[id] = pending[id]
           /\ UNCHANGED <<reassembly, delivered, failed, begun>>
  <1> DEFINE p == pending[r.id]
  <1>1. /\ pending' = [pending EXCEPT ![r.id].iso = Append(@, r.descriptor)]
        /\ UNCHANGED <<reassembly, delivered, failed, begun>>
    BY DEF PushIso
  <1>2. Good(p)
    BY DEF OpenInv, Pending
  <1>3. DOMAIN p = {"meta", "iso", "payload", "ranges", "copied"}
    BY <1>2 DEF Good
  <1>4. QED
    BY <1>1, <1>3 DEF OpenInv, Described

\* Every record leaves every open event good.
LEMMA OpenLemma ==
    ASSUME OpenInv, NEW r, TypedRecord(r), Push(r)
    PROVE  OpenInv'
  <1>o. ASSUME NEW id \in Ids, DOMAIN pending' = Ids,
               \A i \in Ids : i # id => pending'[i] = pending[i],
               pending'[id] = None \/ Good(pending'[id])
        PROVE  OpenInv'
    BY <1>o DEF OpenInv
  <1>1. CASE pending' = pending
    BY <1>1 DEF OpenInv
  <1>2. CASE /\ r.kind = "begin" /\ r.id \in Ids /\ PushBegin(r) /\ ~Fail
             /\ r.meta \in Metas /\ r.meta.payload_len <= MaxLength
    <2> DEFINE new == [meta |-> r.meta, iso |-> <<>>,
                       payload |-> [o \in Offsets |-> Hole],
                       ranges |-> [a \in {} |-> 0], copied |-> 0]
    <2>1. pending' = [pending EXCEPT ![r.id] = new]
      BY <1>2 DEF PushBegin
    <2>2. Good(new)
      BY <1>2, BeginGood
    <2> HIDE DEF new
    <2>3. /\ DOMAIN pending' = Ids /\ pending'[r.id] = new
          /\ \A i \in Ids : i # r.id => pending'[i] = pending[i]
      BY <1>2, <2>1 DEF OpenInv
    <2>4. QED
      BY <1>2, <1>o, <2>2, <2>3
  <1>3. CASE /\ r.kind = "data" /\ r.id \in Ids /\ r.id \in Pending /\ PushData(r)
             /\ r.offset \in Nat /\ r.body \in Seq(Nat) /\ ~Fail
    <2>1. Good(pending[r.id])
      BY <1>3 DEF OpenInv, Pending
    <2>2. /\ DOMAIN pending' = Ids
          /\ Filled(pending'[r.id], pending[r.id], r.offset, r.body)
          /\ \A id \in Ids : id # r.id => pending'[id] = pending[id]
          /\ r.body # <<>> /\ r.offset + Len(r.body) <= pending[r.id].meta.payload_len
      BY <1>3, DataStep
    <2>3. Good(pending'[r.id])
      BY <1>3, <2>1, <2>2, FilledGood
    <2>4. QED
      BY <1>3, <1>o, <2>2, <2>3
  <1>4. CASE /\ r.kind = "iso" /\ r.id \in Ids /\ r.id \in Pending /\ PushIso(r)
             /\ r.offset \in Nat /\ r.descriptor \in FrameTypes /\ ~Fail
    <2>1. Good(pending[r.id])
      BY <1>4 DEF OpenInv, Pending
    <2>2. /\ DOMAIN pending' = Ids
          /\ \A id \in Ids : id # r.id => pending'[id] = pending[id]
          /\ Described(pending'[r.id], pending[r.id], r.descriptor)
      BY <1>4, IsoStep
    <2>3. Good(pending'[r.id])
      BY <1>4, <2>1, <2>2, FrameGood
    <2>4. QED
      BY <1>4, <1>o, <2>2, <2>3
  <1>5. CASE r.kind = "end" /\ r.id \in Ids /\ PushEnd(r)
    <2>1. pending' = [pending EXCEPT ![r.id] = None]
      BY <1>5 DEF PushEnd
    <2>2. /\ DOMAIN pending' = Ids /\ pending'[r.id] = None
          /\ \A i \in Ids : i # r.id => pending'[i] = pending[i]
      BY <1>5, <2>1 DEF OpenInv
    <2>3. QED
      BY <1>5, <1>o, <2>2
  <1>6. QED
    BY <1>1, <1>2, <1>3, <1>4, <1>5, PushCases DEF PushStats, PushOrphan, Fail

-----------------------------------------------------------------------------
(* The counters *)

CounterNames == {"complete", "incomplete", "orphan_records", "kernel_losses"}

CounterTypes ==
    /\ reassembly \in [CounterNames -> Nat] /\ failed \in BOOLEAN /\ begun \in Nat
    /\ IsFiniteSet(Pending)

\* The events that began and are neither counted nor open.
Missing == begun - reassembly.complete - reassembly.incomplete - Cardinality(Pending)

\* Every record keeps the balance, unless it ends the run.
LEMMA BalanceLemma ==
    ASSUME OpenInv, CounterTypes, NEW r, TypedRecord(r), Push(r)
    PROVE  /\ CounterTypes'
           /\ failed' => reassembly'.complete = reassembly.complete
           /\ ~failed' => Missing' = Missing
  <1>a. /\ reassembly.complete \in Nat /\ reassembly.incomplete \in Nat
        /\ begun \in Nat /\ Cardinality(Pending) \in Nat /\ ~failed
    BY FS_CardinalityType DEF CounterTypes, CounterNames, Push
  <1>1. CASE Fail
    BY <1>1 DEF Fail, CounterTypes, Pending
  <1>2. CASE /\ Pending' = Pending /\ begun' = begun /\ failed' = failed
             /\ reassembly' \in [CounterNames -> Nat]
             /\ reassembly'.complete = reassembly.complete
             /\ reassembly'.incomplete = reassembly.incomplete
    BY <1>2 DEF CounterTypes, Missing
  <1>3. CASE r.kind = "stats" /\ r.losses \in Nat /\ PushStats(r)
    <2>1. /\ Pending' = Pending /\ begun' = begun /\ failed' = failed
          /\ reassembly' = [reassembly EXCEPT !.kernel_losses = @ + r.losses]
      BY <1>3 DEF PushStats, Pending
    <2>2. QED
      BY <1>2, <1>3, <2>1 DEF CounterTypes, CounterNames
  <1>4. CASE PushOrphan
    <2>1. /\ Pending' = Pending /\ begun' = begun /\ failed' = failed
          /\ reassembly' = [reassembly EXCEPT !.orphan_records = @ + 1]
      BY <1>4 DEF PushOrphan, Pending
    <2>2. QED
      BY <1>2, <2>1 DEF CounterTypes, CounterNames
  <1>5. CASE /\ r.kind = "begin" /\ r.id \in Ids /\ PushBegin(r) /\ ~Fail
             /\ r.meta \in Metas /\ r.meta.payload_len <= MaxLength
    <2> DEFINE new == [meta |-> r.meta, iso |-> <<>>,
                       payload |-> [o \in Offsets |-> Hole],
                       ranges |-> [a \in {} |-> 0], copied |-> 0]
    <2>1. /\ pending' = [pending EXCEPT ![r.id] = new] /\ r.id \notin Pending
          /\ begun' = begun + 1 /\ failed' = failed /\ reassembly' = reassembly
      BY <1>5 DEF PushBegin, BeginRejected
    <2>2. new # None
      BY <1>5, BeginGood, GoodIsOpen
    <2> HIDE DEF new
    <2>3. Pending' = Pending \cup {r.id}
      BY <1>5, <2>1, <2>2 DEF Pending, OpenInv
    <2>4. IsFiniteSet(Pending') /\ Cardinality(Pending') = Cardinality(Pending) + 1
      BY <2>1, <2>3, FS_AddElement DEF CounterTypes
    <2>5. QED
      BY <1>a, <2>1, <2>4 DEF CounterTypes, Missing
  <1>6. CASE /\ r.kind = "data" /\ r.id \in Ids /\ r.id \in Pending /\ PushData(r)
             /\ r.offset \in Nat /\ r.body \in Seq(Nat) /\ ~Fail
    <2>1. /\ UNCHANGED <<reassembly, failed, begun>>
          /\ \A id \in Ids : id # r.id => pending'[id] = pending[id]
      BY <1>6, DataStep
    <2>2. pending'[r.id] # None
      <3>1. Good(pending[r.id])
        BY <1>6 DEF OpenInv, Pending
      <3>2. Good(pending'[r.id])
        BY <1>6, <3>1, DataStep, FilledGood
      <3>3. QED
        BY <3>2, GoodIsOpen
    <2>3. Pending' = Pending
      BY <1>6, <2>1, <2>2 DEF Pending
    <2>4. QED
      BY <1>2, <2>1, <2>3 DEF CounterTypes
  <1>7. CASE /\ r.kind = "iso" /\ r.id \in Ids /\ r.id \in Pending /\ PushIso(r)
             /\ r.offset \in Nat /\ r.descriptor \in FrameTypes /\ ~Fail
    <2>1. /\ UNCHANGED <<reassembly, failed, begun>>
          /\ \A id \in Ids : id # r.id => pending'[id] = pending[id]
      BY <1>7, IsoStep
    <2>2. pending'[r.id] # None
      <3>1. Good(pending[r.id])
        BY <1>7 DEF OpenInv, Pending
      <3>2. Good(pending'[r.id])
        BY <1>7, <3>1, IsoStep, FrameGood
      <3>3. QED
        BY <3>2, GoodIsOpen
    <2>3. Pending' = Pending
      BY <1>7, <2>1, <2>2 DEF Pending
    <2>4. QED
      BY <1>2, <2>1, <2>3 DEF CounterTypes
  <1>8. CASE r.kind = "end" /\ r.id \in Ids /\ r.id \in Pending /\ PushEnd(r)
    <2>1. pending' = [pending EXCEPT ![r.id] = None] /\ begun' = begun
      BY <1>8 DEF PushEnd
    <2>2. Pending' = Pending \ {r.id}
      BY <1>8, <2>1 DEF Pending, OpenInv
    <2>3. IsFiniteSet(Pending') /\ Cardinality(Pending') = Cardinality(Pending) - 1
      BY <1>8, <2>2, FS_RemoveElement DEF CounterTypes
    <2>4. \/ failed' = TRUE /\ reassembly' = reassembly
          \/ /\ failed' = failed
             /\ \/ reassembly' = [reassembly EXCEPT !.complete = @ + 1]
                \/ reassembly' = [reassembly EXCEPT !.incomplete = @ + 1]
      BY <1>8 DEF PushEnd, CountIncomplete
    <2>5. CASE failed' = TRUE /\ reassembly' = reassembly
      BY <2>1, <2>3, <2>5 DEF CounterTypes
    <2>6. CASE failed' = failed /\ reassembly' = [reassembly EXCEPT !.complete = @ + 1]
      <3>1. /\ reassembly' \in [CounterNames -> Nat]
            /\ reassembly'.complete = reassembly.complete + 1
            /\ reassembly'.incomplete = reassembly.incomplete
        BY <2>6 DEF CounterTypes, CounterNames
      <3>2. QED
        BY <1>a, <2>1, <2>3, <2>6, <3>1 DEF CounterTypes, Missing
    <2>7. CASE failed' = failed /\ reassembly' = [reassembly EXCEPT !.incomplete = @ + 1]
      <3>1. /\ reassembly' \in [CounterNames -> Nat]
            /\ reassembly'.complete = reassembly.complete
            /\ reassembly'.incomplete = reassembly.incomplete + 1
        BY <2>7 DEF CounterTypes, CounterNames
      <3>2. QED
        BY <1>a, <2>1, <2>3, <2>7, <3>1 DEF CounterTypes, Missing
    <2>8. QED
      BY <2>4, <2>5, <2>6, <2>7
  <1>9. QED
    BY <1>1, <1>3, <1>4, <1>5, <1>6, <1>7, <1>8, PushCases

\* When nothing is open any more.
LEMMA ClearedLemma ==
    ASSUME pending' = [id \in Ids |-> None]
    PROVE  OpenInv' /\ Pending' = {} /\ IsFiniteSet(Pending') /\ Cardinality(Pending') = 0
  <1>1. OpenInv' /\ Pending' = {}
    BY DEF OpenInv, Pending
  <1>2. QED
    BY <1>1, FS_EmptySet

=============================================================================
