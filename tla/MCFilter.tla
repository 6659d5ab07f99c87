------------------------------ MODULE MCFilter ------------------------------
(* Expressions and URBs for Filter: every comparison, a mask, a negative value, *)
(* fields that the kernel can test and fields that it must not, fields that an  *)
(* event may lack.                                                              *)
EXTENDS Filter

-----------------------------------------------------------------------------
(* Tokens *)

Word(w) == [text |-> w, quoted |-> FALSE, number |-> <<>>, unit |-> <<>>, bytes |-> <<>>]
Num(n) == [Word("number") EXCEPT !.number = <<n>>]
Time(n, unit) == [Word("time") EXCEPT !.number = <<n>>, !.unit = <<unit>>]
Quoted(bytes) == [Word("quoted") EXCEPT !.quoted = TRUE, !.bytes = bytes]

-----------------------------------------------------------------------------
(* Sentences: tokens with their derivation *)

Sentence(tokens, derivation) == [tokens |-> tokens, derivation |-> <<derivation>>]

\* A field, a mask, a comparison and a value, as written and as meant.
P(field, mask, sign, value) ==
    Sentence(<<Word(field)>> \o (IF mask = <<>> THEN <<>> ELSE <<Word("&"), Num(mask[1])>>)
             \o (IF sign = "" THEN <<>> ELSE <<Word(sign)>>) \o <<Num(value)>>,
             Test(<<FieldNames[field], 0, 1>>, mask,
                  IF sign = "" THEN "Eq" ELSE Comparisons[sign], value))

PayloadTest ==
    {Sentence(<<Word("payload"), Word("["), Num(0), Word("]"), Word("="), Num(7)>>,
              Test(<<"payload", 0, 1>>, <<>>, "Eq", 7)),
     Sentence(<<Word("payload"), Word("["), Num(1), Word(":"), Num(2), Word("]"), Word("&"),
                Num(255), Word(">="), Num(8)>>,
              Test(<<"payload", 1, 2>>, <<255>>, "Ge", 8))}

Search == Sentence(<<Word("payload"), Word("contains"), Quoted(<<7, 8>>)>>,
                     [op |-> "contains", needle |-> <<7, 8>>])
Slow == Sentence(<<Word("latency"), Word("<="), Time(1, 2)>>,
                 Test(<<"latency", 0, 1>>, <<>>, "Le", 2))
In == Sentence(<<Word("in")>>, Test(<<"direction", 0, 1>>, <<>>, "Eq", 1))

Negate(s, word) == Sentence(<<Word(word)>> \o s.tokens, [op |-> "not", a |-> s.derivation[1]])
Paren(s) == Sentence(<<Word("(")>> \o s.tokens \o <<Word(")")>>,
                     [op |-> "paren", a |-> s.derivation[1]])

\* s and t joined by words that stand for an operator.
Join(op, words, s, t) ==
    LET left == s.derivation[1]
    IN  Sentence(s.tokens \o words \o t.tokens,
                 IF left.op = op
                 THEN [op |-> op, xs |-> Append(left.xs, t.derivation[1])]
                 ELSE [op |-> op, xs |-> <<left, t.derivation[1]>>])

Leaves ==
    {P("bus", <<>>, sign, 1) : sign \in {"", "<", ">="}} \cup
    {P("ep", <<128>>, "==", 0), P("requested", <<>>, ">", -1),
     P("vid", <<>>, "!=", 0), P("status", <<>>, "", 0), Slow, Search}

FewLeaves == {P("bus", <<>>, "", 1), P("status", <<>>, "", 0), Slow, In}

Joined(op, words, ss, ts) == {Join(op, words, s, t) : s \in ss, t \in ts}

\* ( a op b ) op c and not ( a op b ) op c.
DeepTexts ==
    LET inner == {Paren(s) : s \in Joined("and", <<Word("and")>>, Leaves, Leaves)
                                    \cup Joined("or", <<Word("||")>>, Leaves, Leaves)}
        outer == inner \cup {Negate(s, "not") : s \in inner}
    IN  Joined("and", <<>>, outer, FewLeaves) \cup Joined("or", <<Word("or")>>, outer, FewLeaves)

\* Every field, and flat lists of up to five operands.
OtherLeaves ==
    {P("bus", <<>>, "<=", 1), P("bus", <<>>, ">", 1), P("epnum", <<>>, "=", 2),
     P("type", <<>>, "!=", 0), P("frames", <<>>, ">=", 1), P("dev", <<2>>, "", 2),
     P("len", <<>>, ">=", 2), P("actual", <<>>, "<", 2), P("status", <<15>>, "", 0),
     Sentence(<<Word("event"), Word("complete")>>, Test(<<"event", 0, 1>>, <<>>, "Eq", 67)),
     Sentence(<<Word("bulk")>>, Test(<<"transfer", 0, 1>>, <<>>, "Eq", 3))}
    \cup PayloadTest

FlatTexts ==
    LET all == Leaves \cup OtherLeaves \cup {Negate(s, "!") : s \in OtherLeaves}
        some == {P("bus", <<>>, "", 1), Negate(P("actual", <<>>, "<", 2), "not")}
        three(op, words) == Joined(op, words, Joined(op, words, some, some), all)
        five(op, words) == Joined(op, words, Joined(op, words, three(op, words), some), some)
    IN  {Sentence(<<>>, [op |-> "all"])} \cup all
        \cup UNION {three(op, <<Word(op)>>) \cup five(op, <<Word(op)>>) : op \in {"and", "or"}}

-----------------------------------------------------------------------------
(* All sequences over a small alphabet, sentences or not *)

Alphabet == {Word(w) : w \in {"(", ")", "not", "and", "or", "in", "dir", "&"}} \cup {Num(1)}
MaxLength == 5

CoreLeaves ==
    {In, Sentence(<<Word("dir"), Word("in")>>, In.derivation[1]), P("dir", <<>>, "", 1),
     P("dir", <<1>>, "", 1),
     Sentence(<<Word("dir"), Word("&"), Num(1), Word("in")>>,
              Test(<<"direction", 0, 1>>, <<1>>, "Eq", 1))}

\* The sentences of n tokens, by the operator they may be operands of, given the
\* shorter ones.
Longer(g, n) ==
    LET unary == {s \in CoreLeaves : Len(s.tokens) = n}
                 \cup (IF n < 2 THEN {} ELSE {Negate(s, "not") : s \in g[n - 1].unary})
                 \cup (IF n < 3 THEN {} ELSE {Paren(s) : s \in g[n - 2].or})
        and == unary
               \cup UNION {Joined("and", <<>>, g[k].and, g[n - k].unary) : k \in 1 .. (n - 1)}
               \cup UNION {Joined("and", <<Word("and")>>, g[k].and, g[n - k - 1].unary) :
                              k \in 1 .. (n - 2)}
        or == and
              \cup UNION {Joined("or", <<Word("or")>>, g[k].or, g[n - k - 1].and) :
                             k \in 1 .. (n - 2)}
    IN  Append(g, [unary |-> unary, and |-> and, or |-> or])

Grammar == FoldLeft(Longer, <<>>, [n \in 1 .. MaxLength |-> n])

Sentences == UNION {Grammar[n].or : n \in 1 .. MaxLength}
SentenceTokens == {s.tokens : s \in Sentences}

NoSentence(tokens) == [tokens |-> tokens, derivation |-> <<>>]

OtherSequences(n) ==
    {NoSentence(ts) : ts \in [1 .. n -> Alphabet] \ SentenceTokens}

\* Values out of range, units and patterns where none belong.
BadTexts ==
    {NoSentence(ts) : ts \in
        {<<Word("bus"), Num(256)>>, <<Word("bus"), Num(-129)>>, <<Word("bus"), Time(1, 2)>>,
         <<Word("bus"), Word("&"), Num(-1), Num(0)>>, <<Word("latency"), Time(256, 2)>>,
         <<Word("payload"), Word("contains"), Word("in")>>, <<Word("payload"), Num(1)>>,
         <<Word("payload"), Word("["), Num(0), Word(":"), Num(3), Word("]"), Num(1)>>,
         <<Word("payload"), Word("["), Num(-1), Word("]"), Num(1)>>, <<Word("number")>>}}

AllTexts ==
    {DeepTexts, FlatTexts, Sentences, BadTexts}
    \cup {OtherSequences(n) : n \in 1 .. MaxLength}

-----------------------------------------------------------------------------
(* URBs and their outcomes *)

Fields(bus, device, vid, endpoint, transfer, requested, iso, payload) ==
    [bus |-> bus, device |-> device, vid |-> vid, endpoint |-> endpoint,
     transfer |-> transfer, requested |-> requested, iso |-> iso, payload |-> payload]

SomeUrbs ==
    {Fields(1, 3, 0, 130, 3, 4, <<>>, <<>>),                          \* bulk in
     Fields(0, 5, 7, 2, 3, 3, <<>>, <<9, 7, 8>>),                     \* bulk out
     Fields(2, 2, 7, 129, 0, 0,
            <<[offset |-> 0, length |-> 1], [offset |-> 1, length |-> 2]>>, <<>>)}

Outcome(type, status, actual, payload, time) ==
    [event_type |-> type, status |-> status, actual |-> actual,
     payload |-> payload, latency |-> <<time>>]

SomeOutcomes ==
    {Outcome("C", 0, 2, <<9, 7, 8>>, 1), Outcome("C", 0, 3, <<7, 8, 9>>, 4),
     Outcome("C", -32, 0, <<>>, 1), Outcome("E", -19, 0, <<>>, 0)}

SomeDevices == {<<>>, <<5>>}

=============================================================================
