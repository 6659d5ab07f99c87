---------------------------- MODULE FilterParser ----------------------------
(***************************************************************************)
(* The recursive-descent parser of filter expressions                      *)
(* (crates/usbscope-capture/src/filter.rs), from tokens to the tree that    *)
(* Filter evaluates.                                                        *)
(*                                                                         *)
(* A token is what tokenize() finds: its text, whether it was quoted, and   *)
(* what number() and duration() make of it: the number it spells, the unit  *)
(* behind the number, the bytes that it spells as a payload pattern.  A     *)
(* parsing function returns a failure, or the node and the position behind  *)
(* it.                                                                      *)
(***************************************************************************)
EXTENDS Integers, Sequences, SequencesExt

CONSTANTS
    MaxDepth,       \* 128: the deepest nesting
    AllOnes         \* u64::MAX: 2^w - 1

Failure == [ok |-> FALSE]
Success(node, at) == [ok |-> TRUE, node |-> node, at |-> at]

-----------------------------------------------------------------------------
(* Tokens *)

EndOfFilter == "end of filter"
Peek(ts, at) == IF at <= Len(ts) THEN ts[at].text ELSE EndOfFilter

\* number(), from i64::MIN to u64::MAX, as an optional value.
Number(ts, at) ==
    IF /\ at <= Len(ts) /\ ts[at].unit = <<>> /\ ts[at].number # <<>>
       /\ ts[at].number[1] \in (-((AllOnes + 1) \div 2)) .. AllOnes
    THEN ts[at].number ELSE <<>>

\* A number that must fit into u64: a mask, an offset.
Unsigned(ts, at) == SelectSeq(Number(ts, at), LAMBDA n : n >= 0)

\* duration(): the number before the unit is checked, the product is not.
Duration(ts, at) ==
    IF at <= Len(ts) /\ ts[at].unit # <<>>
    THEN LET n == Number([ts EXCEPT ![at].unit = <<>>], at)
         IN  [i \in DOMAIN n |-> n[i] * ts[at].unit[1]]
    ELSE Number(ts, at)

-----------------------------------------------------------------------------
(* Predicates.  Of fields that are parsed alike, one stands for several. *)

FieldNames ==
    [bus |-> "bus", dev |-> "device", device |-> "device", vid |-> "vid",
     ep |-> "endpoint", endpoint |-> "endpoint", epnum |-> "epnum",
     dir |-> "direction", direction |-> "direction", type |-> "transfer",
     requested |-> "requested", actual |-> "actual", len |-> "length",
     length |-> "length", frames |-> "frames", status |-> "status",
     event |-> "event", latency |-> "latency"]

Shorthands ==
    [in |-> <<"direction", 1>>, out |-> <<"direction", 0>>,
     iso |-> <<"transfer", 0>>, isoc |-> <<"transfer", 0>>,
     interrupt |-> <<"transfer", 1>>, intr |-> <<"transfer", 1>>,
     control |-> <<"transfer", 2>>, ctrl |-> <<"transfer", 2>>,
     bulk |-> <<"transfer", 3>>]

EventCode == [S |-> 83, C |-> 67, E |-> 69]

ValueNames ==
    [direction |-> [in |-> 1, out |-> 0],
     transfer |-> [iso |-> 0, isoc |-> 0, interrupt |-> 1, intr |-> 1,
                   control |-> 2, ctrl |-> 2, bulk |-> 3],
     event |-> EventCode @@ [submit |-> 83, complete |-> 67, error |-> 69]]

Comparisons ==
    "=" :> "Eq" @@ "==" :> "Eq" @@ "!=" :> "Ne" @@ "<" :> "Lt" @@ "<=" :> "Le"
    @@ ">" :> "Gt" @@ ">=" :> "Ge"

\* The value that a field is compared with: a name of this field, a duration, or
\* a number.
FieldValue(ts, at, field) ==
    IF field \in DOMAIN ValueNames /\ Peek(ts, at) \in DOMAIN ValueNames[field]
    THEN <<ValueNames[field][Peek(ts, at)]>>
    ELSE IF field = "latency" THEN Duration(ts, at) ELSE Number(ts, at)

Test(field, mask, comparison, value) ==
    [op |-> "predicate", p |-> [field |-> field[1], offset |-> field[2], size |-> field[3],
                                mask |-> mask, comparison |-> comparison, value |-> value]]

\* What follows a field: [& mask] [comparison] value.
ParseTest(ts, at, field) ==
    LET masked == Peek(ts, at) = "&"
        mask == IF masked THEN Unsigned(ts, at + 1) ELSE <<>>
        sign == IF masked THEN at + 2 ELSE at
        signed == Peek(ts, sign) \in DOMAIN Comparisons
        last == IF signed THEN sign + 1 ELSE sign
        value == FieldValue(ts, last, field[1])
    IN  IF (masked /\ mask = <<>>) \/ value = <<>> THEN Failure
        ELSE Success(Test(field, mask, IF signed THEN Comparisons[Peek(ts, sign)] ELSE "Eq",
                          value[1]), last + 1)

\* What follows payload: contains pattern, or [offset] or [offset:size] and a test.
ParsePayload(ts, at) ==
    LET sized == Peek(ts, at + 2) = ":"
        offset == Unsigned(ts, at + 1)
        size == IF sized THEN Unsigned(ts, at + 3) ELSE <<1>>
        last == IF sized THEN at + 4 ELSE at + 2
    IN  IF Peek(ts, at) = "contains"
        THEN IF at < Len(ts) /\ ts[at + 1].bytes # <<>>
             THEN Success([op |-> "contains", needle |-> ts[at + 1].bytes], at + 2)
             ELSE Failure
        ELSE IF /\ Peek(ts, at) = "[" /\ Peek(ts, last) = "]"
                /\ offset # <<>> /\ size \in {<<1>>, <<2>>, <<4>>, <<8>>}
        THEN ParseTest(ts, last + 1, <<"payload", offset[1], size[1]>>)
        ELSE Failure

\* predicate()
ParsePredicate(ts, at) ==
    LET name == Peek(ts, at) IN
    IF name \in DOMAIN Shorthands
    THEN Success(Test(<<Shorthands[name][1], 0, 1>>, <<>>, "Eq", Shorthands[name][2]), at + 1)
    ELSE IF name = "payload" THEN ParsePayload(ts, at + 1)
    ELSE IF name \in DOMAIN FieldNames
    THEN ParseTest(ts, at + 1, <<FieldNames[name], 0, 1>>)
    ELSE Failure

-----------------------------------------------------------------------------
(* Operators *)

\* Mutant of Pair: an odd operand at the end is dropped.
MutantPair(row, conj) ==
    [i \in 1 .. (Len(row) \div 2) |->
        [op |-> IF conj THEN "and" ELSE "or", a |-> row[2 * i - 1], b |-> row[2 * i]]]

\* One round of balanced(): neighbours are joined two by two.
Pair(row, conj) ==
    [i \in 1 .. ((Len(row) + 1) \div 2) |->
        IF 2 * i <= Len(row)
        THEN [op |-> IF conj THEN "and" ELSE "or", a |-> row[2 * i - 1], b |-> row[2 * i]]
        ELSE row[2 * i - 1]]

RECURSIVE Balanced(_, _)
Balanced(row, conj) ==
    IF Len(row) > 1 THEN Balanced(Pair(row, conj), conj) ELSE row[1]

\* Mutant of EndsConjunction: a closing parenthesis is taken for an operand.
MutantEndsConjunction == {EndOfFilter, "or", "||"}

\* and() goes on until it meets one of these: "and" may be left out.
EndsConjunction == {EndOfFilter, ")", "or", "||"}

\* expect(")") behind what or() has returned.
Closed(ts, inner) ==
    IF inner.ok /\ Peek(ts, inner.at) = ")" THEN Success(inner.node, inner.at + 1) ELSE Failure

Negated(operand) ==
    IF operand.ok THEN Success([op |-> "not", a |-> operand.node], operand.at) ELSE Failure

RECURSIVE ParseOr(_, _, _), ParseUnary(_, _, _), AndRest(_, _, _, _), OrRest(_, _, _, _)

\* unary(), entered at some depth.
ParseUnary(ts, at, depth) ==
    CASE depth >= MaxDepth -> Failure
      [] depth < MaxDepth /\ Peek(ts, at) \in {"not", "!"} ->
            Negated(ParseUnary(ts, at + 1, depth + 1))
      [] depth < MaxDepth /\ Peek(ts, at) = "(" ->
            Closed(ts, ParseOr(ts, at + 1, depth + 1))
      [] depth < MaxDepth /\ Peek(ts, at) \notin {"not", "!", "("} ->
            ParsePredicate(ts, at)

\* and(), once it has one more operand, or none.
AndRest(ts, depth, nodes, operand) ==
    IF ~operand.ok THEN Failure
    ELSE LET found == Append(nodes, operand.node)
             next == IF Peek(ts, operand.at) \in {"and", "&&"} THEN operand.at + 1
                     ELSE operand.at
         IN  IF Peek(ts, operand.at) \in EndsConjunction
             THEN Success(Balanced(found, TRUE), operand.at)
             ELSE AndRest(ts, depth, found, ParseUnary(ts, next, depth))

ParseAnd(ts, at, depth) == AndRest(ts, depth, <<>>, ParseUnary(ts, at, depth))

\* or(), once it has one more operand, or none.
OrRest(ts, depth, nodes, operand) ==
    IF ~operand.ok THEN Failure
    ELSE LET found == Append(nodes, operand.node)
         IN  IF Peek(ts, operand.at) \in {"or", "||"}
             THEN OrRest(ts, depth, found, ParseAnd(ts, operand.at + 1, depth))
             ELSE Success(Balanced(found, FALSE), operand.at)

ParseOr(ts, at, depth) == OrRest(ts, depth, <<>>, ParseAnd(ts, at, depth))

\* Filter::parse: all tokens must have been used.
Parse(ts) ==
    LET whole == ParseOr(ts, 1, 0)
    IN  IF ts = <<>> THEN Success([op |-> "all"], 1)
        ELSE IF whole.ok /\ whole.at = Len(ts) + 1 THEN whole ELSE Failure

=============================================================================
