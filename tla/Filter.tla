------------------------------- MODULE Filter -------------------------------
(***************************************************************************)
(* Capture filters (crates/usbscope-capture/src/filter.rs): the expression  *)
(* is evaluated in userspace, in three-valued logic, on every complete      *)
(* event; the predicates that it cannot be true without are pushed into the *)
(* kernel, where the submit probe (usbscope-ebpf) ignores an URB that fails *)
(* one of them, together with all its later events.                         *)
(*                                                                         *)
(* An optional value is a sequence of length one or zero.  A payload is a   *)
(* sequence of bytes; PayloadSearch has the search of Contains in detail.   *)
(***************************************************************************)
EXTENDS FilterParser, Bitwise

CONSTANTS
    Texts,          \* sets of filters: tokens, with a derivation if there is one
    Urbs,           \* the fields an URB keeps from submission to completion
    Outcomes,       \* what completions and submit errors add
    BusOptions,     \* what -i may be, 0 for any
    DeviceOptions,  \* what --device may be, <<>> for any
    MAX_KERNEL_PREDICATES

ASSUME FilterAssumption ==
    /\ BusOptions \subseteq Nat /\ MAX_KERNEL_PREDICATES \in Nat
    /\ AllOnes \in Nat /\ MaxDepth \in Nat

VARIABLES
    text,           \* the filter: tokens, and as a ghost their derivation
    expression,     \* Filter.expression
    options,        \* bus and device of the command line
    urb,            \* the URB
    stage,          \* "text", "rejected"; "entered", "ignored", "observed", "over"
    event,          \* the event that userspace filters, or NoEvent
    latency         \* ghost: its latency, whether or not it was computed

vars == <<text, expression, options, urb, stage, event, latency>>

NoEvent == [event_type |-> "none"]

-----------------------------------------------------------------------------
(* Three-valued logic and comparisons *)

\* Mutant of TruthNot: what is not known to be true passes a negation.
MutantTruthNot(a) == IF a = "True" THEN "False" ELSE "True"

TruthNot(a) == CASE a = "False" -> "True" [] a = "True" -> "False" [] a = "Unknown" -> a

TruthAnd(a, b) ==
    IF "False" \in {a, b} THEN "False"
    ELSE IF {a, b} = {"True"} THEN "True" ELSE "Unknown"

TruthOr(a, b) ==
    IF "True" \in {a, b} THEN "True"
    ELSE IF {a, b} = {"False"} THEN "False" ELSE "Unknown"

Truth(b) == IF b THEN "True" ELSE "False"

Compare(comparison, a, b) ==
    CASE comparison = "Eq" -> a = b [] comparison = "Ne" -> a # b
      [] comparison = "Lt" -> a < b [] comparison = "Le" -> a <= b
      [] comparison = "Gt" -> a > b [] comparison = "Ge" -> a >= b

Invert(comparison) ==
    CASE comparison = "Eq" -> "Ne" [] comparison = "Ne" -> "Eq"
      [] comparison = "Lt" -> "Ge" [] comparison = "Le" -> "Gt"
      [] comparison = "Gt" -> "Le" [] comparison = "Ge" -> "Lt"

-----------------------------------------------------------------------------
(* Evaluation on an event *)

\* The bytes that payload[offset:size] asks for, if they are captured data:
\* inside the payload and, for an isochronous URB, inside one frame.
Extract(e, offset, size) ==
    IF /\ e.payload # <<>>
       /\ offset + size <= Len(e.payload)
       /\ e.transfer = 0 =>
             \E f \in Range(e.iso) : /\ offset >= f.offset
                                     /\ offset + size <= f.offset + f.length
    THEN <<FoldLeft(LAMBDA n, byte : 256 * n + byte, 0,
                    SubSeq(e.payload, offset + 1, offset + size))>>
    ELSE <<>>

\* value(): the field, unless this event does not have it.  Of fields that are read
\* alike (vid and pid; the many that every event has) one stands for all.
Value(p, e) ==
    CASE p.field \in {"bus", "device", "transfer", "status"} -> <<e[p.field]>>
      [] p.field = "vid" -> IF e.identity_known THEN <<e.vid>> ELSE <<>>
      [] p.field = "endpoint" -> <<e.endpoint>>
      [] p.field = "epnum" -> <<e.endpoint % 16>>
      [] p.field = "direction" -> <<e.endpoint \div 128>>
      [] p.field = "requested" -> IF e.requested_known THEN <<e.requested>> ELSE <<>>
      [] p.field = "actual" -> IF e.event_type = "S" THEN <<>> ELSE <<e.actual>>
      [] p.field = "length" -> <<IF e.event_type = "S" THEN e.requested ELSE e.actual>>
      [] p.field = "frames" -> <<Len(e.iso)>>
      [] p.field = "event" -> <<EventCode[e.event_type]>>
      [] p.field = "latency" -> e.latency
      [] p.field = "payload" -> Extract(e, p.offset, p.size)

\* A predicate; the mask applies to the value as an unsigned word.
Holds(p, e) ==
    LET value == Value(p, e) IN
    IF value = <<>> THEN "Unknown"
    ELSE LET word == value[1] % (AllOnes + 1)
             masked == IF p.mask = <<>> THEN value[1] ELSE word & p.mask[1]
         IN  Truth(Compare(p.comparison, masked, p.value))

\* contains(): somewhere in the payload, or in one frame of it.
PayloadContains(needle, e) ==
    LET regions == IF e.transfer = 0 THEN Range(e.iso)
                   ELSE {[offset |-> 0, length |-> Len(e.payload)]}
    IN  \E r \in regions : \E at \in r.offset .. (r.offset + r.length - Len(needle)) :
           SubSeq(e.payload, at + 1, at + Len(needle)) = needle

RECURSIVE Evaluate(_, _)
Evaluate(x, e) ==
    CASE x.op = "all" -> "True"
      [] x.op = "predicate" -> Holds(x.p, e)
      [] x.op = "contains" ->
            IF e.payload = <<>> THEN "Unknown" ELSE Truth(PayloadContains(x.needle, e))
      [] x.op = "not" -> TruthNot(Evaluate(x.a, e))
      [] x.op = "and" -> LET a == Evaluate(x.a, e) IN
                         IF a = "False" THEN a ELSE TruthAnd(a, Evaluate(x.b, e))
      [] x.op = "or" -> LET a == Evaluate(x.a, e) IN
                        IF a = "True" THEN a ELSE TruthOr(a, Evaluate(x.b, e))

\* Mutant of NeedsLatency: the second operand is forgotten.
RECURSIVE MutantNeedsLatency(_)
MutantNeedsLatency(x) ==
    CASE x.op = "predicate" -> x.p.field = "latency"
      [] x.op \in {"not", "and", "or"} -> MutantNeedsLatency(x.a)
      [] x.op \in {"all", "contains"} -> FALSE

RECURSIVE NeedsLatency(_)
NeedsLatency(x) ==
    CASE x.op = "predicate" -> x.p.field = "latency"
      [] x.op = "not" -> NeedsLatency(x.a)
      [] x.op \in {"and", "or"} -> NeedsLatency(x.a) \/ NeedsLatency(x.b)
      [] x.op \in {"all", "contains"} -> FALSE

-----------------------------------------------------------------------------
(* The kernel's part *)

\* The necessary predicates of an expression (of its negation, if negated).
RECURSIVE Required(_, _)
Required(x, negated) ==
    CASE x.op = "predicate" ->
            <<IF negated THEN [x.p EXCEPT !.comparison = Invert(@)] ELSE x.p>>
      [] x.op = "not" -> Required(x.a, ~negated)
      [] x.op \in {"and", "or"} ->
            LET left == Required(x.a, negated)
                right == Required(x.b, negated)
            IN  IF (x.op = "and") # negated
                THEN left \o SelectSeq(right, LAMBDA p : p \notin Range(left))
                ELSE SelectSeq(left, LAMBDA p : p \in Range(right))
      [] x.op \in {"all", "contains"} -> <<>>

\* Mutant of KernelFields: the status is pushed, too, though completion changes it.
MutantKernelFields == {"bus", "device", "vid", "endpoint", "epnum", "direction",
                       "transfer", "requested", "frames", "status"}

\* The fields that kernel_predicates() pushes (of vid and pid, one).
KernelFields == {"bus", "device", "vid", "endpoint", "epnum", "direction",
                 "transfer", "requested", "frames"}

\* kernel_predicates(): those over fields that stay the same, whose value is an
\* unsigned word, and as many as FILTER holds.
KernelPredicates(x) ==
    LET pushed == SelectSeq(Required(x, FALSE),
                            LAMBDA p : /\ p.field \in KernelFields
                                       /\ p.value \in 0 .. AllOnes)
    IN  SubSeq([i \in DOMAIN pushed |->
                   [pushed[i] EXCEPT !.mask = <<IF @ = <<>> THEN AllOnes ELSE @[1]>>]],
               1, IF Len(pushed) < MAX_KERNEL_PREDICATES THEN Len(pushed)
                  ELSE MAX_KERNEL_PREDICATES)

\* KernelPredicate::matches, on the metadata of a submission.
KernelMatches(p, m) ==
    Compare(p.comparison, Value(p, m)[1] & p.mask[1], p.value)

Prefilter(m) ==
    \A i \in DOMAIN KernelPredicates(expression) :
       KernelMatches(KernelPredicates(expression)[i], m)

\* -i and --device, tested by the probe and again by consume_event().
Selected(m) ==
    /\ options.bus \in {0, m.bus}
    /\ options.device \in {<<>>, <<m.device>>}

-----------------------------------------------------------------------------
(* The life of one URB *)

\* The metadata of a submission: everything the kernel knows is known.
Submission ==
    [event_type |-> "S", bus |-> urb.bus, device |-> urb.device, vid |-> urb.vid,
     endpoint |-> urb.endpoint, transfer |-> urb.transfer,
     requested |-> urb.requested, iso |-> urb.iso, status |-> -115, actual |-> 0,
     payload |-> urb.payload, latency |-> <<>>,
     identity_known |-> TRUE, requested_known |-> TRUE]

Completion(o) ==
    [Submission EXCEPT !.event_type = o.event_type, !.status = o.status,
                       !.actual = o.actual, !.payload = o.payload]

\* consume_event(): the latency is looked up only for an expression that needs it.
Consumed(e, time) ==
    [e EXCEPT !.latency = IF NeedsLatency(expression) THEN time ELSE <<>>]

Matches(e) == Selected(e) /\ Evaluate(expression, e) = "True"

Init ==
    /\ \E texts \in Texts : text \in texts
    /\ expression = [op |-> "all"]
    /\ options = [bus |-> 0, device |-> <<>>]
    /\ urb = CHOOSE u \in Urbs : TRUE
    /\ stage = "text" /\ event = NoEvent /\ latency = <<>>

\* Filter::parse, before anything is captured; then the first URB comes.
ParseText ==
    /\ stage = "text"
    /\ LET parsed == Parse(text.tokens) IN
       \/ /\ parsed.ok
          /\ expression' = parsed.node
          /\ options' \in [bus : BusOptions, device : DeviceOptions]
          /\ urb' \in Urbs
          /\ stage' = "entered"
       \/ /\ ~parsed.ok
          /\ stage' = "rejected"
          /\ UNCHANGED <<expression, options, urb>>
    /\ UNCHANGED <<text, event, latency>>

\* submit(): the URB is ignored, or observed and its event filtered.  A failure of
\* bpf_loop lets the URB pass.
Submit ==
    /\ stage = "entered"
    /\ \/ /\ Selected(Submission)
          /\ stage' = "observed"
          /\ event' = Consumed(Submission, <<>>)
       \/ /\ ~Selected(Submission) \/ ~Prefilter(Submission)
          /\ stage' = "ignored"
          /\ UNCHANGED event
    /\ UNCHANGED <<text, expression, options, urb, latency>>

\* The completion or submit error of an observed URB.
Complete ==
    /\ stage = "observed"
    /\ stage' = "over"
    /\ \E o \in Outcomes : /\ latency' = o.latency
                           /\ event' = Consumed(Completion(o), o.latency)
    /\ UNCHANGED <<text, expression, options, urb>>

\* The same event from a pcapng file: no identity; the requested length and the
\* latency only if its submission was read, too.
ReadBack ==
    /\ stage = "entered"
    /\ stage' = "over"
    /\ \E o \in Outcomes, paired \in BOOLEAN :
          LET known == IF paired THEN o.latency ELSE <<>> IN
          /\ latency' = known
          /\ event' = [Consumed(Completion(o), known) EXCEPT
                          !.identity_known = FALSE, !.requested_known = paired,
                          !.vid = 0, !.requested = IF paired THEN @ ELSE 0]
    /\ UNCHANGED <<text, expression, options, urb>>

Next == ParseText \/ Submit \/ Complete \/ ReadBack

Spec == Init /\ [][Next]_vars

-----------------------------------------------------------------------------
(* Properties *)

\* "Failure must not cause a false negative" (usbscope-ebpf/src/main.rs:184): an
\* URB that the kernel ignores has no event that the whole expression selects.
PrefilterIsSound ==
    stage = "ignored" =>
       /\ ~Matches(Consumed(Submission, <<>>))
       /\ \A o \in Outcomes : ~Matches(Consumed(Completion(o), o.latency))

\* The ways to fill in what an event does not have.
Informed(e) ==
    {[e EXCEPT !.identity_known = TRUE, !.requested_known = TRUE,
               !.vid = IF e.identity_known THEN @ ELSE u.vid,
               !.requested = IF e.requested_known THEN @ ELSE u.requested,
               !.latency = IF e.latency # <<>> THEN @ ELSE <<t>>] :
        u \in Urbs, t \in {0, 5}}

\* "Unknown fields do not become zero" (docs/filters.md): a verdict, for or
\* against, never rests on a missing field: it is the same whatever the field's
\* value may have been, under any nesting of not, and, or.
VerdictIsCertain ==
    event # NoEvent /\ Evaluate(expression, event) # "Unknown" =>
       \A e \in Informed(event) : Evaluate(expression, e) = Evaluate(expression, event)

\* An event is judged as if its latency were always computed.
LatencyWhenNeeded ==
    event # NoEvent =>
       Evaluate(expression, event)
          = Evaluate(expression, [event EXCEPT !.latency = latency])

RECURSIVE Depth(_)
Depth(d) ==
    CASE d.op = "all" -> 0
      [] d.op \in {"predicate", "contains"} -> 1
      [] d.op \in {"not", "paren"} -> 1 + Depth(d.a)
      [] d.op \in {"and", "or"} -> Max({Depth(x) : x \in Range(d.xs)})

\* What a derivation says of an event: operands joined one after the other.
RECURSIVE Meaning(_, _)
Meaning(d, e) ==
    CASE d.op \in {"all", "predicate", "contains"} -> Evaluate(d, e)
      [] d.op = "not" -> TruthNot(Meaning(d.a, e))
      [] d.op = "paren" -> Meaning(d.a, e)
      [] d.op = "and" -> FoldLeft(LAMBDA t, x : TruthAnd(t, Meaning(x, e)), "True", d.xs)
      [] d.op = "or" -> FoldLeft(LAMBDA t, x : TruthOr(t, Meaning(x, e)), "False", d.xs)

\* The parser accepts the sentences of the grammar in docs/filters.md that are not
\* nested too deeply, and nothing else: no text is cut short or misread for
\* want of an operator, a parenthesis or an operand.
ParserIsGrammar ==
    stage # "text" =>
       (stage = "rejected" <=> \/ text.derivation = <<>>
                               \/ Depth(text.derivation[1]) > MaxDepth)

\* The parsed expression means what the grammar says: not before and before or,
\* an "and" that may be left out, parentheses, and flat lists whatever way they
\* are balanced, stopping at the first operand that decides.
ParsedMeaning ==
    event # NoEvent =>
       Evaluate(expression, event) = Meaning(text.derivation[1], event)

=============================================================================
