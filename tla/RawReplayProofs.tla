--------------------------- MODULE RawReplayProofs ---------------------------
(***************************************************************************)
(* Proofs about the replay of an archive: whatever records it holds and in  *)
(* whatever order, the range map is the set of received bytes, an event     *)
(* that push() returns is whole, and no event that began goes uncounted.    *)
(***************************************************************************)
EXTENDS RawReplay, ReassemblerProofs

-----------------------------------------------------------------------------
(* Whole events *)

\* What CompleteIsWhole says of one event.
EventWhole(e) ==
    LET received == {o \in Offsets : e.payload[o] # Hole} IN
    /\ Len(e.iso) = e.meta.iso_count
    /\ Required(e) \subseteq received
    /\ \A o \in received : \E n \in Required(e) : o <= n
    /\ ~e.meta.iso => received = Required(e)

\* An open event that passes the checks of its End record is whole.
LEMMA WholeLemma ==
    ASSUME NEW p, Good(p), NEW r, Whole(p, r), NEW e,
           e.meta = p.meta, e.iso = p.iso, e.payload = p.payload,
           ~(p.meta.iso /\ \E d \in Range(p.iso) :
                              d.offset + d.length > p.meta.requested_len)
    PROVE  EventWhole(e)
  <1> DEFINE m == p.meta
             received == {o \in Offsets : e.payload[o] # Hole}
  <1>1. /\ m \in Metas /\ m.payload_len <= MaxLength /\ Ordered(p.ranges)
        /\ p.iso \in Seq(FrameTypes)
        /\ \A o \in Offsets : p.payload[o] # Hole <=> In(p.ranges, o)
        /\ \A o \in Int : In(p.ranges, o) => o \in 0 .. (m.payload_len - 1)
    BY DEF Good
  <1>2. /\ m.payload_len \in Nat /\ m.requested_len \in Nat /\ m.actual_len \in Nat
        /\ m.iso \in BOOLEAN /\ m.has_data \in BOOLEAN
        /\ m.event_type \in {"S", "C", "E"} /\ m.in \in BOOLEAN
    BY <1>1 DEF Metas
  <1>3. /\ Len(p.iso) = m.iso_count /\ m.payload_len = ExpectedPayload(m, p.iso)
        /\ m.has_data <=> m.payload_len # 0
        /\ DataComplete(p)
    BY DEF Whole
  <1>4. \A o : o \in received <=> o \in 0 .. (m.payload_len - 1) /\ In(p.ranges, o)
    <2>1. \A o \in Offsets : o \in Int
      BY DEF Offsets
    <2>2. \A o \in 0 .. (m.payload_len - 1) : o \in Offsets
      BY <1>1, <1>2, ReassemblerAssumption DEF Offsets
    <2>3. QED
      BY <1>1, <2>1, <2>2
  <1> HIDE DEF received
  <1>5. CASE ~DataPhase(m)
    <2>1. m.payload_len = 0
      BY <1>3, <1>5 DEF ExpectedPayload
    <2>2. received = {}
      BY <1>4, <2>1
    <2>3. Required(e) = {}
      BY <1>5 DEF Required
    <2>4. QED
      BY <1>3, <2>2, <2>3 DEF EventWhole, received
  <1>6. CASE DataPhase(m) /\ ~m.iso
    <2> DEFINE len == IF m.event_type = "S" THEN m.requested_len ELSE m.actual_len
    <2>1. m.payload_len = len
      BY <1>3, <1>6 DEF ExpectedPayload
    <2>2. Required(e) = 0 .. (m.payload_len - 1)
      BY <1>6, <2>1 DEF Required
    <2>3. \A o \in 0 .. (m.payload_len - 1) : In(p.ranges, o)
      <3>1. CASE m.payload_len = 0
        BY <3>1
      <3>2. CASE m.payload_len # 0
        <4>1. Covers(p.ranges, 0, m.payload_len)
          BY <1>3, <1>6, <3>2 DEF DataComplete
        <4>2. QED
          BY <1>1, <1>2, <4>1, CoversLemma
      <3>3. QED
        BY <3>1, <3>2
    <2>4. received = Required(e)
      BY <1>4, <2>2, <2>3
    <2>5. \A o \in Required(e) : o <= o
      BY <1>2, <2>2
    <2>6. QED
      BY <1>3, <2>4, <2>5 DEF EventWhole, received
  <1>7. CASE DataPhase(m) /\ m.iso
    <2>1. m.payload_len = Span(p.iso)
      BY <1>3, <1>7 DEF ExpectedPayload
    <2>2. \A d \in Range(p.iso) : ~(d.offset + d.length > m.requested_len)
      BY <1>7
    <2>3. \A d \in Range(p.iso) : d.offset \in Nat /\ d.length \in Nat
      <3>1. \A i \in 1 .. Len(p.iso) : p.iso[i] \in FrameTypes
        BY <1>1
      <3>2. \A d \in Range(p.iso) : d \in FrameTypes
        BY <1>1, <3>1 DEF Range
      <3>3. QED
        BY <3>2 DEF FrameTypes
    <2>4. /\ Span(p.iso) \in Nat
          /\ Span(p.iso) # 0 => \E d \in Range(p.iso) :
                d.length # 0 /\ Span(p.iso) = d.offset + d.length
          /\ \A d \in Range(p.iso) : d.length # 0 => d.offset + d.length <= Span(p.iso)
      <3>1. \A d \in Range(p.iso) : d.offset + d.length <= m.requested_len
        BY <1>2, <2>2, <2>3
      <3>2. QED
        BY <1>1, <1>2, <3>1, SpanLemma
    <2>5. Required(e) = UNION {d.offset .. (d.offset + d.length - 1) : d \in Range(p.iso)}
      BY <1>7 DEF Required
    <2>6. CASE m.payload_len = 0
      <3>1. received = {}
        BY <1>4, <2>6
      <3>2. ~m.has_data
        BY <1>3, <2>6
      <3>3. \A d \in Range(p.iso) : d.length = 0
        BY <2>1, <2>3, <2>4, <2>6
      <3>4. Required(e) = {}
        BY <2>3, <2>5, <3>3
      <3>5. QED
        BY <1>3, <1>7, <3>1, <3>4 DEF EventWhole, received
    <2>7. CASE m.payload_len # 0
      <3>1. \A d \in Range(p.iso) : Covers(p.ranges, d.offset, d.length)
        BY <1>3, <1>7, <2>7 DEF DataComplete
      <3>2. ASSUME NEW o \in Required(e) PROVE o \in received
        <4>1. PICK d \in Range(p.iso) : o \in d.offset .. (d.offset + d.length - 1)
          BY <2>5
        <4>2. In(p.ranges, o) /\ o \in Int
          BY <1>1, <2>3, <3>1, <4>1, CoversLemma
        <4>3. QED
          BY <1>1, <1>4, <4>2
      <3>3. PICK d \in Range(p.iso) :
               d.length # 0 /\ m.payload_len = d.offset + d.length
        BY <2>1, <2>4, <2>7
      <3>4. m.payload_len - 1 \in Required(e)
        BY <2>3, <2>5, <3>3
      <3>5. \A o \in received : o <= m.payload_len - 1
        BY <1>2, <1>4
      <3>6. QED
        BY <1>3, <1>7, <3>2, <3>4, <3>5 DEF EventWhole, received
    <2>8. QED
      BY <2>6, <2>7
  <1>8. QED
    BY <1>2, <1>5, <1>6, <1>7

-----------------------------------------------------------------------------
(* The inductive invariant *)

\* An event that push() returns was open and passed the checks of its End record.
LEMMA DeliveredLemma ==
    ASSUME OpenInv, NEW r \in Records, Push(r), TypedRecord(r), \A e \in delivered : EventWhole(e)
    PROVE  \A e \in delivered' : EventWhole(e)
  <1>1. CASE delivered' = delivered
    BY <1>1
  <1>2. CASE r.kind = "end" /\ r.id \in Ids /\ r.id \in Pending /\ PushEnd(r)
    <2> DEFINE p == pending[r.id]
               new == [id |-> r.id, meta |-> p.meta, iso |-> p.iso, payload |-> p.payload]
    <2>1. Good(p)
      BY <1>2 DEF OpenInv, Pending
    <2>2. \/ delivered' = delivered
          \/ /\ delivered' = delivered \cup {new} /\ Whole(p, r)
             /\ ~(p.meta.iso /\ \E d \in Range(p.iso) :
                                   d.offset + d.length > p.meta.requested_len)
      BY <1>2 DEF PushEnd
    <2>3. new.meta = p.meta /\ new.iso = p.iso /\ new.payload = p.payload
      OBVIOUS
    <2> HIDE DEF new
    <2>4. CASE /\ delivered' = delivered \cup {new} /\ Whole(p, r)
               /\ ~(p.meta.iso /\ \E d \in Range(p.iso) :
                                     d.offset + d.length > p.meta.requested_len)
      <3>1. EventWhole(new)
        BY <2>1, <2>3, <2>4, WholeLemma
      <3>2. QED
        BY <2>4, <3>1
    <2>5. QED
      BY <2>2, <2>4
  <1>3. QED
    BY <1>1, <1>2, PushCases
       DEF PushStats, PushBegin, PushOrphan, PushData, PushIso, Fail

ReplayTypes ==
    /\ limit \in Nat /\ status \in {"reading", "stopping", "done"}
    /\ written \in Nat /\ records \in Nat /\ discarded \in Nat

StatusInv ==
    /\ status = "stopping" => limit # 0 /\ ~failed
    /\ status = "done" => ~failed /\ Pending = {}
    /\ limit = 0 => discarded = 0
    /\ ~failed => Missing = discarded

ReplayInv ==
    /\ OpenInv /\ CounterTypes /\ ReplayTypes /\ StatusInv
    /\ \A e \in delivered : EventWhole(e)

LEMMA ReplayInit == Init => ReplayInv
  <1> SUFFICES ASSUME Init PROVE ReplayInv
    OBVIOUS
  <1>1. pending = [id \in Ids |-> None] /\ delivered = {} /\ failed = FALSE /\ begun = 0
        /\ reassembly = [complete |-> 0, incomplete |-> 0, orphan_records |-> 0,
                         kernel_losses |-> 0]
    BY DEF Init, ReassemblerInit
  <1>2. OpenInv /\ Pending = {}
    BY <1>1 DEF OpenInv, Pending
  <1>3. IsFiniteSet(Pending) /\ Cardinality(Pending) = 0
    BY <1>2, FS_EmptySet
  <1>4. /\ reassembly \in [CounterNames -> Nat]
        /\ reassembly.complete = 0 /\ reassembly.incomplete = 0
    BY <1>1 DEF CounterNames
  <1>5. ReplayTypes /\ status = "reading" /\ discarded = 0
    BY ReplayAssumption DEF Init, ReplayTypes
  <1>6. CounterTypes /\ StatusInv
    <2>1. Missing = 0
      BY <1>1, <1>3, <1>4 DEF Missing
    <2>2. QED
      BY <1>1, <1>3, <1>4, <1>5, <2>1 DEF CounterTypes, StatusInv
  <1>7. QED
    BY <1>1, <1>2, <1>5, <1>6 DEF ReplayInv

LEMMA ReplayStep == ReplayInv /\ [Next]_vars => ReplayInv'
  <1> SUFFICES ASSUME ReplayInv, [Next]_vars PROVE ReplayInv'
    OBVIOUS
  <1>1. CASE Consume
    <2>1. PICK r \in Records : Push(r) /\ TypedRecord(r)
      BY <1>1, ReplayAssumption DEF Consume
    <2>2. OpenInv'
      BY <2>1, OpenLemma DEF ReplayInv
    <2>3. /\ CounterTypes' /\ (failed' => reassembly'.complete = reassembly.complete)
          /\ ~failed' => Missing' = Missing
      BY <2>1, BalanceLemma DEF ReplayInv
    <2>4. \A e \in delivered' : EventWhole(e)
      BY <2>1, DeliveredLemma DEF ReplayInv
    <2>5. /\ status = "reading" /\ ~failed /\ records' = records + 1
          /\ limit' = limit /\ discarded' = discarded
          /\ IF reassembly'.complete # reassembly.complete
             THEN ConsumeEvent
             ELSE UNCHANGED <<written, status>>
      BY <1>1 DEF Consume
    <2>6. \/ UNCHANGED <<written, status>>
          \/ /\ ~failed' /\ written' = written + 1
             /\ status' = status \/ (status' = "stopping" /\ limit # 0)
      <3>1. CASE reassembly'.complete # reassembly.complete
        <4>1. ~failed' /\ ConsumeEvent
          BY <2>3, <2>5, <3>1
        <4>2. QED
          BY <4>1, <2>5 DEF ConsumeEvent
      <3>2. QED
        BY <2>5, <3>1
    <2>7. ReplayTypes'
      BY <2>5, <2>6 DEF ReplayInv, ReplayTypes
    <2>8. StatusInv'
      BY <2>3, <2>5, <2>6 DEF ReplayInv, StatusInv
    <2>9. QED
      BY <2>2, <2>3, <2>4, <2>7, <2>8 DEF ReplayInv
  <1>2. CASE EndOfArchive
    <2>1. /\ pending' = [id \in Ids |-> None] /\ ~failed /\ status' = "done"
          /\ reassembly' = [reassembly EXCEPT !.incomplete = @ + Cardinality(Pending)]
          /\ UNCHANGED <<delivered, failed, begun, limit, written, records, discarded>>
      BY <1>2 DEF EndOfArchive, Finish, CountIncomplete
    <2>2. OpenInv' /\ Pending' = {} /\ IsFiniteSet(Pending') /\ Cardinality(Pending') = 0
      BY <2>1, ClearedLemma
    <2>3. /\ reassembly.complete \in Nat /\ reassembly.incomplete \in Nat
          /\ begun \in Nat /\ Cardinality(Pending) \in Nat
      BY FS_CardinalityType DEF ReplayInv, CounterTypes, CounterNames
    <2>4. /\ reassembly' \in [CounterNames -> Nat]
          /\ reassembly'.complete = reassembly.complete
          /\ reassembly'.incomplete = reassembly.incomplete + Cardinality(Pending)
      BY <2>1, <2>3 DEF ReplayInv, CounterTypes, CounterNames
    <2>5. CounterTypes' /\ Missing' = Missing
      BY <2>1, <2>2, <2>3, <2>4 DEF ReplayInv, CounterTypes, Missing
    <2>6. QED
      BY <2>1, <2>2, <2>5 DEF ReplayInv, ReplayTypes, StatusInv
  <1>3. CASE StopAtLimit
    <2>1. /\ pending' = [id \in Ids |-> None] /\ status = "stopping" /\ status' = "done"
          /\ discarded' = discarded + Cardinality(Pending)
          /\ UNCHANGED <<reassembly, delivered, failed, begun, limit, written, records>>
      BY <1>3 DEF StopAtLimit
    <2>2. OpenInv' /\ Pending' = {} /\ IsFiniteSet(Pending') /\ Cardinality(Pending') = 0
      BY <2>1, ClearedLemma
    <2>3. /\ reassembly.complete \in Nat /\ reassembly.incomplete \in Nat
          /\ begun \in Nat /\ Cardinality(Pending) \in Nat /\ discarded \in Nat
          /\ limit # 0 /\ ~failed
      BY <2>1, FS_CardinalityType DEF ReplayInv, CounterTypes, CounterNames, ReplayTypes,
                                     StatusInv
    <2>4. CounterTypes' /\ Missing' = Missing + Cardinality(Pending)
      BY <2>1, <2>2, <2>3 DEF ReplayInv, CounterTypes, Missing
    <2>5. Missing = discarded
      BY <2>3 DEF ReplayInv, StatusInv
    <2>6. QED
      BY <2>1, <2>2, <2>3, <2>4, <2>5 DEF ReplayInv, ReplayTypes, StatusInv
  <1>4. CASE UNCHANGED vars
    BY <1>4 DEF ReplayInv, OpenInv, CounterTypes, ReplayTypes, StatusInv, Missing,
                Pending, vars
  <1>5. QED
    BY <1>1, <1>2, <1>3, <1>4 DEF Next

LEMMA ReplayCorrect == Spec => []ReplayInv
  BY ReplayInit, ReplayStep, PTL DEF Spec

-----------------------------------------------------------------------------
(* Results *)

\* Every state of a replay is typed, whatever records the archive holds.
THEOREM TypeCorrect == Spec => []TypeOK
  <1>1. ReplayInv => TypeOK
    <2> SUFFICES ASSUME ReplayInv PROVE TypeOK
      OBVIOUS
    <2>1. ASSUME NEW id \in Pending
          PROVE  /\ pending[id].meta \in Metas
                 /\ pending[id].payload \in [Offsets -> Nat \cup {Hole}]
                 /\ DOMAIN pending[id].ranges \subseteq Nat
                 /\ \A a \in DOMAIN pending[id].ranges : pending[id].ranges[a] \in Nat
                 /\ pending[id].copied \in Nat
      <3>1. Good(pending[id])
        BY DEF Pending, ReplayInv, OpenInv
      <3>2. QED
        BY <3>1 DEF Good, Ordered
    <2>2. QED
      BY <2>1 DEF ReplayInv, CounterTypes, CounterNames, ReplayTypes, TypeOK
  <1>2. QED
    BY <1>1, ReplayCorrect, PTL

\* The range map of an open event is exactly the set of received bytes, with a gap
\* between any two ranges, however the fragments of the archive overlap or touch.
THEOREM RangesCorrect == Spec => []RangesExact
  <1>1. ReplayInv => RangesExact
    <2> SUFFICES ASSUME ReplayInv, NEW id \in Pending
                 PROVE  LET p == pending[id] IN
                        /\ \A a \in DOMAIN p.ranges : a < p.ranges[a]
                        /\ \A a, b \in DOMAIN p.ranges : a < b => p.ranges[a] < b
                        /\ {o \in Offsets : p.payload[o] # Hole}
                              = UNION {a .. (p.ranges[a] - 1) : a \in DOMAIN p.ranges}
      BY DEF RangesExact
    <2> DEFINE p == pending[id]
    <2>1. Good(p)
      BY DEF Pending, ReplayInv, OpenInv
    <2>2. /\ \A a \in DOMAIN p.ranges : a < p.ranges[a] /\ a \in Nat /\ p.ranges[a] \in Nat
          /\ \A a, b \in DOMAIN p.ranges : a < b => p.ranges[a] < b
      BY <2>1 DEF Good, Ordered
    <2>3. /\ \A o \in Offsets : p.payload[o] # Hole <=> In(p.ranges, o)
          /\ \A o \in Int : In(p.ranges, o) => o \in Offsets
      <3>1. /\ \A o \in Int : In(p.ranges, o) => o \in 0 .. (p.meta.payload_len - 1)
            /\ p.meta.payload_len <= MaxLength /\ p.meta.payload_len \in Nat
            /\ \A o \in Offsets : p.payload[o] # Hole <=> In(p.ranges, o)
        BY <2>1 DEF Good, Metas
      <3>2. QED
        BY <3>1, ReassemblerAssumption DEF Offsets
    <2> HIDE DEF p
    <2>4. \A o : o \in UNION {a .. (p.ranges[a] - 1) : a \in DOMAIN p.ranges}
                    <=> o \in Int /\ In(p.ranges, o)
      BY <2>2 DEF In
    <2>5. {o \in Offsets : p.payload[o] # Hole}
             = UNION {a .. (p.ranges[a] - 1) : a \in DOMAIN p.ranges}
      <3>1. \A o \in Offsets : o \in Int
        BY DEF Offsets
      <3>2. QED
        BY <2>3, <2>4, <3>1
    <2>6. QED
      BY <2>2, <2>5 DEF p
  <1>2. QED
    BY <1>1, ReplayCorrect, PTL

\* No archive makes push() return an event with a byte or descriptor missing, nor
\* one with a byte beyond its data phase.
THEOREM WholeCorrect == Spec => []CompleteIsWhole
  <1>1. ReplayInv => CompleteIsWhole
    BY DEF ReplayInv, CompleteIsWhole, EventWhole
  <1>2. QED
    BY <1>1, ReplayCorrect, PTL

\* Every accepted Begin is returned complete, counted incomplete, still open, or
\* dropped at the requested limit, and only one of them.
THEOREM ConservationCorrect == Spec => []Conservation
  <1>1. ReplayInv => Conservation
    <2> SUFFICES ASSUME ReplayInv, ~failed
                 PROVE  begun = reassembly.complete + reassembly.incomplete
                                   + Cardinality(Pending) + discarded
      BY DEF Conservation
    <2>1. /\ reassembly.complete \in Nat /\ reassembly.incomplete \in Nat
          /\ begun \in Nat /\ Cardinality(Pending) \in Nat /\ discarded \in Nat
      BY FS_CardinalityType DEF ReplayInv, CounterTypes, CounterNames, ReplayTypes
    <2>2. Missing = discarded
      BY DEF ReplayInv, StatusInv
    <2>3. QED
      BY <2>1, <2>2 DEF Missing
  <1>2. QED
    BY <1>1, ReplayCorrect, PTL

\* A replay to the end that reports no loss has returned every event it saw begin.
THEOREM CleanReplayCorrect == Spec => []CleanReplayIsTotal
  <1>1. ReplayInv => CleanReplayIsTotal
    <2> SUFFICES ASSUME ReplayInv, status = "done", limit = 0, Losses = 0
                 PROVE  begun = reassembly.complete
      BY DEF CleanReplayIsTotal
    <2>1. /\ reassembly.complete \in Nat /\ reassembly.incomplete \in Nat
          /\ reassembly.orphan_records \in Nat /\ reassembly.kernel_losses \in Nat
          /\ begun \in Nat
      BY DEF ReplayInv, CounterTypes, CounterNames
    <2>2. reassembly.incomplete = 0
      BY <2>1 DEF Losses
    <2>3. Missing = 0 /\ Pending = {}
      BY DEF ReplayInv, StatusInv
    <2>4. Cardinality(Pending) = 0
      BY <2>3, FS_EmptySet
    <2>5. begun - reassembly.complete - 0 - 0 = 0
      BY <2>2, <2>3, <2>4, Zenon DEF Missing
    <2>6. QED
      BY <2>1, <2>5
  <1>2. QED
    BY <1>1, ReplayCorrect, PTL

\* A byte once received is never changed while its event is open: a later fragment
\* that shares it agrees with it, or push() fails.
THEOREM BytesCorrect == Spec => BytesNeverChange
  <1> DEFINE Kept == \A id \in Pending : pending'[id] # None =>
                        \A o \in Offsets : pending[id].payload[o] # Hole =>
                           pending'[id].payload[o] = pending[id].payload[o]
  <1>1. ReplayInv /\ [Next]_vars => [Kept]_vars
    <2> SUFFICES ASSUME ReplayInv, Next PROVE Kept
      OBVIOUS
    <2>1. CASE pending' = pending \/ pending' = [id \in Ids |-> None]
      BY <2>1 DEF Pending
    <2>o. ASSUME NEW r, r.id \in Ids,
                 \A id \in Ids : id # r.id => pending'[id] = pending[id],
                 r.id \in Pending /\ pending'[r.id] # None =>
                    \A o \in Offsets : pending[r.id].payload[o] # Hole =>
                       pending'[r.id].payload[o] = pending[r.id].payload[o]
          PROVE  Kept
      BY <2>o DEF Pending
    <2>2. ASSUME NEW r \in Records, Push(r) PROVE Kept
      <3> USE DEF ReplayInv
      <3>1. CASE pending' = pending
        BY <3>1 DEF Pending
      <3>2. CASE r.kind = "begin" /\ r.id \in Ids /\ PushBegin(r) /\ ~Fail
        BY <2>o, <3>2 DEF PushBegin, BeginRejected, OpenInv
      <3>3. CASE /\ r.kind = "data" /\ r.id \in Ids /\ r.id \in Pending /\ PushData(r)
                 /\ r.offset \in Nat /\ r.body \in Seq(Nat) /\ ~Fail
        <4> DEFINE p == pending[r.id]
        <4>1. Good(p)
          BY <3>3 DEF OpenInv, Pending
        <4>2. /\ Filled(pending'[r.id], p, r.offset, r.body)
              /\ \A id \in Ids : id # r.id => pending'[id] = pending[id]
              /\ r.body # <<>> /\ ~Conflicts(p, r.offset, r.body)
          BY <3>3, DataStep
        <4>3. ASSUME NEW o \in Offsets, p.payload[o] # Hole
              PROVE  pending'[r.id].payload[o] = p.payload[o]
          <5>1. In(p.ranges, o) /\ Ordered(p.ranges)
            BY <4>1, <4>3 DEF Good
          <5>2. CASE o \in r.offset .. (r.offset + Len(r.body) - 1)
            <6>1. p.payload[o] = r.body[o - r.offset + 1]
              BY <3>3, <4>2, <5>1, <5>2, ConflictLemma
            <6>2. QED
              BY <4>2, <5>2, <6>1 DEF Filled
          <5>3. CASE o \notin r.offset .. (r.offset + Len(r.body) - 1)
            BY <4>2, <5>3 DEF Filled
          <5>4. QED
            BY <5>2, <5>3
        <4>4. QED
          BY <2>o, <3>3, <4>2, <4>3
      <3>4. CASE /\ r.kind = "iso" /\ r.id \in Ids /\ r.id \in Pending /\ PushIso(r)
                 /\ r.offset \in Nat /\ r.descriptor \in FrameTypes /\ ~Fail
        <4>1. /\ Described(pending'[r.id], pending[r.id], r.descriptor)
              /\ \A id \in Ids : id # r.id => pending'[id] = pending[id]
          BY <3>4, IsoStep
        <4>2. QED
          BY <2>o, <3>4, <4>1 DEF Described
      <3>5. CASE r.kind = "end" /\ r.id \in Ids /\ r.id \in Pending /\ PushEnd(r)
        <4>1. pending' = [pending EXCEPT ![r.id] = None]
          BY <3>5 DEF PushEnd
        <4>2. QED
          BY <2>o, <3>5, <4>1 DEF OpenInv
      <3>6. QED
        BY <2>2, <3>1, <3>2, <3>3, <3>4, <3>5, PushCases, ReplayAssumption
           DEF PushStats, PushOrphan, Fail
    <2> HIDE DEF Kept
    <2>3. QED
      BY <2>1, <2>2 DEF Next, Consume, EndOfArchive, Finish, StopAtLimit
  <1>2. QED
    BY <1>1, ReplayCorrect, PTL DEF Spec, BytesNeverChange

=============================================================================
