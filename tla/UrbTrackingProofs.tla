-------------------------- MODULE UrbTrackingProofs --------------------------
(***************************************************************************)
(* Proofs about UrbTracking for every set of URBs, every map capacity and   *)
(* every set of faults.                                                     *)
(***************************************************************************)
EXTENDS UrbTracking, FiniteSetTheorems, TLAPS

Counters == [CounterNames -> Nat]

-----------------------------------------------------------------------------
(* Type correctness *)

\* count() keeps the counters natural numbers and touches one of them.
LEMMA CountLemma ==
    ASSUME NEW s \in Counters, NEW f \in CounterNames
    PROVE  /\ Count(s, f) \in Counters
           /\ Count(s, f)[f] = s[f] + 1
           /\ \A c \in CounterNames : c # f => Count(s, f)[c] = s[c]
  BY DEF Count, Counters

\* The same, counter by counter.
LEMMA CountEach ==
    ASSUME NEW s \in Counters, NEW f \in CounterNames, NEW t, t = Count(s, f)
    PROVE  /\ t \in Counters /\ t[f] = s[f] + 1
           /\ f # "submitted" => t["submitted"] = s["submitted"]
           /\ f # "completed" => t["completed"] = s["completed"]
           /\ f # "submit_errors" => t["submit_errors"] = s["submit_errors"]
           /\ f # "state_errors" => t["state_errors"] = s["state_errors"]
  <1>1. \A c \in {"submitted", "completed", "submit_errors", "state_errors"} :
           c \in CounterNames
    BY DEF CounterNames
  <1>2. t \in Counters /\ t[f] = s[f] + 1 /\ \A c \in CounterNames : c # f => t[c] = s[c]
    BY CountLemma
  <1> HIDE DEF CounterNames
  <1>3. QED
    BY <1>1, <1>2

\* The mark of an absent entry is typed like an entry, and no probe is unknown.
LEMMA NoStateLemma ==
    /\ NoState \in States
    /\ \A i \in DOMAIN AttachOrder : AttachOrder[i] \in Probes
  <1>1. NoState \in States
    BY DEF NoState, States
  <1>2. \A i \in DOMAIN AttachOrder : AttachOrder[i] \in Probes
    BY DEF AttachOrder, Probes
  <1>3. QED
    BY <1>1, <1>2

\* What an event is made of, when an entry's id and status are.
LEMMA EventLemma ==
    ASSUME TypeOK, NEW u \in Urbs, NEW id \in Nat, NEW type \in {"S", "C", "E"},
           NEW status \in Int, NEW of \in Nat
    PROVE  /\ EventOf(u, id, type, status, of) \in Events
           /\ \A n \in Nat :
                 LET e == WithId(EventOf(u, id, type, status, of), n) IN
                 /\ e \in Events
                 /\ e.event_id = n /\ e.urb_id = id /\ e.type = type
                 /\ e.status = status /\ e.of = of /\ e.actual = result[u]
                 /\ e.at = stage[u] /\ e.window = (phase = "detaching")
  BY ConstantsAssumption DEF TypeOK, EventOf, WithId, Events, Stages

\* emit() draws at most one id, adds at most one event, and counts nothing but a
\* read error or a ring loss.
LEMMA EmitLemma ==
    ASSUME TypeOK, NEW event \in Events,
           \A n \in Nat : WithId(event, n) \in Events,
           NEW seq \in Nat, NEW s \in Counters, Emit(event, seq, s)
    PROVE  /\ sequence' \in Nat /\ seq <= sequence'
           /\ stats' \in Counters
           /\ events' \in SUBSET Events
           /\ \A c \in CounterNames \ {"read_errors", "ring_losses"} : stats'[c] = s[c]
           /\ \/ /\ sequence' = seq + 1
                 /\ events' = events \cup {WithId(event, seq + 1)}
                 /\ stats' = s
              \/ /\ events' = events
                 /\ stats'["read_errors"] + stats'["ring_losses"]
                       = s["read_errors"] + s["ring_losses"] + 1
  <1>1. CASE /\ sequence' = NextId(seq)
             /\ events' = events \cup {WithId(event, NextId(seq))}
             /\ stats' = s
    BY <1>1 DEF NextId, TypeOK
  <1>2. CASE /\ sequence' \in {seq, NextId(seq)}
             /\ \/ stats' = Count(s, "read_errors")
                \/ stats' = Count(s, "ring_losses")
             /\ events' = events
    <2>1. "read_errors" \in CounterNames /\ "ring_losses" \in CounterNames
      BY DEF CounterNames
    <2>2. sequence' \in Nat /\ seq <= sequence'
      BY <1>2 DEF NextId
    <2>3. s["read_errors"] \in Nat /\ s["ring_losses"] \in Nat
      BY <2>1 DEF Counters
    <2>4. CASE stats' = Count(s, "read_errors")
      <3>1. /\ stats' \in Counters
            /\ stats'["read_errors"] = s["read_errors"] + 1
            /\ \A c \in CounterNames : c # "read_errors" => stats'[c] = s[c]
        BY <2>1, <2>4, CountLemma
      <3>2. QED
        BY <1>2, <2>1, <2>2, <2>3, <3>1 DEF TypeOK
    <2>5. CASE stats' = Count(s, "ring_losses")
      <3>1. /\ stats' \in Counters
            /\ stats'["ring_losses"] = s["ring_losses"] + 1
            /\ \A c \in CounterNames : c # "ring_losses" => stats'[c] = s[c]
        BY <2>1, <2>5, CountLemma
      <3>2. QED
        BY <1>2, <2>1, <2>2, <2>3, <3>1 DEF TypeOK
    <2>6. QED
      BY <1>2, <2>4, <2>5
  <1>3. QED
    BY <1>1, <1>2 DEF Emit, RingLoss

\* Every step keeps the types; emit() is called in three of them.
LEMMA TypeLemma == TypeOK /\ [Next]_vars => TypeOK'
  <1> SUFFICES ASSUME TypeOK, [Next]_vars PROVE TypeOK'
    OBVIOUS
  <1> USE ConstantsAssumption
  <1>a. stats \in Counters /\ CounterNames = {"submitted", "completed",
          "submit_errors", "ring_losses", "read_errors", "state_errors"}
    BY DEF TypeOK, Counters, CounterNames
  <1>b. \A f \in CounterNames : Count(stats, f) \in Counters
    BY <1>a, CountLemma
  <1>c. ASSUME NEW u \in Urbs PROVE CountStale(u) \in Counters
    BY <1>a, <1>b DEF CountStale
  <1>1. CASE Attach \/ Enable \/ Disable \/ Drop \/ Detach
    <2>1. CASE Attach
      BY <2>1, NoStateLemma DEF TypeOK, Attach, kernel, tracking
    <2>2. CASE Enable
      BY <2>2 DEF TypeOK, Enable, kernel, tracking, Phases
    <2>3. CASE Disable
      BY <2>3 DEF TypeOK, Disable, kernel, tracking, Phases
    <2>4. CASE Drop
      BY <2>4 DEF TypeOK, Drop, kernel, tracking, Phases
    <2>5. CASE Detach
      BY <2>5 DEF TypeOK, Detach, kernel, tracking, Phases
    <2>6. QED
      BY <1>1, <2>1, <2>2, <2>3, <2>4, <2>5
  <1>2. ASSUME NEW u \in Urbs, SubmitEntry(u) PROVE TypeOK'
    <2>1. /\ stage' \in [Urbs -> Stages]
          /\ result' = result /\ UNCHANGED collector
      BY <1>2 DEF SubmitEntry, TypeOK, Stages
    <2>2. CASE SubmitUntracked(u)
      <3>1. stats' \in Counters
        BY <1>a, <1>b, <2>2 DEF SubmitUntracked
      <3>2. QED
        BY <2>1, <2>2, <3>1 DEF SubmitUntracked, TypeOK, collector, Counters
    <2>3. CASE SubmitDropped(u)
      <3>1. stats' \in Counters
        BY <1>a, <1>c, <2>3, CountLemma DEF SubmitDropped
      <3>2. QED
        BY <2>1, <2>3, <3>1 DEF SubmitDropped, TypeOK, collector, Counters, NextId
    <2>4. CASE SubmitTracked(u)
      <3> DEFINE id == NextId(sequence)
                 event == EventOf(u, id, "S", EINPROGRESS, id)
      <3>1. id \in Nat /\ EINPROGRESS \in Int
        BY DEF TypeOK, NextId, EINPROGRESS
      <3>2. event \in Events /\ \A n \in Nat : WithId(event, n) \in Events
        BY <3>1, EventLemma
      <3>3. Count(CountStale(u), "submitted") \in Counters
        BY <1>a, <1>c, CountLemma
      <3>4. Emit(event, id, Count(CountStale(u), "submitted"))
        BY <2>4 DEF SubmitTracked
      <3> HIDE DEF event, id
      <3>5. sequence' \in Nat /\ stats' \in Counters /\ events' \in SUBSET Events
        BY <3>1, <3>2, <3>3, <3>4, EmitLemma
      <3>6. inflight' \in [Urbs -> States] /\ owner' \in [Urbs -> Nat]
        BY <2>4, <3>1 DEF SubmitTracked, TypeOK, States, id
      <3>7. QED
        BY <2>1, <3>5, <3>6 DEF TypeOK, collector, Counters
    <2>5. QED
      BY <1>2, <2>2, <2>3, <2>4 DEF SubmitEntry
  <1>3. ASSUME NEW u \in Urbs, Queue(u) \/ DmaSync(u) PROVE TypeOK'
    <2>1. /\ stage' \in [Urbs -> Stages] /\ UNCHANGED <<result, owner, collector>>
      BY <1>3 DEF Queue, DmaSync, TypeOK, Stages
    <2>2. CASE UNCHANGED tracking
      BY <2>1, <2>2 DEF TypeOK, tracking, collector
    <2>3. CASE ReturnUnread
      <3>1. stats' \in Counters
        BY <1>a, <1>b, <2>3 DEF ReturnUnread
      <3>2. QED
        BY <2>1, <2>3, <3>1 DEF ReturnUnread, TypeOK, collector, Counters
    <2>4. QED
      BY <1>3, <2>2, <2>3 DEF Queue, DmaSync
  <1>4. ASSUME NEW u \in Urbs, SubmitFails(u) PROVE TypeOK'
    <2>1. /\ stage' \in [Urbs -> Stages] /\ owner' \in [Urbs -> Nat]
          /\ result' = result /\ UNCHANGED collector
      BY <1>4 DEF SubmitFails, TypeOK, Stages
    <2>2. CASE UNCHANGED tracking
      BY <2>1, <2>2 DEF TypeOK, tracking, collector
    <2>3. CASE /\ stats' = Count(stats, "state_errors")
               /\ UNCHANGED <<sequence, inflight, events>>
      <3>1. stats' \in Counters
        BY <1>a, <1>b, <2>3
      <3>2. QED
        BY <2>1, <2>3, <3>1 DEF TypeOK, collector, Counters
    <2>4. ASSUME NEW status \in Errors, inflight[u] # NoState, SubmitError(u, status)
          PROVE  TypeOK'
      <3> DEFINE event == EventOf(u, inflight[u].id, "E", status, owner[u])
      <3>1. event \in Events /\ \A n \in Nat : WithId(event, n) \in Events
        BY EventLemma DEF TypeOK, States
      <3>2. Emit(event, sequence, Count(stats, "submit_errors"))
        BY <2>4 DEF SubmitError
      <3> HIDE DEF event
      <3>3. sequence' \in Nat /\ stats' \in Counters /\ events' \in SUBSET Events
        BY <1>a, <1>b, <3>1, <3>2, EmitLemma DEF TypeOK
      <3>4. inflight' \in [Urbs -> States]
        BY <2>4, NoStateLemma DEF SubmitError, TypeOK
      <3>5. QED
        BY <2>1, <3>3, <3>4 DEF TypeOK, collector, Counters
    <2>5. QED
      BY <1>4, <2>2, <2>3, <2>4 DEF SubmitFails, ReturnUnread, SubmitError
  <1>5. ASSUME NEW u \in Urbs, Giveback(u) PROVE TypeOK'
    <2>1. /\ stage' \in [Urbs -> Stages] /\ result' \in [Urbs -> Statuses]
          /\ owner' = owner /\ UNCHANGED collector
      BY <1>5 DEF Giveback, TypeOK, Stages
    <2>2. CASE UNCHANGED tracking
      BY <2>1, <2>2 DEF TypeOK, tracking, collector
    <2>3. ASSUME NEW status \in Statuses, ObserveGiveback(u, status) PROVE TypeOK'
      <3>1. stats' \in Counters
        BY <1>a, <1>b, <2>3 DEF ObserveGiveback
      <3>2. inflight' \in [Urbs -> States]
        <4>1. inflight[u] \in States /\ status \in Int
          BY DEF TypeOK
        <4>2. Noted(inflight[u], status) \in States
          BY <4>1 DEF Noted, States
        <4>3. QED
          BY <2>3, <4>2 DEF ObserveGiveback, TypeOK
      <3>3. QED
        BY <2>1, <2>3, <3>1, <3>2 DEF TypeOK, ObserveGiveback, collector, Counters
    <2>4. QED
      BY <1>5, <2>2, <2>3 DEF Giveback
  <1>6. ASSUME NEW u \in Urbs, NEW caller \in Callers, Complete(u, caller)
        PROVE  /\ sequence' \in Nat /\ stats' \in Counters
               /\ events' \in SUBSET Events /\ inflight' \in [Urbs -> States]
    <2>1. CASE UNCHANGED tracking
      BY <1>a, <2>1 DEF tracking, TypeOK
    <2>2. CASE /\ stats' = Count(stats, "state_errors")
               /\ UNCHANGED <<sequence, inflight, events>>
      BY <1>a, <1>b, <2>2 DEF TypeOK
    <2>3. CASE /\ inflight' = [inflight EXCEPT ![u] = NoState]
               /\ NotReady
      <3>1. inflight' \in [Urbs -> States]
        BY <2>3, NoStateLemma DEF TypeOK
      <3>2. QED
        BY <1>a, <1>b, <2>3, <3>1 DEF NotReady, TypeOK
    <2>4. CASE /\ inflight' = [inflight EXCEPT ![u] = NoState]
               /\ Completed(u)
      <3> DEFINE event == EventOf(u, inflight[u].id, "C", inflight[u].status, owner[u])
      <3>1. event \in Events /\ \A n \in Nat : WithId(event, n) \in Events
        BY EventLemma DEF TypeOK, States
      <3>2. Emit(event, sequence, Count(stats, "completed"))
        BY <2>4 DEF Completed
      <3> HIDE DEF event
      <3>3. sequence' \in Nat /\ stats' \in Counters /\ events' \in SUBSET Events
        BY <1>a, <1>b, <3>1, <3>2, EmitLemma DEF TypeOK
      <3>4. inflight' \in [Urbs -> States]
        BY <2>4, NoStateLemma DEF TypeOK
      <3>5. QED
        BY <3>3, <3>4
    <2>5. QED
      BY <1>6, <2>1, <2>2, <2>3, <2>4 DEF Complete
  <1>7. ASSUME NEW u \in Urbs, Unanchor(u) PROVE TypeOK'
    <2>1. /\ stage' \in [Urbs -> Stages] /\ result' \in [Urbs -> Statuses]
          /\ owner' \in [Urbs -> Nat] /\ UNCHANGED collector
      BY <1>7 DEF Unanchor, TypeOK, Stages
    <2>2. CASE UNCHANGED tracking
      BY <2>1, <2>2 DEF TypeOK, tracking, collector
    <2>3. CASE \E caller \in Callers : Complete(u, caller)
      BY <1>6, <2>1, <2>3 DEF TypeOK, collector, Counters
    <2>4. QED
      BY <1>7, <2>2, <2>3 DEF Unanchor
  <1>8. ASSUME NEW u \in Urbs, UnanchorElsewhere(u) PROVE TypeOK'
    BY <1>6, <1>8 DEF UnanchorElsewhere, TypeOK, kernel, collector, Counters
  <1>9. CASE UNCHANGED vars
    BY <1>9 DEF vars, TypeOK
  <1>10. QED
    BY <1>1, <1>2, <1>3, <1>4, <1>5, <1>7, <1>8, <1>9 DEF Next

\* Every reachable state of the probes, their maps and the collector is typed.
THEOREM TypeCorrect == Spec => []TypeOK
  <1>1. Init => TypeOK
    <2> SUFFICES ASSUME Init PROVE TypeOK
      OBVIOUS
    <2>1. stage \in [Urbs -> Stages] /\ phase \in Phases
      BY DEF Init, Stages, Phases
    <2>2. result \in [Urbs -> Statuses] /\ owner \in [Urbs -> Nat]
      BY ConstantsAssumption DEF Init
    <2>3. attached \in SUBSET Probes /\ enabled \in BOOLEAN /\ events \in SUBSET Events
      BY DEF Init
    <2>4. inflight \in [Urbs -> States]
      BY NoStateLemma DEF Init
    <2>5. sequence \in Nat /\ stats \in [CounterNames -> Nat]
      BY DEF Init
    <2>6. QED
      BY <2>1, <2>2, <2>3, <2>4, <2>5 DEF TypeOK
  <1>2. QED
    BY <1>1, TypeLemma, PTL DEF Spec

-----------------------------------------------------------------------------
(* The count of URBs still in flight *)

\* INFLIGHT is finite, and how its size follows one map operation.
LEMMA TrackedLemma ==
    ASSUME TypeOK, TypeOK'
    PROVE  /\ IsFiniteSet(Tracked) /\ Cardinality(Tracked) \in Nat
           /\ inflight' = inflight => Tracked' = Tracked
           /\ \A u \in Tracked :
                 inflight' = [inflight EXCEPT ![u] = NoState] =>
                    /\ Tracked' = Tracked \ {u}
                    /\ Cardinality(Tracked') = Cardinality(Tracked) - 1
           /\ \A u \in Urbs, st \in States :
                 st # NoState /\ inflight' = [inflight EXCEPT ![u] = st] =>
                    /\ Tracked' = Tracked \cup {u}
                    /\ Cardinality(Tracked') = IF u \in Tracked THEN Cardinality(Tracked)
                                               ELSE Cardinality(Tracked) + 1
  <1>1. IsFiniteSet(Tracked) /\ Cardinality(Tracked) \in Nat
    <2>1. Tracked \subseteq Urbs
      BY DEF Tracked
    <2>2. QED
      BY <2>1, ConstantsAssumption, FS_Subset, FS_CardinalityType
  <1>2. inflight' = inflight => Tracked' = Tracked
    BY DEF Tracked
  <1>3. ASSUME NEW u \in Tracked, inflight' = [inflight EXCEPT ![u] = NoState]
        PROVE  /\ Tracked' = Tracked \ {u}
               /\ Cardinality(Tracked') = Cardinality(Tracked) - 1
    <2>1. Tracked' = Tracked \ {u}
      BY <1>3 DEF Tracked, TypeOK
    <2>2. QED
      BY <1>1, <2>1, FS_RemoveElement
  <1>4. ASSUME NEW u \in Urbs, NEW st \in States, st # NoState,
               inflight' = [inflight EXCEPT ![u] = st]
        PROVE  /\ Tracked' = Tracked \cup {u}
               /\ Cardinality(Tracked') = IF u \in Tracked THEN Cardinality(Tracked)
                                          ELSE Cardinality(Tracked) + 1
    <2>1. Tracked' = Tracked \cup {u}
      BY <1>4 DEF Tracked, TypeOK
    <2>2. QED
      BY <1>1, <2>1, FS_AddElement
  <1>5. QED
    BY <1>1, <1>2, <1>3, <1>4

\* An entry with an id, or one whose status was noted, is not the absent entry.
LEMMA EntryLemma ==
    /\ \A id \in Nat \ {0} :
          LET st == [id |-> id, status |-> 0, ready |-> FALSE]
          IN  st \in States /\ st # NoState /\ st.id = id /\ st.ready = FALSE
    /\ \A st \in States, status \in Int :
          LET noted == Noted(st, status)
          IN  /\ noted \in States /\ noted # NoState /\ noted.id = st.id
              /\ noted.status = status /\ noted.ready = TRUE
  <1>1. ASSUME NEW id \in Nat \ {0}
        PROVE  LET st == [id |-> id, status |-> 0, ready |-> FALSE]
               IN  st \in States /\ st # NoState /\ st.id = id /\ st.ready = FALSE
    BY DEF States, NoState
  <1>2. ASSUME NEW st \in States, NEW status \in Int
        PROVE  LET noted == Noted(st, status)
               IN  /\ noted \in States /\ noted # NoState /\ noted.id = st.id
                   /\ noted.status = status /\ noted.ready = TRUE
    BY DEF States, NoState, Noted
  <1>3. QED
    BY <1>1, <1>2

\* Every step keeps the report consistent with INFLIGHT: a counted submission
\* adds an entry or replaces a stale one, an entry only goes with a count.
LEMMA InFlightLemma ==
    TypeOK /\ InFlightReport /\ [Next]_vars => InFlightReport'
  <1> SUFFICES ASSUME TypeOK, InFlightReport, [Next]_vars PROVE InFlightReport'
    OBVIOUS
  <1> USE ConstantsAssumption
  <1>t. TypeOK'
    BY TypeLemma
  <1>a. /\ stats \in Counters
        /\ {"submitted", "completed", "submit_errors", "state_errors"} \subseteq
              CounterNames \ {"read_errors", "ring_losses"}
        /\ "read_errors" \in CounterNames /\ "ring_losses" \in CounterNames
    BY DEF TypeOK, Counters, CounterNames
  <1>s. stats \in Counters
    BY DEF TypeOK, Counters
  <1>c. "completed" \in CounterNames
    BY DEF CounterNames
  <1>e. "submit_errors" \in CounterNames
    BY DEF CounterNames
  <1>r. "read_errors" \in CounterNames
    BY DEF CounterNames
  <1>z. "state_errors" \in CounterNames
    BY DEF CounterNames
  <1>n. /\ Cardinality(Tracked) \in Nat
        /\ \A c \in CounterNames : stats[c] \in Nat
    BY <1>t, TrackedLemma DEF TypeOK
  <1>f. ASSUME Tracked' = Tracked, stats' = stats \/ \E c \in {"read_errors", "state_errors"} :
                                                     stats' = Count(stats, c)
        PROVE  InFlightReport'
    <2>1. CASE stats' = stats
      BY <1>f, <2>1 DEF InFlightReport
    <2>2. ASSUME NEW c \in {"read_errors", "state_errors"}, stats' = Count(stats, c)
          PROVE  InFlightReport'
      <3>1. /\ stats'["submitted"] = stats["submitted"]
            /\ stats'["completed"] = stats["completed"]
            /\ stats'["submit_errors"] = stats["submit_errors"]
            /\ stats'["state_errors"] \in {stats["state_errors"], stats["state_errors"] + 1}
        <4>1. CASE c = "read_errors"
          BY <1>r, <1>s, <2>2, <4>1, CountEach
        <4>2. CASE c = "state_errors"
          BY <1>z, <1>s, <2>2, <4>2, CountEach
        <4>3. QED
          BY <2>2, <4>1, <4>2
      <3>2. QED
        BY <1>a, <1>n, <1>f, <3>1 DEF InFlightReport
    <2>3. QED
      BY <1>f, <2>1, <2>2
  <1>1. CASE Attach \/ Enable \/ Disable \/ Drop \/ Detach
    BY <1>1, <1>f, <1>t, TrackedLemma DEF Attach, Enable, Disable, Drop, Detach, tracking
  <1>2. ASSUME NEW u \in Urbs, SubmitEntry(u) PROVE InFlightReport'
    <2>1. CASE SubmitUntracked(u)
      BY <2>1, <1>f, <1>t, TrackedLemma DEF SubmitUntracked
    <2>s. /\ CountStale(u) \in Counters
          /\ \A c \in CounterNames \ {"state_errors"} : CountStale(u)[c] = stats[c]
          /\ CountStale(u)["state_errors"]
                = IF u \in Tracked THEN stats["state_errors"] + 1 ELSE stats["state_errors"]
      BY <1>a, CountLemma DEF CountStale
    <2>2. CASE SubmitDropped(u)
      <3>1. Tracked' = Tracked
        BY <2>2, <1>t, TrackedLemma DEF SubmitDropped
      <3>2. /\ stats'["submitted"] = stats["submitted"]
            /\ stats'["completed"] = stats["completed"]
            /\ stats'["submit_errors"] = stats["submit_errors"]
            /\ stats'["state_errors"] \in {stats["state_errors"] + 1, stats["state_errors"] + 2}
        <4>1. stats' = Count(CountStale(u), "state_errors")
          BY <2>2 DEF SubmitDropped
        <4>2. stats'["state_errors"] = CountStale(u)["state_errors"] + 1
          BY <1>a, <2>s, <4>1, CountLemma
        <4>3. \A c \in CounterNames \ {"state_errors"} : stats'[c] = CountStale(u)[c]
          BY <1>a, <2>s, <4>1, CountLemma
        <4>4. QED
          BY <1>a, <1>n, <2>s, <4>2, <4>3
      <3>3. QED
        BY <1>a, <1>n, <3>1, <3>2 DEF InFlightReport
    <2>3. CASE SubmitTracked(u)
      <3> DEFINE id == NextId(sequence)
                 event == EventOf(u, id, "S", EINPROGRESS, id)
                 counts == Count(CountStale(u), "submitted")
      <3>1. id \in Nat \ {0} /\ EINPROGRESS \in Int
        BY DEF TypeOK, NextId, EINPROGRESS
      <3>2. event \in Events /\ \A n \in Nat : WithId(event, n) \in Events
        BY <3>1, EventLemma
      <3>3. /\ counts \in Counters
            /\ counts["submitted"] = stats["submitted"] + 1
            /\ counts["completed"] = stats["completed"]
            /\ counts["submit_errors"] = stats["submit_errors"]
            /\ counts["state_errors"] = CountStale(u)["state_errors"]
        <4>1. /\ counts \in Counters
              /\ counts["submitted"] = CountStale(u)["submitted"] + 1
              /\ \A c \in CounterNames : c # "submitted" => counts[c] = CountStale(u)[c]
          BY <1>a, <2>s, CountLemma
        <4> HIDE DEF counts
        <4>2. QED
          BY <1>a, <2>s, <4>1
      <3>4. Emit(event, id, counts)
        BY <2>3 DEF SubmitTracked
      <3>5. inflight' = [inflight EXCEPT ![u] = [id |-> id, status |-> 0, ready |-> FALSE]]
        BY <2>3 DEF SubmitTracked
      <3> HIDE DEF event, id, counts
      <3>6. \A c \in CounterNames \ {"read_errors", "ring_losses"} : stats'[c] = counts[c]
        BY <3>1, <3>2, <3>3, <3>4, EmitLemma
      <3>7. Cardinality(Tracked') = IF u \in Tracked THEN Cardinality(Tracked)
                                    ELSE Cardinality(Tracked) + 1
        BY <1>t, <3>1, <3>5, EntryLemma, TrackedLemma
      <3>8. QED
        BY <1>a, <1>n, <2>s, <3>3, <3>6, <3>7 DEF InFlightReport
    <2>4. QED
      BY <1>2, <2>1, <2>2, <2>3 DEF SubmitEntry
  <1>3. ASSUME NEW u \in Urbs, Queue(u) \/ DmaSync(u) PROVE InFlightReport'
    BY <1>3, <1>f, <1>t, TrackedLemma DEF Queue, ReturnUnread, DmaSync, tracking
  <1>4. ASSUME NEW u \in Urbs, SubmitFails(u) PROVE InFlightReport'
    <2>1. CASE UNCHANGED tracking
      BY <2>1, <1>f, <1>t, TrackedLemma DEF tracking
    <2>2. CASE stats' = Count(stats, "state_errors") /\ inflight' = inflight
      BY <2>2, <1>f, <1>t, TrackedLemma
    <2>3. ASSUME NEW status \in Errors, inflight[u] # NoState, SubmitError(u, status)
          PROVE  InFlightReport'
      <3> DEFINE event == EventOf(u, inflight[u].id, "E", status, owner[u])
                 counts == Count(stats, "submit_errors")
      <3>1. event \in Events /\ \A n \in Nat : WithId(event, n) \in Events
        BY EventLemma DEF TypeOK, States
      <3>2. /\ counts \in Counters
            /\ counts["submit_errors"] = stats["submit_errors"] + 1
            /\ counts["submitted"] = stats["submitted"]
            /\ counts["completed"] = stats["completed"]
            /\ counts["state_errors"] = stats["state_errors"]
        BY <1>e, <1>s, CountEach
      <3>3. Emit(event, sequence, counts)
        BY <2>3 DEF SubmitError
      <3>4. Cardinality(Tracked') = Cardinality(Tracked) - 1
        BY <2>3, <1>t, TrackedLemma DEF SubmitError, Tracked
      <3> HIDE DEF event, counts
      <3>5. \A c \in CounterNames \ {"read_errors", "ring_losses"} : stats'[c] = counts[c]
        BY <3>1, <3>2, <3>3, EmitLemma DEF TypeOK
      <3>6. QED
        BY <1>a, <1>n, <3>2, <3>4, <3>5 DEF InFlightReport
    <2>4. QED
      BY <1>4, <2>1, <2>2, <2>3 DEF SubmitFails, ReturnUnread, SubmitError
  <1>5. ASSUME NEW u \in Urbs, Giveback(u) PROVE InFlightReport'
    <2>1. CASE UNCHANGED tracking
      BY <2>1, <1>f, <1>t, TrackedLemma DEF tracking
    <2>2. ASSUME NEW status \in Statuses, ObserveGiveback(u, status) PROVE InFlightReport'
      <3>1. CASE inflight' = inflight
        BY <2>2, <3>1, <1>f, <1>t, TrackedLemma DEF ObserveGiveback
      <3>2. CASE /\ u \in Tracked
                 /\ inflight' = [inflight EXCEPT ![u] = Noted(@, status)]
                 /\ stats' = stats
        <4> DEFINE noted == Noted(inflight[u], status)
        <4>1. inflight[u] \in States /\ status \in Int
          BY DEF TypeOK
        <4>2. noted \in States /\ noted # NoState
          BY <4>1, EntryLemma
        <4>3. inflight' = [inflight EXCEPT ![u] = noted]
          BY <3>2 DEF TypeOK
        <4> HIDE DEF noted
        <4>4. Tracked' = Tracked \cup {u}
          BY <1>t, <4>2, <4>3, TrackedLemma
        <4>5. QED
          BY <3>2, <4>4, <1>f
      <3>3. QED
        BY <2>2, <3>1, <3>2 DEF ObserveGiveback
    <2>3. QED
      BY <1>5, <2>1, <2>2 DEF Giveback
  <1>6. ASSUME NEW u \in Urbs, NEW caller \in Callers, Complete(u, caller)
        PROVE  InFlightReport'
    <2>1. CASE UNCHANGED tracking
      BY <2>1, <1>f, <1>t, TrackedLemma DEF tracking
    <2>2. CASE stats' = Count(stats, "state_errors") /\ inflight' = inflight
      BY <2>2, <1>f, <1>t, TrackedLemma
    <2>3. CASE u \in Tracked /\ inflight' = [inflight EXCEPT ![u] = NoState] /\ NotReady
      <3>1. Cardinality(Tracked') = Cardinality(Tracked) - 1
        BY <2>3, <1>t, TrackedLemma
      <3>2. /\ stats'["submitted"] = stats["submitted"]
            /\ stats'["completed"] = stats["completed"]
            /\ stats'["submit_errors"] = stats["submit_errors"]
            /\ stats'["state_errors"] = stats["state_errors"] + 1
        <4>1. stats' = Count(stats, "state_errors")
          BY <2>3 DEF NotReady
        <4>2. QED
          BY <1>z, <1>s, <4>1, CountEach
      <3>3. QED
        BY <1>a, <1>n, <3>1, <3>2 DEF InFlightReport
    <2>4. CASE u \in Tracked /\ inflight' = [inflight EXCEPT ![u] = NoState] /\ Completed(u)
      <3> DEFINE event == EventOf(u, inflight[u].id, "C", inflight[u].status, owner[u])
                 counts == Count(stats, "completed")
      <3>1. event \in Events /\ \A n \in Nat : WithId(event, n) \in Events
        BY EventLemma DEF TypeOK, States
      <3>2. /\ counts \in Counters
            /\ counts["completed"] = stats["completed"] + 1
            /\ counts["submitted"] = stats["submitted"]
            /\ counts["submit_errors"] = stats["submit_errors"]
            /\ counts["state_errors"] = stats["state_errors"]
        BY <1>c, <1>s, CountEach
      <3>3. Emit(event, sequence, counts)
        BY <2>4 DEF Completed
      <3>4. Cardinality(Tracked') = Cardinality(Tracked) - 1
        BY <2>4, <1>t, TrackedLemma
      <3> HIDE DEF event, counts
      <3>5. \A c \in CounterNames \ {"read_errors", "ring_losses"} : stats'[c] = counts[c]
        BY <3>1, <3>2, <3>3, EmitLemma DEF TypeOK
      <3>6. QED
        BY <1>a, <1>n, <3>2, <3>4, <3>5 DEF InFlightReport
    <2>5. QED
      BY <1>6, <2>1, <2>2, <2>3, <2>4 DEF Complete
  <1>7. ASSUME NEW u \in Urbs, Unanchor(u) \/ UnanchorElsewhere(u) PROVE InFlightReport'
    <2>1. CASE UNCHANGED tracking
      BY <2>1, <1>f, <1>t, TrackedLemma DEF tracking
    <2>2. CASE \E caller \in Callers : Complete(u, caller)
      BY <1>6, <2>2
    <2>3. QED
      BY <1>7, <2>1, <2>2 DEF Unanchor, UnanchorElsewhere
  <1>8. CASE UNCHANGED vars
    BY <1>8, <1>f, <1>t, TrackedLemma DEF vars
  <1>9. QED
    BY <1>1, <1>2, <1>3, <1>4, <1>5, <1>7, <1>8 DEF Next

\* The number of URBs reported as still in flight is never below the number of
\* entries in INFLIGHT and exceeds it by at most the reported state errors.
THEOREM InFlightCorrect == Spec => []InFlightReport
  <1>1. Init => InFlightReport
    <2> SUFFICES ASSUME Init PROVE InFlightReport
      OBVIOUS
    <2>1. Tracked = {}
      BY DEF Init, Tracked
    <2>2. Cardinality(Tracked) = 0
      BY <2>1, FS_EmptySet
    <2>3. QED
      BY <2>2 DEF Init, InFlightReport, CounterNames
  <1>2. QED
    BY <1>1, InFlightLemma, TypeCorrect, PTL DEF Spec

-----------------------------------------------------------------------------
(* The life of an id *)

\* Ids in INFLIGHT were drawn, differ from each other and from the ids of events,
\* and have no outcome yet; an event was numbered after its URB.
LifeInv ==
    /\ \A u \in Tracked : 1 <= inflight[u].id /\ inflight[u].id <= sequence
    /\ \A u, v \in Tracked : inflight[u].id = inflight[v].id => u = v
    /\ \A e \in events : /\ 1 <= e.urb_id /\ e.urb_id < e.event_id
                         /\ e.event_id <= sequence
    /\ \A e \in events, u \in Tracked :
          /\ e.event_id # inflight[u].id
          /\ e.type # "S" => e.urb_id # inflight[u].id
    /\ OneLifecycle

\* What a step may do to ids: nothing new, a submission under a fresh id, or the
\* outcome of an entry that goes.
NoNewId ==
    /\ \A u \in Urbs : inflight'[u] # NoState =>
          inflight[u] # NoState /\ inflight'[u].id = inflight[u].id
    /\ events' = events
    /\ sequence' \in Nat /\ sequence <= sequence'

FreshId(u) ==
    /\ \A v \in Urbs \ {u} : inflight'[v] = inflight[v]
    /\ inflight'[u].id = sequence + 1
    /\ sequence' \in Nat /\ sequence + 1 <= sequence'
    /\ \/ events' = events
       \/ \E e \in Events :
             /\ events' = events \cup {e}
             /\ e.type = "S" /\ e.urb_id = sequence + 1
             /\ e.event_id = sequence + 2 /\ sequence' = sequence + 2

Outcome(u) ==
    /\ u \in Tracked
    /\ inflight' = [inflight EXCEPT ![u] = NoState]
    /\ sequence' \in Nat /\ sequence <= sequence'
    /\ \/ events' = events
       \/ \E e \in Events :
             /\ events' = events \cup {e}
             /\ e.type # "S" /\ e.urb_id = inflight[u].id
             /\ e.event_id = sequence + 1 /\ sequence' = sequence + 1

\* Each step is of one of these kinds.
LEMMA StepKinds ==
    TypeOK /\ [Next]_vars =>
       NoNewId \/ \E u \in Urbs : FreshId(u) \/ Outcome(u)
  <1> SUFFICES ASSUME TypeOK, [Next]_vars
               PROVE  NoNewId \/ \E u \in Urbs : FreshId(u) \/ Outcome(u)
    OBVIOUS
  <1> USE ConstantsAssumption
  <1>a. stats \in Counters /\ {"submitted", "completed", "submit_errors"} \subseteq CounterNames
    BY DEF TypeOK, Counters, CounterNames
  <1>q. ASSUME inflight' = inflight, events' = events,
               sequence' = sequence \/ sequence' = NextId(sequence)
        PROVE  NoNewId
    BY <1>q DEF NoNewId, TypeOK, NextId
  <1>1. CASE Attach \/ Enable \/ Disable \/ Drop \/ Detach
    BY <1>1, <1>q DEF Attach, Enable, Disable, Drop, Detach, tracking
  <1>2. ASSUME NEW u \in Urbs, SubmitEntry(u) PROVE NoNewId \/ FreshId(u)
    <2>1. CASE SubmitUntracked(u) \/ SubmitDropped(u)
      BY <2>1, <1>q DEF SubmitUntracked, SubmitDropped
    <2>2. CASE SubmitTracked(u)
      <3> DEFINE id == NextId(sequence)
                 event == EventOf(u, id, "S", EINPROGRESS, id)
                 counts == Count(CountStale(u), "submitted")
                 e == WithId(event, id + 1)
      <3>1. id \in Nat /\ id = sequence + 1 /\ EINPROGRESS \in Int
        BY DEF TypeOK, NextId, EINPROGRESS
      <3>2. event \in Events /\ \A n \in Nat : WithId(event, n) \in Events
        BY <3>1, EventLemma
      <3>3. e \in Events /\ e.type = "S" /\ e.urb_id = id /\ e.event_id = id + 1
        BY <3>1, EventLemma
      <3>4. counts \in Counters
        <4>1. "state_errors" \in CounterNames
          BY DEF CounterNames
        <4>2. CountStale(u) \in Counters
          BY <1>a, <4>1, CountLemma DEF CountStale
        <4>3. QED
          BY <1>a, <4>2, CountLemma
      <3>5. Emit(event, id, counts)
        BY <2>2 DEF SubmitTracked
      <3>6. inflight' = [inflight EXCEPT ![u] = [id |-> id, status |-> 0, ready |-> FALSE]]
        BY <2>2 DEF SubmitTracked
      <3>7. inflight'[u].id = id /\ \A v \in Urbs \ {u} : inflight'[v] = inflight[v]
        BY <3>6 DEF TypeOK
      <3> HIDE DEF event, id, counts
      <3>8. /\ sequence' \in Nat /\ id <= sequence'
            /\ \/ sequence' = id + 1 /\ events' = events \cup {WithId(event, id + 1)}
               \/ events' = events
        BY <3>1, <3>2, <3>4, <3>5, EmitLemma
      <3> HIDE DEF e
      <3>9. \/ sequence' = id + 1 /\ events' = events \cup {e}
            \/ events' = events
        BY <3>8 DEF e
      <3>10. FreshId(u)
        BY <3>1, <3>3, <3>7, <3>8, <3>9 DEF FreshId, TypeOK
      <3>11. QED
        BY <3>10
    <2>3. QED
      BY <1>2, <2>1, <2>2 DEF SubmitEntry
  <1>3. ASSUME NEW u \in Urbs, Queue(u) \/ DmaSync(u) PROVE NoNewId
    BY <1>3, <1>q DEF Queue, ReturnUnread, DmaSync, tracking
  <1>4. ASSUME NEW u \in Urbs, NEW type \in {"C", "E"}, NEW status \in Int,
               NEW f \in {"completed", "submit_errors"}, u \in Tracked,
               inflight' = [inflight EXCEPT ![u] = NoState],
               Emit(EventOf(u, inflight[u].id, type, status, owner[u]), sequence, Count(stats, f))
        PROVE  Outcome(u)
    <2> DEFINE event == EventOf(u, inflight[u].id, type, status, owner[u])
               e == WithId(event, sequence + 1)
    <2>1. inflight[u].id \in Nat /\ owner[u] \in Nat /\ sequence \in Nat
      BY DEF TypeOK, States
    <2>2. event \in Events /\ \A n \in Nat : WithId(event, n) \in Events
      BY <2>1, EventLemma
    <2>3. e \in Events /\ e.type = type /\ e.urb_id = inflight[u].id /\ e.event_id = sequence + 1
      BY <2>1, EventLemma
    <2>4. Count(stats, f) \in Counters
      BY <1>a, CountLemma
    <2>5. Emit(event, sequence, Count(stats, f))
      BY <1>4
    <2> HIDE DEF event
    <2>6. /\ sequence' \in Nat /\ sequence <= sequence'
          /\ \/ sequence' = sequence + 1 /\ events' = events \cup {WithId(event, sequence + 1)}
             \/ events' = events
      BY <2>1, <2>2, <2>4, <2>5, EmitLemma
    <2>7. \/ sequence' = sequence + 1 /\ events' = events \cup {e}
          \/ events' = events
      BY <2>6
    <2> HIDE DEF e
    <2>8. QED
      BY <1>4, <2>3, <2>6, <2>7 DEF Outcome
  <1>5. ASSUME NEW u \in Urbs, SubmitFails(u) PROVE NoNewId \/ Outcome(u)
    <2>1. CASE inflight' = inflight /\ events' = events /\ sequence' = sequence
      BY <2>1, <1>q
    <2>2. ASSUME NEW status \in Errors, inflight[u] # NoState, SubmitError(u, status)
          PROVE  Outcome(u)
      <3>1. status \in Int /\ u \in Tracked
        BY <2>2 DEF Tracked
      <3>2. QED
        BY <2>2, <3>1, <1>4 DEF SubmitError
    <2>3. QED
      BY <1>5, <2>1, <2>2 DEF SubmitFails, ReturnUnread, SubmitError, tracking
  <1>6. ASSUME NEW u \in Urbs, Giveback(u) PROVE NoNewId
    <2>1. CASE UNCHANGED tracking
      BY <2>1, <1>q DEF tracking
    <2>2. ASSUME NEW status \in Statuses, ObserveGiveback(u, status) PROVE NoNewId
      <3>1. CASE inflight' = inflight
        BY <2>2, <3>1, <1>q DEF ObserveGiveback
      <3>2. CASE u \in Tracked /\ inflight' = [inflight EXCEPT ![u] = Noted(@, status)]
        <4>1. inflight[u] \in States /\ status \in Int /\ inflight[u] # NoState
          BY <3>2 DEF TypeOK, Tracked
        <4>2. Noted(inflight[u], status).id = inflight[u].id
          BY <4>1, EntryLemma
        <4>3. /\ inflight'[u] = Noted(inflight[u], status)
              /\ \A v \in Urbs \ {u} : inflight'[v] = inflight[v]
          BY <3>2 DEF TypeOK
        <4>4. events' = events /\ sequence' = sequence
          BY <2>2 DEF ObserveGiveback
        <4>5. QED
          BY <4>1, <4>2, <4>3, <4>4 DEF NoNewId, TypeOK
      <3>3. QED
        BY <2>2, <3>1, <3>2 DEF ObserveGiveback
    <2>3. QED
      BY <1>6, <2>1, <2>2 DEF Giveback
  <1>7. ASSUME NEW u \in Urbs, NEW caller \in Callers, Complete(u, caller)
        PROVE  NoNewId \/ Outcome(u)
    <2>1. CASE inflight' = inflight /\ events' = events /\ sequence' = sequence
      BY <2>1, <1>q
    <2>2. CASE u \in Tracked /\ inflight' = [inflight EXCEPT ![u] = NoState] /\ NotReady
      BY <2>2 DEF NotReady, Outcome, TypeOK
    <2>3. CASE u \in Tracked /\ inflight' = [inflight EXCEPT ![u] = NoState] /\ Completed(u)
      <3>1. inflight[u].status \in Int
        BY DEF TypeOK, States
      <3>2. QED
        BY <2>3, <3>1, <1>4 DEF Completed
    <2>4. QED
      BY <1>7, <2>1, <2>2, <2>3 DEF Complete, tracking
  <1>8. ASSUME NEW u \in Urbs, Unanchor(u) \/ UnanchorElsewhere(u) PROVE NoNewId \/ Outcome(u)
    BY <1>7, <1>8, <1>q DEF Unanchor, UnanchorElsewhere, tracking
  <1>9. CASE UNCHANGED vars
    BY <1>9, <1>q DEF vars
  <1>10. QED
    BY <1>1, <1>2, <1>3, <1>5, <1>6, <1>8, <1>9 DEF Next

\* Each kind of step keeps LifeInv.
LEMMA LifeLemma == TypeOK /\ LifeInv /\ [Next]_vars => LifeInv'
  <1> SUFFICES ASSUME TypeOK, LifeInv, [Next]_vars PROVE LifeInv'
    OBVIOUS
  <1>a. /\ \A u \in Tracked : inflight[u].id \in Nat
        /\ \A e \in events : e.event_id \in Nat /\ e.urb_id \in Nat
        /\ sequence \in Nat
    BY DEF TypeOK, States, Events, Tracked
  <1>1. CASE NoNewId
    <2>1. /\ \A u \in Tracked' : u \in Tracked /\ inflight'[u].id = inflight[u].id
          /\ events' = events /\ sequence <= sequence' /\ sequence' \in Nat
      BY <1>1 DEF NoNewId, Tracked
    <2>2. QED
      BY <1>a, <2>1 DEF LifeInv, OneLifecycle
  <1>2. ASSUME NEW u \in Urbs, FreshId(u) PROVE LifeInv'
    <2>1. /\ \A v \in Tracked' : \/ v \in Tracked /\ inflight'[v].id = inflight[v].id
                                 \/ v = u /\ inflight'[v].id = sequence + 1
          /\ sequence + 1 <= sequence' /\ sequence' \in Nat
      BY <1>2 DEF FreshId, Tracked
    <2>2. CASE events' = events
      BY <1>a, <2>1, <2>2 DEF LifeInv, OneLifecycle
    <2>3. ASSUME NEW e \in Events, events' = events \cup {e},
                 e.type = "S", e.urb_id = sequence + 1,
                 e.event_id = sequence + 2, sequence' = sequence + 2
          PROVE  LifeInv'
      <3>1. OneLifecycle'
        BY <1>a, <2>3 DEF LifeInv, OneLifecycle
      <3>2. QED
        BY <1>a, <2>1, <2>3, <3>1 DEF LifeInv
    <2>4. QED
      BY <1>2, <2>2, <2>3 DEF FreshId
  <1>3. ASSUME NEW u \in Urbs, Outcome(u) PROVE LifeInv'
    <2>1. /\ \A v \in Tracked' : v \in Tracked /\ v # u /\ inflight'[v].id = inflight[v].id
          /\ sequence <= sequence' /\ sequence' \in Nat /\ u \in Tracked
      BY <1>3 DEF Outcome, Tracked, TypeOK
    <2>2. CASE events' = events
      BY <1>a, <2>1, <2>2 DEF LifeInv, OneLifecycle
    <2>3. ASSUME NEW e \in Events, events' = events \cup {e},
                 e.type # "S", e.urb_id = inflight[u].id,
                 e.event_id = sequence + 1, sequence' = sequence + 1
          PROVE  LifeInv'
      <3>1. OneLifecycle'
        BY <1>a, <2>1, <2>3 DEF LifeInv, OneLifecycle
      <3>2. QED
        BY <1>a, <2>1, <2>3, <3>1 DEF LifeInv
    <2>4. QED
      BY <1>3, <2>2, <2>3 DEF Outcome
  <1>4. QED
    BY <1>1, <1>2, <1>3, StepKinds

\* No id is ever used twice: under each urb_id there is at most one submission
\* and at most one outcome, in that order, for every interleaving of the probes.
THEOREM LifecycleCorrect == Spec => []OneLifecycle
  <1>1. Init => LifeInv
    BY DEF Init, LifeInv, OneLifecycle, Tracked
  <1>2. LifeInv => OneLifecycle
    BY DEF LifeInv
  <1>3. QED
    BY <1>1, <1>2, LifeLemma, TypeCorrect, PTL DEF Spec

-----------------------------------------------------------------------------
(* When a completion is read *)

\* What emit() may add: an event that says what the probe and the kernel know of
\* the URB; no other counter than its own two changes.
LEMMA PublishedLemma ==
    ASSUME TypeOK, NEW u \in Urbs, NEW id \in Nat, NEW type \in {"S", "C", "E"},
           NEW status \in Int, NEW of \in Nat, NEW seq \in Nat, NEW s \in Counters,
           Emit(EventOf(u, id, type, status, of), seq, s)
    PROVE  /\ \A e \in events' : e \in events \/
                 /\ e.type = type /\ e.at = stage[u] /\ e.urb_id = id /\ e.of = of
                 /\ e.status = status /\ e.actual = result[u]
                 /\ e.window = (phase = "detaching")
           /\ \A c \in CounterNames \ {"read_errors", "ring_losses"} : stats'[c] = s[c]
  <1> DEFINE event == EventOf(u, id, type, status, of)
             e == WithId(event, seq + 1)
  <1>1. event \in Events /\ \A n \in Nat : WithId(event, n) \in Events
    BY EventLemma
  <1>2. /\ e.type = type /\ e.at = stage[u] /\ e.urb_id = id /\ e.of = of
        /\ e.status = status /\ e.actual = result[u]
        /\ e.window = (phase = "detaching")
    <2>1. seq + 1 \in Nat
      OBVIOUS
    <2>2. QED
      BY <2>1, EventLemma
  <1>3. Emit(event, seq, s)
    OBVIOUS
  <1> HIDE DEF event
  <1>4. /\ events' = events \/ events' = events \cup {e}
        /\ \A c \in CounterNames \ {"read_errors", "ring_losses"} : stats'[c] = s[c]
    BY <1>1, <1>3, EmitLemma
  <1> HIDE DEF e
  <1>5. QED
    BY <1>2, <1>4

\* complete() publishes for a caller inside giveback only, and giveback calls
\* usb_unanchor_urb after the unmap.
LEMMA SyncLemma == TypeOK /\ CompletionAfterSync /\ [Next]_vars => CompletionAfterSync'
  <1> SUFFICES ASSUME TypeOK, CompletionAfterSync, [Next]_vars
               PROVE  CompletionAfterSync'
    OBVIOUS
  <1> USE ConstantsAssumption
  <1>a. stats \in Counters /\ {"submitted", "completed", "submit_errors"} \subseteq CounterNames
    BY DEF TypeOK, Counters, CounterNames
  <1>q. ASSUME events' = events PROVE CompletionAfterSync'
    BY <1>q DEF CompletionAfterSync
  <1>p. ASSUME NEW type \in {"S", "E"}, NEW at,
               \A e \in events' : e \in events \/ (e.type = type /\ e.at = at)
        PROVE  CompletionAfterSync'
    BY <1>p DEF CompletionAfterSync
  <1>1. CASE Attach \/ Enable \/ Disable \/ Drop \/ Detach
    BY <1>1, <1>q DEF Attach, Enable, Disable, Drop, Detach, tracking
  <1>2. ASSUME NEW u \in Urbs, SubmitEntry(u) PROVE CompletionAfterSync'
    <2>1. CASE SubmitUntracked(u) \/ SubmitDropped(u)
      BY <2>1, <1>q DEF SubmitUntracked, SubmitDropped
    <2>2. CASE SubmitTracked(u)
      <3> DEFINE id == NextId(sequence)
                 counts == Count(CountStale(u), "submitted")
      <3>1. id \in Nat /\ EINPROGRESS \in Int
        BY DEF TypeOK, NextId, EINPROGRESS
      <3>2. counts \in Counters
        <4>1. "state_errors" \in CounterNames
          BY DEF CounterNames
        <4>2. CountStale(u) \in Counters
          BY <1>a, <4>1, CountLemma DEF CountStale
        <4>3. QED
          BY <1>a, <4>2, CountLemma
      <3>3. Emit(EventOf(u, id, "S", EINPROGRESS, id), id, counts)
        BY <2>2 DEF SubmitTracked
      <3> HIDE DEF id, counts
      <3>4. \A e \in events' : e \in events \/ (e.type = "S" /\ e.at = stage[u])
        BY <3>1, <3>2, <3>3, PublishedLemma
      <3>5. QED
        BY <3>4, <1>p
    <2>3. QED
      BY <1>2, <2>1, <2>2 DEF SubmitEntry
  <1>3. ASSUME NEW u \in Urbs, Queue(u) \/ DmaSync(u) PROVE CompletionAfterSync'
    BY <1>3, <1>q DEF Queue, ReturnUnread, DmaSync, tracking
  <1>4. ASSUME NEW u \in Urbs, SubmitFails(u) PROVE CompletionAfterSync'
    <2>1. ASSUME NEW status \in Errors, inflight[u] # NoState, SubmitError(u, status)
          PROVE  CompletionAfterSync'
      <3>1. inflight[u].id \in Nat /\ owner[u] \in Nat /\ sequence \in Nat /\ status \in Int
        BY DEF TypeOK, States
      <3>2. Count(stats, "submit_errors") \in Counters
        BY <1>a, CountLemma
      <3>3. Emit(EventOf(u, inflight[u].id, "E", status, owner[u]), sequence,
                 Count(stats, "submit_errors"))
        BY <2>1 DEF SubmitError
      <3>4. \A e \in events' : e \in events \/ (e.type = "E" /\ e.at = stage[u])
        BY <3>1, <3>2, <3>3, PublishedLemma
      <3>5. QED
        BY <3>4, <1>p
    <2>2. QED
      BY <1>4, <1>q, <2>1 DEF SubmitFails, ReturnUnread, SubmitError, tracking
  <1>5. ASSUME NEW u \in Urbs, Giveback(u) PROVE CompletionAfterSync'
    BY <1>5, <1>q DEF Giveback, ObserveGiveback, tracking
  <1>6. ASSUME NEW u \in Urbs, UnanchorElsewhere(u) PROVE CompletionAfterSync'
    <2>1. PICK caller \in Callers \ (GivebackStart .. (GivebackEnd - 1)) : Complete(u, caller)
      BY <1>6 DEF UnanchorElsewhere
    <2>2. ~FromGiveback(caller)
      BY <2>1 DEF FromGiveback
    <2>3. events' = events
      BY <2>1, <2>2 DEF Complete, tracking
    <2>4. QED
      BY <2>3, <1>q
  <1>7. ASSUME NEW u \in Urbs, Unanchor(u) PROVE CompletionAfterSync'
    <2>1. CASE events' = events
      BY <2>1, <1>q
    <2>2. CASE Completed(u)
      <3>1. inflight[u].id \in Nat /\ inflight[u].status \in Int
            /\ owner[u] \in Nat /\ sequence \in Nat
        BY DEF TypeOK, States
      <3>2. Count(stats, "completed") \in Counters
        BY <1>a, CountLemma
      <3>3. Emit(EventOf(u, inflight[u].id, "C", inflight[u].status, owner[u]), sequence,
                 Count(stats, "completed"))
        BY <2>2 DEF Completed
      <3>4. \A e \in events' : e \in events \/ (e.type = "C" /\ e.at = stage[u])
        BY <3>1, <3>2, <3>3, PublishedLemma
      <3>5. stage[u] = "synced"
        BY <1>7 DEF Unanchor
      <3>6. QED
        BY <3>4, <3>5 DEF CompletionAfterSync
    <2>3. QED
      BY <1>7, <2>1, <2>2 DEF Unanchor, Complete, NotReady, tracking
  <1>8. CASE UNCHANGED vars
    BY <1>8, <1>q DEF vars
  <1>9. QED
    BY <1>1, <1>2, <1>3, <1>4, <1>5, <1>6, <1>7, <1>8 DEF Next

\* Whatever return addresses usb_unanchor_urb is called from and wherever
\* __usb_hcd_giveback_urb lies, complete() reads a buffer after its DMA unmap.
THEOREM SyncCorrect == Spec => []CompletionAfterSync
  <1>1. Init => CompletionAfterSync
    BY DEF Init, CompletionAfterSync
  <1>2. QED
    BY <1>1, SyncLemma, TypeCorrect, PTL DEF Spec

-----------------------------------------------------------------------------
(* Outcomes and their submissions *)

\* An entry of INFLIGHT belongs to the submission the kernel has the URB in, and
\* a status noted in it is that of this submission.
Paired(u) ==
    inflight[u] # NoState =>
       /\ stage[u] # "free"
       /\ inflight[u].id = owner[u]
       /\ inflight[u].ready => /\ stage[u] \in {"giveback", "synced"}
                               /\ inflight[u].status = result[u]

\* Nothing is tracked before all probes are in place, all of them stay until the
\* detach, and until then each entry is paired unless a state error was counted.
PairInv ==
    /\ phase = "loading" => ~enabled /\ \A u \in Urbs : inflight[u] = NoState
    /\ phase \in {"running", "draining"} => attached = Probes
    /\ phase # "detaching" /\ stats["state_errors"] = 0 => \A u \in Urbs : Paired(u)
    /\ HonestPairing

\* A step that concerns one URB keeps PairInv if it keeps that URB paired and
\* what it publishes is honest, or counts a state error.
LEMMA OneUrbLemma ==
    ASSUME TypeOK, PairInv, NEW u \in Urbs, UNCHANGED collector,
           \A v \in Urbs \ {u} : /\ stage'[v] = stage[v] /\ result'[v] = result[v]
                                 /\ owner'[v] = owner[v] /\ inflight'[v] = inflight[v],
           stats'["state_errors"] = 0 => stats["state_errors"] = 0,
           phase = "loading" => inflight'[u] = NoState,
           phase # "detaching" /\ stats'["state_errors"] = 0 => Paired(u)',
           stats'["state_errors"] = 0 =>
              \A e \in events' : ~e.window /\ e \notin events =>
                 e.urb_id = e.of /\ (e.type = "C" => e.status = e.actual)
    PROVE  PairInv'
  <1>1. (phase = "loading" => ~enabled /\ \A v \in Urbs : inflight[v] = NoState)'
    BY DEF PairInv, collector
  <1>2. (phase \in {"running", "draining"} => attached = Probes)'
    BY DEF PairInv, collector
  <1>3. (phase # "detaching" /\ stats["state_errors"] = 0 => \A v \in Urbs : Paired(v))'
    <2>1. ASSUME NEW v \in Urbs \ {u} PROVE Paired(v)' <=> Paired(v)
      BY DEF Paired
    <2>2. QED
      BY <2>1 DEF PairInv, collector
  <1>4. HonestPairing'
    BY DEF PairInv, HonestPairing
  <1>5. QED
    BY <1>1, <1>2, <1>3, <1>4 DEF PairInv

\* Each step keeps PairInv.
LEMMA PairLemma == TypeOK /\ PairInv /\ [Next]_vars => PairInv'
  <1> SUFFICES ASSUME TypeOK, PairInv, [Next]_vars PROVE PairInv'
    OBVIOUS
  <1> USE ConstantsAssumption
  <1>a. /\ stats \in Counters /\ stats["state_errors"] \in Nat
        /\ CounterNames = {"submitted", "completed", "submit_errors",
                           "ring_losses", "read_errors", "state_errors"}
    BY DEF TypeOK, Counters, CounterNames
  <1>b. /\ Count(stats, "read_errors")["state_errors"] = stats["state_errors"]
        /\ Count(stats, "submit_errors")["state_errors"] = stats["state_errors"]
        /\ Count(stats, "completed")["state_errors"] = stats["state_errors"]
        /\ Count(stats, "state_errors")["state_errors"] # 0
    BY <1>a, CountLemma
  <1>c. \A f \in CounterNames : Count(stats, f) \in Counters
    BY <1>a, CountLemma
  <1>d. phase \in {"loading", "running", "draining", "detaching"}
    BY DEF TypeOK, Phases
  <1>1. CASE Attach \/ Enable \/ Disable \/ Drop \/ Detach
    <2>1. UNCHANGED <<kernel, tracking>>
      BY <1>1 DEF Attach, Enable, Disable, Drop, Detach
    <2>2. HonestPairing' /\ \A u \in Urbs : Paired(u)' <=> Paired(u)
      BY <2>1 DEF PairInv, HonestPairing, Paired, kernel, tracking
    <2>3. QED
      BY <1>1, <1>d, <2>1, <2>2
         DEF PairInv, Attach, Enable, Disable, Drop, Detach, kernel, tracking
  <1>2. ASSUME NEW u \in Urbs, SubmitEntry(u) PROVE PairInv'
    <2>1. /\ UNCHANGED collector /\ stage[u] = "free" /\ stage'[u] = "entered"
          /\ \A v \in Urbs \ {u} : stage'[v] = stage[v] /\ result'[v] = result[v]
      BY <1>2 DEF SubmitEntry, TypeOK
    <2>2. phase # "detaching" /\ stats["state_errors"] = 0 => inflight[u] = NoState
      BY <2>1 DEF PairInv, Paired
    <2>3. CASE SubmitUntracked(u) \/ SubmitDropped(u)
      <3>1. /\ inflight' = inflight /\ events' = events
            /\ \A v \in Urbs \ {u} : owner'[v] = owner[v]
        BY <2>3 DEF SubmitUntracked, SubmitDropped, TypeOK
      <3>2. CountStale(u)["state_errors"] \in Nat /\ CountStale(u) \in Counters
        BY <1>a, <1>c DEF CountStale, Counters
      <3>3. Count(CountStale(u), "state_errors")["state_errors"] # 0
        BY <1>a, <3>2, CountLemma
      <3>4. stats'["state_errors"] = 0 => stats["state_errors"] = 0
        BY <2>3, <1>b, <3>3 DEF SubmitUntracked, SubmitDropped
      <3>5. phase = "loading" => inflight'[u] = NoState
        BY <3>1 DEF PairInv
      <3>6. phase # "detaching" /\ stats'["state_errors"] = 0 => Paired(u)'
        BY <2>2, <3>1, <3>4 DEF Paired
      <3>7. QED
        BY <2>1, <3>1, <3>4, <3>5, <3>6, OneUrbLemma
    <2>4. CASE SubmitTracked(u)
      <3> DEFINE id == NextId(sequence)
                 counts == Count(CountStale(u), "submitted")
      <3>1. id \in Nat /\ EINPROGRESS \in Int
        BY DEF TypeOK, NextId, EINPROGRESS
      <3>2. /\ counts \in Counters
            /\ counts["state_errors"] = 0 => stats["state_errors"] = 0
        <4>1. CountStale(u) \in Counters
          BY <1>a, <1>c DEF CountStale
        <4>2. CountStale(u)["state_errors"] = 0 => stats["state_errors"] = 0
          BY <1>b DEF CountStale
        <4>3. QED
          BY <1>a, <4>1, <4>2, CountLemma
      <3>3. Emit(EventOf(u, id, "S", EINPROGRESS, id), id, counts)
        BY <2>4 DEF SubmitTracked
      <3>4. /\ inflight'[u] = [id |-> id, status |-> 0, ready |-> FALSE]
            /\ owner'[u] = id /\ enabled
            /\ \A v \in Urbs \ {u} : inflight'[v] = inflight[v] /\ owner'[v] = owner[v]
        BY <2>4 DEF SubmitTracked, TypeOK
      <3>5. Paired(u)'
        BY <2>1, <3>4 DEF Paired
      <3> HIDE DEF id, counts
      <3>6. /\ \A e \in events' : e \in events \/ (e.type = "S" /\ e.urb_id = e.of)
            /\ stats'["state_errors"] = counts["state_errors"]
        BY <1>a, <3>1, <3>2, <3>3, PublishedLemma
      <3>7. phase # "loading"
        BY <3>4 DEF PairInv
      <3>8. QED
        BY <2>1, <3>2, <3>4, <3>5, <3>6, <3>7, OneUrbLemma
    <2>5. QED
      BY <1>2, <2>3, <2>4 DEF SubmitEntry
  <1>3. ASSUME NEW u \in Urbs, Queue(u) \/ DmaSync(u) PROVE PairInv'
    <2>1. /\ UNCHANGED <<result, owner, attached, enabled, phase, inflight, events>>
          /\ \A v \in Urbs \ {u} : stage'[v] = stage[v]
          /\ \/ stage[u] = "entered" /\ stage'[u] = "queued"
             \/ stage[u] = "giveback" /\ stage'[u] = "synced"
          /\ stats' = stats \/ stats' = Count(stats, "state_errors")
      BY <1>3 DEF Queue, ReturnUnread, DmaSync, collector, tracking, TypeOK
    <2>2. Paired(u) => Paired(u)'
      BY <2>1 DEF Paired
    <2>3. stats'["state_errors"] = 0 => stats["state_errors"] = 0
      BY <1>b, <2>1
    <2>4. QED
      BY <2>1, <2>2, <2>3, OneUrbLemma DEF PairInv, collector
  <1>4. ASSUME NEW u \in Urbs, SubmitFails(u) PROVE PairInv'
    <2>1. /\ UNCHANGED collector /\ stage[u] = "entered" /\ result' = result
          /\ \A v \in Urbs \ {u} : stage'[v] = stage[v] /\ owner'[v] = owner[v]
      BY <1>4 DEF SubmitFails, TypeOK
    <2>2. CASE stats' = Count(stats, "state_errors") /\ UNCHANGED <<inflight, events>>
      BY <2>1, <2>2, <1>b, OneUrbLemma DEF PairInv
    <2>3. CASE /\ UNCHANGED tracking
               /\ phase = "detaching" \/ "submit_error" \notin attached
                     \/ inflight[u] = NoState
      <3>1. phase # "detaching" => inflight'[u] = NoState
        BY <2>3, <1>d DEF PairInv, tracking, Probes
      <3>2. phase # "detaching" => Paired(u)'
        BY <3>1 DEF Paired
      <3>3. QED
        BY <2>1, <2>3, <3>1, <3>2, OneUrbLemma DEF tracking
    <2>4. ASSUME NEW status \in Errors, inflight[u] # NoState, SubmitError(u, status)
          PROVE  PairInv'
      <3>1. inflight[u].id \in Nat /\ owner[u] \in Nat /\ sequence \in Nat /\ status \in Int
        BY DEF TypeOK, States
      <3>2. Emit(EventOf(u, inflight[u].id, "E", status, owner[u]), sequence,
                 Count(stats, "submit_errors"))
        BY <2>4 DEF SubmitError
      <3>3. /\ inflight'[u] = NoState
            /\ \A v \in Urbs \ {u} : inflight'[v] = inflight[v]
        BY <2>4 DEF SubmitError, TypeOK
      <3>4. /\ \A e \in events' : e \in events \/
                  /\ e.type = "E" /\ e.urb_id = inflight[u].id /\ e.of = owner[u]
                  /\ e.window = (phase = "detaching")
            /\ stats'["state_errors"] = stats["state_errors"]
        BY <1>a, <1>b, <1>c, <3>1, <3>2, PublishedLemma
      <3>5. phase # "detaching" /\ stats["state_errors"] = 0 => inflight[u].id = owner[u]
        BY <2>4 DEF PairInv, Paired
      <3>6. Paired(u)'
        BY <3>3 DEF Paired
      <3>7. QED
        BY <2>1, <3>3, <3>4, <3>5, <3>6, OneUrbLemma
    <2>5. QED
      BY <1>4, <2>2, <2>3, <2>4 DEF SubmitFails, ReturnUnread, SubmitError
  <1>5. ASSUME NEW u \in Urbs, Giveback(u) PROVE PairInv'
    <2>1. /\ UNCHANGED <<owner, attached, enabled, phase>>
          /\ stage[u] = "queued" /\ stage'[u] = "giveback"
          /\ \A v \in Urbs \ {u} : stage'[v] = stage[v] /\ result'[v] = result[v]
      BY <1>5 DEF Giveback, collector, TypeOK
    <2>2. phase # "detaching" /\ stats["state_errors"] = 0 /\ inflight[u] # NoState =>
             inflight[u].id = owner[u] /\ ~inflight[u].ready
      BY <2>1 DEF PairInv, Paired
    <2>3. CASE inflight' = inflight /\ events' = events
                  /\ (stats' = stats \/ stats' = Count(stats, "read_errors"))
      <3>1. stats'["state_errors"] = stats["state_errors"]
        BY <2>3, <1>b
      <3>2. phase # "detaching" /\ stats'["state_errors"] = 0 => Paired(u)'
        BY <2>1, <2>2, <2>3, <3>1 DEF Paired
      <3>3. QED
        BY <2>1, <2>3, <3>1, <3>2, OneUrbLemma DEF PairInv, collector
    <2>4. ASSUME NEW status \in Statuses, result'[u] = status, u \in Tracked,
                 inflight' = [inflight EXCEPT ![u] = Noted(@, status)],
                 stats' = stats, events' = events
          PROVE  PairInv'
      <3>1. inflight[u] \in States /\ status \in Int /\ inflight[u] # NoState
        BY <2>4 DEF TypeOK, Tracked
      <3>2. Noted(inflight[u], status).id = inflight[u].id
            /\ Noted(inflight[u], status).status = status
        BY <3>1, EntryLemma
      <3>3. /\ inflight'[u] = Noted(inflight[u], status)
            /\ \A v \in Urbs \ {u} : inflight'[v] = inflight[v]
        BY <2>4 DEF TypeOK
      <3>4. phase # "detaching" /\ stats'["state_errors"] = 0 => Paired(u)'
        BY <2>1, <2>2, <2>4, <3>1, <3>2, <3>3 DEF Paired
      <3>5. phase # "loading"
        BY <3>1 DEF PairInv
      <3>6. QED
        BY <2>1, <2>4, <3>3, <3>4, <3>5, OneUrbLemma DEF collector
    <2>5. QED
      BY <1>5, <2>3, <2>4 DEF Giveback, ObserveGiveback, tracking, TypeOK
  <1>6. ASSUME NEW u \in Urbs, UnanchorElsewhere(u) PROVE PairInv'
    <2>1. PICK caller \in Callers \ (GivebackStart .. (GivebackEnd - 1)) : Complete(u, caller)
      BY <1>6 DEF UnanchorElsewhere
    <2>2. ~FromGiveback(caller)
      BY <2>1 DEF FromGiveback
    <2>3. UNCHANGED <<kernel, collector, tracking>>
      BY <1>6, <2>1, <2>2 DEF UnanchorElsewhere, Complete
    <2>4. QED
      BY <2>3 DEF PairInv, Paired, HonestPairing, kernel, collector, tracking
  <1>7. ASSUME NEW u \in Urbs, Unanchor(u) PROVE PairInv'
    <2>1. /\ UNCHANGED collector /\ stage[u] = "synced"
          /\ \A v \in Urbs \ {u} : /\ stage'[v] = stage[v] /\ owner'[v] = owner[v]
                                   /\ result'[v] = result[v]
      BY <1>7 DEF Unanchor, TypeOK
    <2>2. CASE stats' = Count(stats, "state_errors") /\ UNCHANGED <<inflight, events>>
      BY <2>1, <2>2, <1>b, OneUrbLemma DEF PairInv
    <2>3. CASE UNCHANGED tracking /\ ("complete" \notin attached \/ inflight[u] = NoState)
      <3>1. phase # "detaching" => inflight'[u] = NoState
        BY <2>3, <1>d DEF PairInv, tracking, Probes
      <3>2. phase # "detaching" => Paired(u)'
        BY <3>1 DEF Paired
      <3>3. QED
        BY <2>1, <2>3, <3>1, <3>2, OneUrbLemma DEF tracking
    <2>4. CASE u \in Tracked /\ inflight' = [inflight EXCEPT ![u] = NoState]
                  /\ (IF inflight[u].ready THEN Completed(u) ELSE NotReady)
      <3>1. /\ inflight'[u] = NoState /\ inflight[u] # NoState
            /\ \A v \in Urbs \ {u} : inflight'[v] = inflight[v]
        BY <2>4 DEF Tracked, TypeOK
      <3>2. Paired(u)'
        BY <3>1 DEF Paired
      <3>3. CASE NotReady
        BY <2>1, <3>1, <3>2, <3>3, <1>b, OneUrbLemma DEF NotReady
      <3>4. CASE Completed(u) /\ inflight[u].ready
        <4>1. inflight[u].id \in Nat /\ inflight[u].status \in Int
              /\ owner[u] \in Nat /\ sequence \in Nat
          BY DEF TypeOK, States
        <4>2. Emit(EventOf(u, inflight[u].id, "C", inflight[u].status, owner[u]), sequence,
                   Count(stats, "completed"))
          BY <3>4 DEF Completed
        <4>3. /\ \A e \in events' : e \in events \/
                    /\ e.urb_id = inflight[u].id /\ e.of = owner[u]
                    /\ e.status = inflight[u].status /\ e.actual = result[u]
                    /\ e.window = (phase = "detaching")
              /\ stats'["state_errors"] = stats["state_errors"]
          BY <1>a, <1>b, <1>c, <4>1, <4>2, PublishedLemma
        <4>4. phase # "detaching" /\ stats["state_errors"] = 0 =>
                 inflight[u].id = owner[u] /\ inflight[u].status = result[u]
          BY <3>1, <3>4 DEF PairInv, Paired
        <4>5. QED
          BY <2>1, <3>1, <3>2, <4>3, <4>4, OneUrbLemma
      <3>5. QED
        BY <2>4, <3>3, <3>4
    <2>5. QED
      <3>1. PICK caller \in GivebackStart .. (GivebackEnd - 1) :
               IF "complete" \in attached THEN Complete(u, caller) ELSE UNCHANGED tracking
        BY <1>7 DEF Unanchor
      <3>2. FromGiveback(caller)
        BY <3>1 DEF FromGiveback
      <3>3. QED
        BY <3>1, <3>2, <2>2, <2>3, <2>4 DEF Complete, Tracked
  <1>8. CASE UNCHANGED vars
    BY <1>8 DEF vars, PairInv, Paired, HonestPairing
  <1>9. QED
    BY <1>1, <1>2, <1>3, <1>4, <1>5, <1>6, <1>7, <1>8 DEF Next

\* However URBs are reused and whatever fails, an outcome published before the
\* detach is that of its own submission unless a state error has been counted.
THEOREM PairingCorrect == Spec => []HonestPairing
  <1>1. Init => PairInv
    BY DEF Init, PairInv, Paired, HonestPairing
  <1>2. PairInv => HonestPairing
    BY DEF PairInv
  <1>3. QED
    BY <1>1, <1>2, PairLemma, TypeCorrect, PTL DEF Spec

-----------------------------------------------------------------------------
(* Nothing vanishes *)

Counted(s) == s["submitted"] + s["completed"] + s["submit_errors"]
Explained(s) == s["ring_losses"] + s["read_errors"]

\* A step that counts nothing of an URB, and one that counts one submission or
\* outcome and publishes it under a new id or explains why it does not.
Uncounted ==
    /\ Counted(stats') = Counted(stats) /\ Explained(stats) <= Explained(stats')
    /\ events' = events

CountedOnce ==
    /\ Counted(stats') = Counted(stats) + 1
    /\ \/ events' = events /\ Explained(stats') = Explained(stats) + 1
       \/ /\ \E e \in Events : events' = events \cup {e} /\ sequence < e.event_id
          /\ Explained(stats') = Explained(stats)

\* The sums that count() can disturb are numbers.
LEMMA SumLemma ==
    ASSUME NEW s \in Counters
    PROVE  /\ Counted(s) \in Nat /\ Explained(s) \in Nat
           /\ \A f \in {"submitted", "completed", "submit_errors"} :
                 /\ Counted(Count(s, f)) = Counted(s) + 1
                 /\ Explained(Count(s, f)) = Explained(s)
           /\ Counted(Count(s, "state_errors")) = Counted(s)
           /\ Explained(Count(s, "state_errors")) = Explained(s)
           /\ \A f \in {"ring_losses", "read_errors"} :
                 /\ Counted(Count(s, f)) = Counted(s)
                 /\ Explained(Count(s, f)) = Explained(s) + 1
  <1>1. ASSUME NEW t \in Counters
        PROVE  /\ t["submitted"] \in Nat /\ t["completed"] \in Nat
               /\ t["submit_errors"] \in Nat /\ t["state_errors"] \in Nat
               /\ t["ring_losses"] \in Nat /\ t["read_errors"] \in Nat
    BY DEF CounterNames, Counters
  <1>2. ASSUME NEW f \in CounterNames
        PROVE  /\ Count(s, f) \in Counters
               /\ \A c \in CounterNames : Count(s, f)[c] = IF c = f THEN s[c] + 1 ELSE s[c]
    BY CountLemma
  <1>3. ASSUME NEW f \in CounterNames, NEW t \in Counters,
               \A c \in CounterNames : t[c] = IF c = f THEN s[c] + 1 ELSE s[c]
        PROVE  /\ f \in {"submitted", "completed", "submit_errors"} =>
                     Counted(t) = Counted(s) + 1 /\ Explained(t) = Explained(s)
               /\ f = "state_errors" => Counted(t) = Counted(s) /\ Explained(t) = Explained(s)
               /\ f \in {"ring_losses", "read_errors"} =>
                     Counted(t) = Counted(s) /\ Explained(t) = Explained(s) + 1
    BY <1>1, <1>3 DEF Counted, Explained, CounterNames
  <1>4. Counted(s) \in Nat /\ Explained(s) \in Nat
    BY <1>1 DEF Counted, Explained
  <1>5. {"submitted", "completed", "submit_errors", "ring_losses", "read_errors",
         "state_errors"} \subseteq CounterNames
    BY DEF CounterNames
  <1>6. QED
    BY <1>2, <1>3, <1>4, <1>5

\* A probe that counts its URB and calls emit() has it published or explained.
LEMMA EmitCountsLemma ==
    ASSUME TypeOK, NEW u \in Urbs, NEW id \in Nat, NEW type \in {"S", "C", "E"},
           NEW status \in Int, NEW of \in Nat, NEW seq \in Nat, sequence <= seq,
           NEW s \in Counters,
           Counted(s) = Counted(stats) + 1, Explained(s) = Explained(stats),
           Emit(EventOf(u, id, type, status, of), seq, s)
    PROVE  CountedOnce
  <1> DEFINE event == EventOf(u, id, type, status, of)
             e == WithId(event, seq + 1)
  <1>2. e \in Events /\ e.event_id = seq + 1
    <2>1. \A n \in Nat : LET w == WithId(event, n) IN w \in Events /\ w.event_id = n
      BY EventLemma
    <2> HIDE DEF event
    <2>2. QED
      BY <2>1
  <1>3. Emit(event, seq, s)
    OBVIOUS
  <1> HIDE DEF event
  <1>4. CASE /\ events' = events \cup {WithId(event, seq + 1)}
             /\ stats' = s
    <2>1. events' = events \cup {e} /\ sequence < e.event_id
      BY <1>2, <1>4 DEF TypeOK
    <2> HIDE DEF e
    <2>2. QED
      BY <1>2, <1>4, <2>1 DEF CountedOnce
  <1>5. CASE /\ events' = events
             /\ \/ stats' = Count(s, "read_errors")
                \/ stats' = Count(s, "ring_losses")
    BY <1>5, SumLemma DEF CountedOnce
  <1>6. QED
    BY <1>3, <1>4, <1>5 DEF Emit, RingLoss, NextId

\* Each step is of one of the two kinds.
LEMMA CountKinds == TypeOK /\ [Next]_vars => Uncounted \/ CountedOnce
  <1> SUFFICES ASSUME TypeOK, [Next]_vars PROVE Uncounted \/ CountedOnce
    OBVIOUS
  <1> USE ConstantsAssumption
  <1>a. stats \in Counters /\ sequence \in Nat
    BY DEF TypeOK, Counters
  <1>b. \A f \in CounterNames : Count(stats, f) \in Counters
    BY <1>a, CountLemma
  <1>c. {"submitted", "completed", "submit_errors", "state_errors"} \subseteq CounterNames
    BY DEF CounterNames
  <1>q. ASSUME events' = events,
               \/ stats' = stats \/ stats' = Count(stats, "state_errors")
               \/ stats' = Count(stats, "read_errors")
        PROVE  Uncounted
    BY <1>a, <1>q, SumLemma DEF Uncounted
  <1>1. CASE Attach \/ Enable \/ Disable \/ Drop \/ Detach
    BY <1>1, <1>q DEF Attach, Enable, Disable, Drop, Detach, tracking
  <1>2. ASSUME NEW u \in Urbs, SubmitEntry(u) PROVE Uncounted \/ CountedOnce
    <2>1. /\ CountStale(u) \in Counters
          /\ Counted(CountStale(u)) = Counted(stats)
          /\ Explained(CountStale(u)) = Explained(stats)
      BY <1>a, <1>b, <1>c, SumLemma DEF CountStale
    <2>2. CASE SubmitUntracked(u)
      BY <2>2, <1>q DEF SubmitUntracked
    <2>3. CASE SubmitDropped(u)
      BY <2>1, <2>3, SumLemma, <1>a DEF SubmitDropped, Uncounted
    <2>4. CASE SubmitTracked(u)
      <3> DEFINE id == NextId(sequence)
                 counts == Count(CountStale(u), "submitted")
      <3>1. id \in Nat /\ sequence <= id /\ EINPROGRESS \in Int
        BY <1>a DEF NextId, EINPROGRESS
      <3>2. counts \in Counters
        BY <1>c, <2>1, CountLemma
      <3>3. Counted(counts) = Counted(stats) + 1 /\ Explained(counts) = Explained(stats)
        BY <2>1, SumLemma
      <3>4. Emit(EventOf(u, id, "S", EINPROGRESS, id), id, counts)
        BY <2>4 DEF SubmitTracked
      <3> HIDE DEF id, counts
      <3>5. QED
        BY <3>1, <3>2, <3>3, <3>4, EmitCountsLemma
    <2>5. QED
      BY <1>2, <2>2, <2>3, <2>4 DEF SubmitEntry
  <1>3. ASSUME NEW u \in Urbs, Queue(u) \/ DmaSync(u) PROVE Uncounted
    BY <1>3, <1>q DEF Queue, ReturnUnread, DmaSync, tracking
  <1>4. ASSUME NEW u \in Urbs, SubmitFails(u) PROVE Uncounted \/ CountedOnce
    <2>1. CASE events' = events /\ (stats' = stats \/ stats' = Count(stats, "state_errors"))
      BY <2>1, <1>q
    <2>2. ASSUME NEW status \in Errors, inflight[u] # NoState, SubmitError(u, status)
          PROVE  CountedOnce
      <3>1. inflight[u].id \in Nat /\ owner[u] \in Nat /\ status \in Int
        BY DEF TypeOK, States
      <3>2. Emit(EventOf(u, inflight[u].id, "E", status, owner[u]), sequence,
                 Count(stats, "submit_errors"))
        BY <2>2 DEF SubmitError
      <3>3. Count(stats, "submit_errors") \in Counters
        BY <1>b, <1>c
      <3>4. QED
        BY <1>a, <3>1, <3>2, <3>3, EmitCountsLemma, SumLemma
    <2>3. QED
      BY <1>4, <2>1, <2>2 DEF SubmitFails, ReturnUnread, SubmitError, tracking
  <1>5. ASSUME NEW u \in Urbs, Giveback(u) PROVE Uncounted
    BY <1>5, <1>q DEF Giveback, ObserveGiveback, tracking
  <1>6. ASSUME NEW u \in Urbs, NEW caller \in Callers, Complete(u, caller)
        PROVE  Uncounted \/ CountedOnce
    <2>1. CASE events' = events /\ (stats' = stats \/ stats' = Count(stats, "state_errors"))
      BY <2>1, <1>q
    <2>2. CASE Completed(u)
      <3>1. inflight[u].id \in Nat /\ owner[u] \in Nat /\ inflight[u].status \in Int
        BY DEF TypeOK, States
      <3>2. Emit(EventOf(u, inflight[u].id, "C", inflight[u].status, owner[u]), sequence,
                 Count(stats, "completed"))
        BY <2>2 DEF Completed
      <3>3. Count(stats, "completed") \in Counters
        BY <1>b, <1>c
      <3>4. QED
        BY <1>a, <3>1, <3>2, <3>3, EmitCountsLemma, SumLemma
    <2>3. QED
      BY <1>6, <2>1, <2>2 DEF Complete, NotReady, tracking
  <1>7. ASSUME NEW u \in Urbs, Unanchor(u) \/ UnanchorElsewhere(u)
        PROVE  Uncounted \/ CountedOnce
    BY <1>6, <1>7, <1>q DEF Unanchor, UnanchorElsewhere, tracking
  <1>8. CASE UNCHANGED vars
    BY <1>8, <1>q DEF vars
  <1>9. QED
    BY <1>1, <1>2, <1>3, <1>4, <1>5, <1>7, <1>8 DEF Next

\* NothingVanishes with the sums named, and with finitely many events to count.
LedgerInv ==
    /\ IsFiniteSet(events)
    /\ Counted(stats) <= Cardinality(events) + Explained(stats)

\* A published event is a new element, because its id is.
LEMMA LedgerLemma ==
    TypeOK /\ LifeInv /\ LedgerInv /\ [Next]_vars => LedgerInv'
  <1> SUFFICES ASSUME TypeOK, LifeInv, LedgerInv, [Next]_vars PROVE LedgerInv'
    OBVIOUS
  <1>a. /\ Counted(stats) \in Nat /\ Explained(stats) \in Nat
        /\ Counted(stats') \in Nat /\ Explained(stats') \in Nat
        /\ Cardinality(events) \in Nat
    <2>1. stats \in Counters /\ stats' \in Counters
      BY TypeLemma DEF TypeOK, Counters
    <2>2. QED
      BY <2>1, SumLemma, FS_CardinalityType DEF LedgerInv
  <1>1. CASE Uncounted
    BY <1>1, <1>a DEF Uncounted, LedgerInv
  <1>2. CASE CountedOnce /\ events' = events /\ Explained(stats') = Explained(stats) + 1
    BY <1>2, <1>a DEF CountedOnce, LedgerInv
  <1>3. ASSUME NEW e \in Events, CountedOnce, events' = events \cup {e},
               sequence < e.event_id, Explained(stats') = Explained(stats)
        PROVE  LedgerInv'
    <2>1. e \notin events
      BY <1>3 DEF LifeInv, TypeOK, Events
    <2>2. IsFiniteSet(events') /\ Cardinality(events') = Cardinality(events) + 1
      BY <1>3, <2>1, FS_AddElement DEF LedgerInv
    <2>3. QED
      BY <1>3, <1>a, <2>2 DEF CountedOnce, LedgerInv
  <1>4. QED
    BY <1>1, <1>2, <1>3, CountKinds DEF CountedOnce

\* Every counted submission, completion and submit error was published or shows
\* in the counters of ring losses and read errors, whatever fails.
THEOREM LedgerCorrect == Spec => []NothingVanishes
  <1>1. Init => LifeInv /\ LedgerInv
    BY FS_EmptySet DEF Init, LifeInv, OneLifecycle, Tracked, LedgerInv, Counted, Explained,
                       CounterNames
  <1>2. TypeOK /\ LedgerInv => NothingVanishes
    <2> SUFFICES ASSUME TypeOK, LedgerInv PROVE NothingVanishes
      OBVIOUS
    <2>1. Cardinality(events) \in Nat
      BY FS_CardinalityType DEF LedgerInv
    <2>2. stats["ring_losses"] \in Nat /\ stats["read_errors"] \in Nat
      BY DEF TypeOK, CounterNames
    <2>3. QED
      BY <2>1, <2>2 DEF LedgerInv, NothingVanishes, Counted, Explained
  <1>3. QED
    BY <1>1, <1>2, LifeLemma, LedgerLemma, TypeCorrect, PTL DEF Spec

-----------------------------------------------------------------------------
(* A clean run *)

\* An entry and the ghost of its submission come and go together, an idle URB has
\* none, and the status of one that is being given back is noted.
Exact(u) ==
    /\ owner[u] # 0 <=> inflight[u] # NoState
    /\ stage[u] = "free" => inflight[u] = NoState
    /\ stage[u] \in {"giveback", "synced"} /\ inflight[u] # NoState => inflight[u].ready

CleanInv ==
    TrackingIsClean /\ phase # "detaching" =>
       stats["state_errors"] = 0 /\ \A u \in Urbs : Exact(u)

\* No step of a clean run counts a state error before the detach: an insertion
\* finds room, a status is always noted, and no address is reused too early.
LEMMA CleanLemma ==
    TypeOK /\ PairInv /\ CleanInv /\ [Next]_vars => CleanInv'
  <1> SUFFICES ASSUME TypeOK, PairInv, CleanInv, [Next]_vars,
                      TrackingIsClean, phase' # "detaching"
               PROVE  stats'["state_errors"] = 0 /\ \A u \in Urbs : Exact(u)'
    BY DEF CleanInv, TrackingIsClean
  <1> USE ConstantsAssumption
  <1>a. /\ stats \in Counters
        /\ {"submitted", "completed", "submit_errors"} \subseteq CounterNames
        /\ "read_errors" \in CounterNames /\ "state_errors" \in CounterNames
        /\ "state_errors" \in CounterNames \ {"read_errors", "ring_losses"}
    BY DEF TypeOK, Counters, CounterNames
  <1>b. \A f \in {"submitted", "completed", "submit_errors", "read_errors"} :
           /\ Count(stats, f) \in Counters
           /\ Count(stats, f)["state_errors"] = stats["state_errors"]
    <2> TAKE f \in {"submitted", "completed", "submit_errors", "read_errors"}
    <2>1. f \in CounterNames /\ f # "state_errors"
      BY <1>a
    <2>2. QED
      BY <1>a, <2>1, CountLemma
  <1>c. ~MayFail("insert") /\ ~MayFail("context_read") /\ ~MayFail("status_read")
    BY DEF TrackingIsClean, MayFail
  <1>d. phase # "detaching" =>
           stats["state_errors"] = 0 /\ \A u \in Urbs : Exact(u)
    BY DEF CleanInv
  <1>e. /\ phase \in {"loading", "running", "draining", "detaching"}
        /\ phase # "detaching" /\ phase # "loading" =>
              {"giveback", "submit_error", "complete"} \subseteq attached
        /\ phase = "loading" => ~enabled /\ \A u \in Urbs : inflight[u] = NoState
    BY DEF TypeOK, Phases, PairInv, Probes
  <1>1. CASE Attach \/ Enable \/ Disable \/ Drop \/ Detach
    <2>1. UNCHANGED <<kernel, tracking>> /\ phase # "detaching"
      BY <1>1 DEF Attach, Enable, Disable, Drop, Detach
    <2>2. QED
      BY <1>d, <2>1 DEF Exact, kernel, tracking
  <1>o. ASSUME NEW u \in Urbs,
               \A v \in Urbs \ {u} : /\ stage'[v] = stage[v] /\ owner'[v] = owner[v]
                                     /\ inflight'[v] = inflight[v],
               phase' = phase,
               stats'["state_errors"] = stats["state_errors"], Exact(u)'
        PROVE  stats'["state_errors"] = 0 /\ \A v \in Urbs : Exact(v)'
    <2>1. ASSUME NEW v \in Urbs \ {u} PROVE Exact(v)'
      BY <1>d, <1>o DEF Exact
    <2>2. QED
      BY <1>d, <1>o, <2>1
  <1>2. ASSUME NEW u \in Urbs, SubmitEntry(u)
        PROVE  stats'["state_errors"] = 0 /\ \A v \in Urbs : Exact(v)'
    <2>1. /\ phase' = phase /\ stage[u] = "free" /\ stage'[u] = "entered"
          /\ \A v \in Urbs \ {u} : stage'[v] = stage[v]
      BY <1>2 DEF SubmitEntry, TypeOK, collector
    <2>2. inflight[u] = NoState /\ u \notin Tracked /\ CountStale(u) = stats
      BY <1>d, <2>1 DEF Exact, Tracked, CountStale
    <2>3. CASE SubmitUntracked(u)
      <3>1. /\ inflight' = inflight /\ owner'[u] = 0
            /\ \A v \in Urbs \ {u} : owner'[v] = owner[v]
            /\ stats'["state_errors"] = stats["state_errors"]
        BY <1>b, <2>3 DEF SubmitUntracked, TypeOK
      <3>2. Exact(u)'
        BY <2>1, <2>2, <3>1 DEF Exact
      <3>3. QED
        BY <1>o, <2>1, <3>1, <3>2
    <2>4. CASE SubmitDropped(u)
      <3>1. Cardinality(Tracked) >= MaxInflight
        BY <1>c, <2>4 DEF SubmitDropped, InsertFails
      <3>2. Tracked \in SUBSET Urbs /\ Tracked # Urbs
        BY <2>2 DEF Tracked
      <3>3. /\ Cardinality(Tracked) \in Nat /\ Cardinality(Urbs) \in Nat
            /\ Cardinality(Tracked) < Cardinality(Urbs)
        BY <3>2, FS_Subset, FS_CardinalityType
      <3>4. QED
        BY <3>1, <3>3 DEF TrackingIsClean
    <2>5. CASE SubmitTracked(u)
      <3> DEFINE id == NextId(sequence)
                 counts == Count(stats, "submitted")
      <3>1. id \in Nat \ {0} /\ EINPROGRESS \in Int
        BY DEF TypeOK, NextId, EINPROGRESS
      <3>2. Emit(EventOf(u, id, "S", EINPROGRESS, id), id, counts)
        BY <2>2, <2>5 DEF SubmitTracked
      <3>3. /\ inflight'[u] = [id |-> id, status |-> 0, ready |-> FALSE]
            /\ owner'[u] = id
            /\ \A v \in Urbs \ {u} : inflight'[v] = inflight[v] /\ owner'[v] = owner[v]
        BY <2>5 DEF SubmitTracked, TypeOK
      <3>4. counts \in Counters /\ counts["state_errors"] = stats["state_errors"]
        BY <1>b
      <3> HIDE DEF id, counts
      <3>5. stats'["state_errors"] = stats["state_errors"]
        BY <1>a, <3>1, <3>2, <3>4, PublishedLemma
      <3>6. Exact(u)'
        BY <2>1, <3>1, <3>3, EntryLemma DEF Exact
      <3>7. QED
        BY <1>o, <2>1, <3>3, <3>5, <3>6
    <2>6. QED
      BY <1>2, <2>3, <2>4, <2>5 DEF SubmitEntry
  <1>3. ASSUME NEW u \in Urbs, Queue(u) \/ DmaSync(u)
        PROVE  stats'["state_errors"] = 0 /\ \A v \in Urbs : Exact(v)'
    <2>1. /\ UNCHANGED <<owner, phase, inflight, stats>>
          /\ \A v \in Urbs \ {u} : stage'[v] = stage[v]
          /\ \/ stage[u] = "entered" /\ stage'[u] = "queued"
             \/ stage[u] = "giveback" /\ stage'[u] = "synced"
      BY <1>3, <1>c DEF Queue, ReturnUnread, DmaSync, collector, tracking, TypeOK
    <2>2. Exact(u)'
      BY <1>d, <2>1 DEF Exact
    <2>3. QED
      BY <1>o, <2>1, <2>2
  <1>4. ASSUME NEW u \in Urbs, SubmitFails(u)
        PROVE  stats'["state_errors"] = 0 /\ \A v \in Urbs : Exact(v)'
    <2>1. /\ phase' = phase /\ stage'[u] = "free" /\ owner'[u] = 0
          /\ \A v \in Urbs \ {u} : stage'[v] = stage[v] /\ owner'[v] = owner[v]
      BY <1>4 DEF SubmitFails, TypeOK, collector
    <2>2. CASE UNCHANGED tracking /\ inflight[u] = NoState
      BY <1>o, <2>1, <2>2 DEF Exact, tracking
    <2>3. ASSUME NEW status \in Errors, inflight[u] # NoState, SubmitError(u, status)
          PROVE  stats'["state_errors"] = 0 /\ \A v \in Urbs : Exact(v)'
      <3>1. inflight[u].id \in Nat /\ owner[u] \in Nat /\ sequence \in Nat /\ status \in Int
        BY DEF TypeOK, States
      <3>2. Emit(EventOf(u, inflight[u].id, "E", status, owner[u]), sequence,
                 Count(stats, "submit_errors"))
        BY <2>3 DEF SubmitError
      <3>3. stats'["state_errors"] = stats["state_errors"]
        BY <1>a, <1>b, <3>1, <3>2, PublishedLemma
      <3>4. inflight'[u] = NoState /\ \A v \in Urbs \ {u} : inflight'[v] = inflight[v]
        BY <2>3 DEF SubmitError, TypeOK
      <3>5. Exact(u)'
        BY <2>1, <3>4 DEF Exact
      <3>6. QED
        BY <1>o, <2>1, <3>3, <3>4, <3>5
    <2>4. QED
      BY <1>4, <1>c, <1>e, <2>1, <2>2, <2>3 DEF SubmitFails, ReturnUnread, SubmitError
  <1>5. ASSUME NEW u \in Urbs, Giveback(u)
        PROVE  stats'["state_errors"] = 0 /\ \A v \in Urbs : Exact(v)'
    <2>1. /\ phase' = phase /\ owner' = owner
          /\ stage[u] = "queued" /\ stage'[u] = "giveback"
          /\ \A v \in Urbs \ {u} : stage'[v] = stage[v]
      BY <1>5 DEF Giveback, TypeOK, collector
    <2>2. CASE stats' = stats /\ inflight' = inflight /\ inflight[u] = NoState
      BY <1>d, <1>o, <2>1, <2>2 DEF Exact
    <2>3. ASSUME NEW status \in Statuses, u \in Tracked, stats' = stats,
                 inflight' = [inflight EXCEPT ![u] = Noted(@, status)]
          PROVE  stats'["state_errors"] = 0 /\ \A v \in Urbs : Exact(v)'
      <3>1. inflight[u] \in States /\ status \in Int /\ inflight[u] # NoState
        BY <2>3 DEF TypeOK, Tracked
      <3>2. Noted(inflight[u], status) # NoState /\ Noted(inflight[u], status).ready
        BY <3>1, EntryLemma
      <3>3. /\ inflight'[u] = Noted(inflight[u], status)
            /\ \A v \in Urbs \ {u} : inflight'[v] = inflight[v]
        BY <2>3 DEF TypeOK
      <3>4. Exact(u)'
        BY <1>d, <2>1, <3>1, <3>2, <3>3 DEF Exact
      <3>5. QED
        BY <1>o, <2>1, <2>3, <3>3, <3>4
    <2>4. QED
      BY <1>5, <1>c, <1>e, <2>1, <2>2, <2>3
         DEF Giveback, ObserveGiveback, tracking, Tracked
  <1>6. ASSUME NEW u \in Urbs, Unanchor(u)
        PROVE  stats'["state_errors"] = 0 /\ \A v \in Urbs : Exact(v)'
    <2>1. /\ phase' = phase /\ stage[u] = "synced" /\ stage'[u] = "free" /\ owner'[u] = 0
          /\ \A v \in Urbs \ {u} : stage'[v] = stage[v] /\ owner'[v] = owner[v]
      BY <1>6 DEF Unanchor, TypeOK, collector
    <2>2. CASE UNCHANGED tracking /\ inflight[u] = NoState
      BY <1>o, <2>1, <2>2 DEF Exact, tracking
    <2>3. CASE u \in Tracked /\ inflight' = [inflight EXCEPT ![u] = NoState]
                  /\ (IF inflight[u].ready THEN Completed(u) ELSE NotReady)
      <3>1. inflight[u].ready
        BY <1>d, <2>1, <2>3 DEF Exact, Tracked
      <3>2. inflight[u].id \in Nat /\ inflight[u].status \in Int
              /\ owner[u] \in Nat /\ sequence \in Nat
        BY DEF TypeOK, States
      <3>3. Emit(EventOf(u, inflight[u].id, "C", inflight[u].status, owner[u]), sequence,
                 Count(stats, "completed"))
        BY <2>3, <3>1 DEF Completed
      <3>4. stats'["state_errors"] = stats["state_errors"]
        BY <1>a, <1>b, <3>2, <3>3, PublishedLemma
      <3>5. inflight'[u] = NoState /\ \A v \in Urbs \ {u} : inflight'[v] = inflight[v]
        BY <2>3 DEF TypeOK
      <3>6. Exact(u)'
        BY <2>1, <3>5 DEF Exact
      <3>7. QED
        BY <1>o, <2>1, <3>4, <3>5, <3>6
    <2>4. QED
      <3>1. PICK caller \in GivebackStart .. (GivebackEnd - 1) :
               IF "complete" \in attached THEN Complete(u, caller) ELSE UNCHANGED tracking
        BY <1>6 DEF Unanchor
      <3>2. FromGiveback(caller)
        BY <3>1 DEF FromGiveback
      <3>3. QED
        BY <3>1, <3>2, <1>c, <1>e, <2>1, <2>2, <2>3 DEF Complete, Tracked
  <1>7. ASSUME NEW u \in Urbs, UnanchorElsewhere(u)
        PROVE  stats'["state_errors"] = 0 /\ \A v \in Urbs : Exact(v)'
    <2>1. PICK caller \in Callers \ (GivebackStart .. (GivebackEnd - 1)) : Complete(u, caller)
      BY <1>7 DEF UnanchorElsewhere
    <2>2. ~FromGiveback(caller)
      BY <2>1 DEF FromGiveback
    <2>3. UNCHANGED <<kernel, collector, tracking>>
      BY <1>7, <2>1, <2>2 DEF UnanchorElsewhere, Complete
    <2>4. QED
      BY <1>d, <2>3 DEF Exact, kernel, collector, tracking
  <1>8. CASE UNCHANGED vars
    BY <1>8, <1>d DEF vars, Exact
  <1>9. QED
    BY <1>1, <1>2, <1>3, <1>4, <1>5, <1>6, <1>7, <1>8 DEF Next

\* With enough room in INFLIGHT and no failing read of a status, start and stop amid
\* live traffic leave no stale entry: the count of URBs still in flight is exact
\* until the probes are detached.
THEOREM CleanCorrect == Spec => []InFlightExact
  <1>1. Init => PairInv /\ CleanInv
    BY DEF Init, PairInv, Paired, HonestPairing, CleanInv, Exact, CounterNames
  <1>2. TypeOK /\ InFlightReport /\ CleanInv => InFlightExact
    <2> SUFFICES ASSUME TypeOK, InFlightReport, CleanInv, TrackingIsClean, phase # "detaching"
                 PROVE  /\ stats["state_errors"] = 0
                        /\ stats["submitted"] - stats["completed"] - stats["submit_errors"]
                              = Cardinality({u \in Urbs : owner[u] # 0})
      BY DEF InFlightExact
    <2>1. stats["state_errors"] = 0 /\ \A u \in Urbs : Exact(u)
      BY DEF CleanInv
    <2>2. {u \in Urbs : owner[u] # 0} = Tracked
      BY <2>1 DEF Exact, Tracked
    <2>3. Cardinality(Tracked) \in Nat
      BY ConstantsAssumption, FS_Subset, FS_CardinalityType DEF Tracked
    <2>4. /\ stats["submitted"] \in Nat /\ stats["completed"] \in Nat
          /\ stats["submit_errors"] \in Nat
      BY DEF TypeOK, CounterNames
    <2>5. QED
      BY <2>1, <2>2, <2>3, <2>4 DEF InFlightReport
  <1>3. QED
    BY <1>1, <1>2, PairLemma, CleanLemma, InFlightCorrect, TypeCorrect, PTL DEF Spec

=============================================================================
