----------------------------- MODULE UrbTracking -----------------------------
(***************************************************************************)
(* How the BPF probes of usbscope-ebpf follow one USB request block (URB)   *)
(* from submission to giveback, and how the userspace collector (live.rs)   *)
(* attaches, enables, disables and detaches them around live kernel traffic.*)
(*                                                                         *)
(* The kernel's side of an URB (stage, result) is external: it is what the *)
(* hooked functions usb_hcd_submit_urb, __usb_hcd_giveback_urb and          *)
(* usb_unanchor_urb do.  A probe runs to its end before the hooked function *)
(* goes on, so nothing else touches that URB meanwhile; what probes on other*)
(* CPUs share is SEQUENCE and the counters (atomic adds) and INFLIGHT       *)
(* (atomic map operations on other keys).  One probe run is one action.     *)
(***************************************************************************)
EXTENDS Integers, FiniteSets

CONSTANTS
    Urbs,           \* URB addresses; a driver reuses an URB after its callback
    Statuses,       \* results an URB can be given back with
    Errors,         \* what usb_hcd_submit_urb returns when it refuses an URB
    Callers,        \* return addresses seen at usb_unanchor_urb; 0: unreadable
    GivebackStart,  \* __usb_hcd_giveback_urb occupies
    GivebackEnd,    \*   GivebackStart .. GivebackEnd - 1
    MaxInflight,    \* capacity of the INFLIGHT map
    Faults,         \* which operations of the probes may fail
    MaxId,          \* bound: no submission is tracked once SEQUENCE reaches it
    MaxLosses       \* bound: how many failures and losses a behaviour has

FaultKinds == {"urb_read", "status_read", "insert", "ring", "context_read"}

ASSUME ConstantsAssumption ==
    /\ IsFiniteSet(Urbs)
    /\ Statuses \subseteq Int /\ 0 \in Statuses
    /\ Errors \subseteq {s \in Int : s < 0}
    /\ Callers \subseteq Nat
    /\ GivebackStart \in Nat \ {0} /\ GivebackEnd \in Nat
    /\ MaxInflight \in Nat /\ MaxId \in Nat /\ MaxLosses \in Nat
    /\ Faults \subseteq FaultKinds

VARIABLES
    stage,      \* [Urbs -> Stages]: where the kernel has the URB (external)
    result,     \* [Urbs -> Statuses]: the status it is given back with (external)
    owner,      \* ghost: the id the submission it is in is tracked under, or 0
    attached,   \* the probes now attached
    enabled,    \* CONFIG.enabled
    phase,      \* how far live.rs has come
    sequence,   \* SEQUENCE
    inflight,   \* INFLIGHT, NoState where the map has no entry
    stats,      \* STATS, summed over the CPUs
    events      \* the events published to the ring so far

kernel == <<stage, result, owner>>
collector == <<attached, enabled, phase>>
tracking == <<sequence, inflight, stats, events>>
vars == <<stage, result, owner, attached, enabled, phase, sequence, inflight,
          stats, events>>

Stages == {"free", "entered", "queued", "giveback", "synced"}
Phases == {"loading", "running", "draining", "detaching"}

\* The order in which capture() attaches the programs.
AttachOrder == <<"giveback", "submit", "submit_error", "complete">>
Probes == {"giveback", "submit", "submit_error", "complete"}

EINPROGRESS == -115

NoState == [id |-> 0, status |-> 0, ready |-> FALSE]

CounterNames == {"submitted", "completed", "submit_errors", "ring_losses",
                 "read_errors", "state_errors"}

-----------------------------------------------------------------------------
(* Helpers of the probes *)

\* next_id(): a fetching atomic add.
NextId(s) == s + 1

\* Mutant of Count: the counter is taken down.
MutantCount(s, field) == [s EXCEPT ![field] = @ - 1]

\* count(): one atomic add on a counter of this CPU.
Count(s, field) == [s EXCEPT ![field] = @ + 1]

\* Mutant of FromGiveback: only the upper end of the function is checked.
MutantFromGiveback(caller) == caller < GivebackEnd

\* The return address lies in __usb_hcd_giveback_urb (config.giveback_*).
FromGiveback(caller) == caller >= GivebackStart /\ caller < GivebackEnd

Tracked == {u \in Urbs : inflight[u] # NoState}

Losses(s) == s["ring_losses"] + s["read_errors"] + s["state_errors"]

\* A fault of this kind may happen now.
MayFail(kind) == kind \in Faults /\ Losses(stats) < MaxLosses

\* What emit() publishes.  of, actual, at and window are ghosts: the id of the
\* kernel's current submission, its real result, where the kernel was, and
\* whether the collector was already detaching.
EventOf(u, urb_id, type, status, of) ==
    [event_id |-> 0, urb_id |-> urb_id, type |-> type, status |-> status,
     of |-> of, actual |-> result[u], at |-> stage[u],
     window |-> phase = "detaching"]

\* The event under the id that emit() draws for it.
WithId(event, id) == [event EXCEPT !.event_id = id]

\* Mutant of RingLoss: a full ring goes unnoticed.
MutantRingLoss(s) == s

\* The first record of an event found no room.
RingLoss(s) == Count(s, "ring_losses")

\* emit(): the event is published under an id of its own, or a read fails
\* (before or after that id was drawn), or the ring has no room for its first
\* record.  seq and s are SEQUENCE and STATS as the calling probe left them.
Emit(event, seq, s) ==
    \/ /\ sequence' = NextId(seq)
       /\ events' = events \cup {WithId(event, NextId(seq))}
       /\ stats' = s
    \/ /\ MayFail("urb_read")
       /\ sequence' \in {seq, NextId(seq)}
       /\ stats' = Count(s, "read_errors")
       /\ events' = events
    \/ /\ MayFail("ring")
       /\ sequence' = NextId(seq)
       /\ stats' = RingLoss(s)
       /\ events' = events

-----------------------------------------------------------------------------
(* The collector: capture() of live.rs *)

Init ==
    /\ stage = [u \in Urbs |-> "free"]
    /\ result = [u \in Urbs |-> 0]
    /\ owner = [u \in Urbs |-> 0]
    /\ attached = {}
    /\ enabled = FALSE
    /\ phase = "loading"
    /\ sequence = 0
    /\ inflight = [u \in Urbs |-> NoState]
    /\ stats = [c \in CounterNames |-> 0]
    /\ events = {}

\* The next program of the list is attached to its kernel function.
Attach ==
    /\ phase = "loading"
    /\ \E i \in DOMAIN AttachOrder :
          /\ AttachOrder[i] \notin attached
          /\ \A j \in 1 .. (i - 1) : AttachOrder[j] \in attached
          /\ attached' = attached \cup {AttachOrder[i]}
    /\ UNCHANGED <<kernel, enabled, phase, tracking>>

\* Mutant of Enable: recording starts before the last probes are in place.
MutantEnable ==
    /\ phase = "loading"
    /\ phase' = "running"
    /\ enabled' = TRUE
    /\ UNCHANGED <<kernel, attached, tracking>>

\* config.set with enabled = 1, the last step of the start.
Enable ==
    /\ phase = "loading"
    /\ attached = Probes
    /\ phase' = "running"
    /\ enabled' = TRUE
    /\ UNCHANGED <<kernel, attached, tracking>>

\* A signal, the duration or the event count: enabled = 0 and the drain starts.
Disable ==
    /\ phase = "running"
    /\ phase' = "draining"
    /\ enabled' = FALSE
    /\ UNCHANGED <<kernel, attached, tracking>>

\* drop(bpf): at the drain deadline, or early when capture() returns an error.
Drop ==
    /\ phase # "detaching"
    /\ phase' = "detaching"
    /\ UNCHANGED <<kernel, attached, enabled, tracking>>

\* Dropping the loader closes the links of its programs one after the other,
\* in the order of a hash map: any order.
Detach ==
    /\ phase = "detaching"
    /\ \E p \in attached : attached' = attached \ {p}
    /\ UNCHANGED <<kernel, enabled, phase, tracking>>

-----------------------------------------------------------------------------
(* usb_hcd_submit_urb *)

\* submit(): the submission is not followed.  The probe is not attached, or
\* disabled, or the URB fails the bus/device selection or the prefilter; or the
\* URB cannot be read, which is counted.
SubmitUntracked(u) ==
    /\ owner' = [owner EXCEPT ![u] = 0]
    /\ \/ stats' = stats
       \/ /\ "submit" \in attached /\ enabled
          /\ MayFail("urb_read")
          /\ stats' = Count(stats, "read_errors")
    /\ UNCHANGED <<sequence, inflight, events>>

\* The map has no room for a new key, or the insertion fails otherwise.
InsertFails(u) ==
    \/ Cardinality(Tracked) >= MaxInflight /\ u \notin Tracked
    \/ MayFail("insert")

\* An entry that the address still has when it is submitted again is stale.
CountStale(u) ==
    IF u \in Tracked THEN Count(stats, "state_errors") ELSE stats

\* submit(): the entry could not be inserted.
SubmitDropped(u) ==
    /\ "submit" \in attached /\ enabled
    /\ sequence < MaxId
    /\ InsertFails(u)
    /\ sequence' = NextId(sequence)
    /\ stats' = Count(CountStale(u), "state_errors")
    /\ owner' = [owner EXCEPT ![u] = 0]
    /\ UNCHANGED <<inflight, events>>

\* submit(): a fresh id, an entry that replaces a stale one, the event 'S'.
SubmitTracked(u) ==
    /\ "submit" \in attached /\ enabled
    /\ sequence < MaxId
    /\ Cardinality(Tracked) < MaxInflight \/ u \in Tracked
    /\ LET id == NextId(sequence) IN
          /\ inflight' = [inflight EXCEPT ![u] =
                             [id |-> id, status |-> 0, ready |-> FALSE]]
          /\ owner' = [owner EXCEPT ![u] = id]
          /\ Emit(EventOf(u, id, "S", EINPROGRESS, id), id,
                  Count(CountStale(u), "submitted"))

SubmitEntry(u) ==
    /\ stage[u] = "free"
    /\ stage' = [stage EXCEPT ![u] = "entered"]
    /\ SubmitUntracked(u) \/ SubmitDropped(u) \/ SubmitTracked(u)
    /\ UNCHANGED <<result, collector>>

\* observe_submit_error cannot read what usb_hcd_submit_urb returned.
ReturnUnread ==
    /\ "submit_error" \in attached
    /\ MayFail("context_read")
    /\ stats' = Count(stats, "state_errors")
    /\ UNCHANGED <<sequence, inflight, events>>

\* The host controller driver takes the URB.  observe_submit_error does nothing
\* for a status that is not negative, if it can read it.
Queue(u) ==
    /\ stage[u] = "entered"
    /\ stage' = [stage EXCEPT ![u] = "queued"]
    /\ ReturnUnread \/ UNCHANGED tracking
    /\ UNCHANGED <<result, owner, collector>>

\* Mutant of SubmitError: the entry stays behind.
MutantSubmitError(u, status) ==
    IF inflight[u] # NoState
    THEN /\ inflight' = inflight
         /\ Emit(EventOf(u, inflight[u].id, "E", status, owner[u]), sequence,
                 Count(stats, "submit_errors"))
    ELSE UNCHANGED tracking

\* observe_submit_error: the entry goes, the event 'E' carries its id.
SubmitError(u, status) ==
    IF inflight[u] # NoState
    THEN /\ inflight' = [inflight EXCEPT ![u] = NoState]
         /\ Emit(EventOf(u, inflight[u].id, "E", status, owner[u]), sequence,
                 Count(stats, "submit_errors"))
    ELSE UNCHANGED tracking

\* The submission is refused.  The return value may be unreadable, and a call
\* already under way when its probes are removed returns unobserved.
SubmitFails(u) ==
    /\ stage[u] = "entered"
    /\ stage' = [stage EXCEPT ![u] = "free"]
    /\ \E status \in Errors :
          \/ "submit_error" \in attached /\ SubmitError(u, status)
          \/ ReturnUnread
          \/ "submit_error" \notin attached /\ UNCHANGED tracking
          \/ phase = "detaching" /\ UNCHANGED tracking
    /\ owner' = [owner EXCEPT ![u] = 0]
    /\ UNCHANGED <<result, collector>>

-----------------------------------------------------------------------------
(* __usb_hcd_giveback_urb and usb_unanchor_urb *)

\* The entry once giveback has noted the status in it.
Noted(state, status) == [state EXCEPT !.status = status, !.ready = TRUE]

\* Mutant of ObserveGiveback: an unreadable status counts as noted.
MutantObserveGiveback(u, status) ==
    \/ /\ inflight' = IF u \in Tracked
                      THEN [inflight EXCEPT ![u] = Noted(@, status)]
                      ELSE inflight
       /\ UNCHANGED <<sequence, stats, events>>
    \/ /\ u \in Tracked
       /\ MayFail("status_read")
       /\ inflight' = [inflight EXCEPT ![u].ready = TRUE]
       /\ stats' = Count(stats, "read_errors")
       /\ UNCHANGED <<sequence, events>>

\* observe_giveback: the status is noted in the entry, if there is one and the
\* status can be read.
ObserveGiveback(u, status) ==
    \/ /\ inflight' = IF u \in Tracked
                      THEN [inflight EXCEPT ![u] = Noted(@, status)]
                      ELSE inflight
       /\ UNCHANGED <<sequence, stats, events>>
    \/ /\ u \in Tracked
       /\ MayFail("status_read")
       /\ stats' = Count(stats, "read_errors")
       /\ UNCHANGED <<sequence, inflight, events>>

\* The host controller gives the URB back with some result.
Giveback(u) ==
    /\ stage[u] = "queued"
    /\ stage' = [stage EXCEPT ![u] = "giveback"]
    /\ \E status \in Statuses :
          /\ result' = [result EXCEPT ![u] = status]
          /\ IF "giveback" \in attached
             THEN ObserveGiveback(u, status)
             ELSE UNCHANGED tracking
    /\ UNCHANGED <<owner, collector>>

\* unmap_urb_for_dma: the buffer now holds what the device transferred.
DmaSync(u) ==
    /\ stage[u] = "giveback"
    /\ stage' = [stage EXCEPT ![u] = "synced"]
    /\ UNCHANGED <<result, owner, collector, tracking>>

\* The noted status and the id of the entry make the event 'C'.
Completed(u) ==
    Emit(EventOf(u, inflight[u].id, "C", inflight[u].status, owner[u]),
         sequence, Count(stats, "completed"))

\* Mutant of NotReady: nobody hears of the lost completion.
MutantNotReady == UNCHANGED <<sequence, stats, events>>

\* No status was noted at giveback.
NotReady ==
    /\ stats' = Count(stats, "state_errors")
    /\ UNCHANGED <<sequence, events>>

\* complete(): only for the call from giveback; the entry goes whether or not
\* a status had been noted, the event 'C' needs one.
Complete(u, caller) ==
    \/ /\ ~FromGiveback(caller) \/ u \notin Tracked
       /\ UNCHANGED tracking
    \/ /\ FromGiveback(caller)
       /\ MayFail("context_read")
       /\ stats' = Count(stats, "state_errors")
       /\ UNCHANGED <<sequence, inflight, events>>
    \/ /\ FromGiveback(caller)
       /\ u \in Tracked
       /\ inflight' = [inflight EXCEPT ![u] = NoState]
       /\ IF inflight[u].ready THEN Completed(u) ELSE NotReady

\* usb_unanchor_urb called by giveback: then the driver's callback gets the URB.
\* Reading the return address from the stack the CPU runs on does not fail.
Unanchor(u) ==
    /\ stage[u] = "synced"
    /\ stage' = [stage EXCEPT ![u] = "free"]
    /\ \E caller \in Callers :
          /\ caller \in GivebackStart .. (GivebackEnd - 1)
          /\ IF "complete" \in attached
             THEN Complete(u, caller)
             ELSE UNCHANGED tracking
    /\ result' = [result EXCEPT ![u] = 0]
    /\ owner' = [owner EXCEPT ![u] = 0]
    /\ UNCHANGED collector

\* usb_unanchor_urb called by anyone else, at any time (cancellation).
UnanchorElsewhere(u) ==
    /\ \E caller \in Callers \ (GivebackStart .. (GivebackEnd - 1)) :
          /\ "complete" \in attached
          /\ Complete(u, caller)
    /\ UNCHANGED <<kernel, collector>>

\* With the last probe gone the capture has seen all it will see.
Observing == phase # "detaching" \/ attached # {}

Next ==
    \/ Attach \/ Enable \/ Disable \/ Drop \/ Detach
    \/ \E u \in Urbs : Observing /\
          \/ SubmitEntry(u) \/ Queue(u) \/ SubmitFails(u)
          \/ Giveback(u) \/ DmaSync(u) \/ Unanchor(u) \/ UnanchorElsewhere(u)

Spec == Init /\ [][Next]_vars

-----------------------------------------------------------------------------
(* Properties *)

States == [id : Nat, status : Int, ready : BOOLEAN]

Events == [event_id : Nat, urb_id : Nat, type : {"S", "C", "E"}, status : Int,
           of : Nat, actual : Int, at : Stages, window : BOOLEAN]

\* Every variable has its type (the maps, counters and records of the probes).
TypeOK ==
    /\ stage \in [Urbs -> Stages]
    /\ result \in [Urbs -> Statuses]
    /\ owner \in [Urbs -> Nat]
    /\ attached \in SUBSET Probes
    /\ enabled \in BOOLEAN
    /\ phase \in Phases
    /\ sequence \in Nat
    /\ inflight \in [Urbs -> States]
    /\ stats \in [CounterNames -> Nat]
    /\ events \in SUBSET Events

\* What complete() publishes was read after the DMA unmap and before the
\* driver's callback, never earlier for some other caller of usb_unanchor_urb
\* (docs/implementation.md:35).
CompletionAfterSync == \A e \in events : e.type = "C" => e.at = "synced"

\* Under one urb_id the ring gets at most one submission and at most one outcome
\* (completion or submit error), the submission first; no id names two things,
\* however the probes on different URBs interleave (docs/implementation.md:37).
OneLifecycle ==
    \A e, f \in events :
       /\ e.event_id # f.urb_id
       /\ e.event_id = f.event_id => e = f
       /\ e.urb_id = f.urb_id /\ (e.type = "S" <=> f.type = "S") => e = f
       /\ e.urb_id = f.urb_id /\ e.type = "S" /\ f.type # "S"
             => e.event_id < f.event_id

\* An outcome is filed under the submission it belongs to, with the result the
\* kernel really reported, as long as no state error has been counted: an event
\* that could be mispaired always shows in the loss report.  (Events of the
\* detach window, where some probes are gone, are excepted.)
HonestPairing ==
    stats["state_errors"] = 0 =>
       \A e \in events : ~e.window =>
          /\ e.urb_id = e.of
          /\ e.type = "C" => e.status = e.actual

\* What the final report derives as "still in flight" (submitted - completed -
\* submit_errors) is never negative, is at least what INFLIGHT holds, and
\* exceeds it by no more than the state errors, through every fault and in every
\* order of detaching.
InFlightReport ==
    LET settled == stats["completed"] + stats["submit_errors"]
                      + Cardinality(Tracked)
    IN  /\ settled <= stats["submitted"]
        /\ stats["submitted"] <= settled + stats["state_errors"]

\* Each counted submission, completion and submit error is a published event or
\* shows in a loss counter (docs/usage.md:75, "never disguised").
NothingVanishes ==
    stats["submitted"] + stats["completed"] + stats["submit_errors"]
       <= Cardinality(events) + stats["ring_losses"] + stats["read_errors"]

\* No fault but ring and URB-read failures, and a map as large as the traffic.
TrackingIsClean ==
    /\ Faults \subseteq {"urb_read", "ring"}
    /\ Cardinality(Urbs) <= MaxInflight

\* Until the probes are detached, a clean run counts no state error, and the
\* report's "still in flight" is exactly the number of tracked URBs the kernel
\* still has: starting and stopping amid live traffic leaves no stale entry.
InFlightExact ==
    TrackingIsClean /\ phase # "detaching" =>
       /\ stats["state_errors"] = 0
       /\ stats["submitted"] - stats["completed"] - stats["submit_errors"]
             = Cardinality({u \in Urbs : owner[u] # 0})

\* docs/usage.md:101: URBs in flight when the drain ends "are reported
\* separately from transport loss", so an orderly stop of a clean run counts no
\* state error.  Violated while drop(bpf) removes the probes one by one.
StopIsNotLoss == TrackingIsClean /\ ~enabled => stats["state_errors"] = 0

=============================================================================
