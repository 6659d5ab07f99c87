----------------------------- MODULE LiveCapture -----------------------------
(***************************************************************************)
(* The collector's main loop: capture() of src/live.rs and what run() of    *)
(* src/main.rs does with its records and its counters.  The kernel keeps    *)
(* publishing records, or losing them in a full ring, for as long as the    *)
(* probes are attached; it owes the collector no pause.                     *)
(*                                                                         *)
(* Records are anonymous here (Transport follows their content): the ring   *)
(* and the archive are numbers of records.  Counters saturate at MaxCount,  *)
(* so that a busy kernel is an endless behaviour of a finite model.         *)
(***************************************************************************)
EXTENDS Integers

CONSTANTS
    RingSize,       \* records the ring holds
    BatchSize,      \* records drained between two looks at the stop conditions
    CountLimit,     \* -c, or 0 for none
    Archive,        \* --raw-output is given
    FailOnLoss,     \* --fail-on-loss is given
    MaxCount        \* bound: where losses and records stop being told apart

ASSUME LiveCaptureAssumption ==
    /\ RingSize \in Nat \ {0} /\ BatchSize \in Nat \ {0} /\ MaxCount \in Nat \ {0}
    /\ CountLimit \in Nat /\ Archive \in BOOLEAN /\ FailOnLoss \in BOOLEAN

VARIABLES
    pc,             \* where capture() and run() are
    batch,          \* records taken in this round
    deadline,       \* stop_at: "none", "armed", "passed"
    interrupted,    \* INTERRUPTED, or the duration is over
    written,        \* events written to the output
    enabled,        \* CONFIG.enabled
    attached,       \* the probes are attached
    probing,        \* a submit probe has passed its test of enabled
    inflight,       \* INFLIGHT has entries
    ring,           \* records in the ring
    lost,           \* the kernel's loss counters
    total,          \* the collector's snapshot of them
    summary,        \* the archive's final counter record, or NoSummary
    exit            \* "running", "ok", "loss" (--fail-on-loss), "error"

kernel == <<probing, inflight, lost>>
vars == <<pc, batch, deadline, interrupted, written, enabled, attached, probing,
          inflight, ring, lost, total, summary, exit>>

NoSummary == -1

Init ==
    /\ pc = "batch" /\ batch = 0 /\ deadline = "none" /\ interrupted = FALSE
    /\ written = 0
    /\ enabled = TRUE /\ attached = TRUE
    /\ probing = FALSE /\ inflight = FALSE
    /\ ring = 0 /\ lost = 0 /\ total = 0
    /\ summary = NoSummary /\ exit = "running"

Saturate(n) == IF n > MaxCount THEN MaxCount ELSE n

-----------------------------------------------------------------------------
(* The kernel and the user (external) *)

\* A record is published, or found no room.
Emitted ==
    \/ ring < RingSize /\ ring' = ring + 1 /\ UNCHANGED lost
    \/ ring = RingSize /\ lost' = Saturate(lost + 1) /\ UNCHANGED ring

\* observe_submit begins: enabled is tested once, at the start of the probe.
ProbeSubmit ==
    /\ attached /\ enabled /\ ~probing
    /\ probing' = TRUE
    /\ UNCHANGED <<pc, batch, deadline, interrupted, written, enabled, attached,
                   inflight, ring, lost, total, summary, exit>>

\* ... and emits, even if enabled was cleared meanwhile.
EmitSubmit ==
    /\ probing
    /\ probing' = FALSE
    /\ inflight' = TRUE
    /\ Emitted
    /\ UNCHANGED <<pc, batch, deadline, interrupted, written, enabled, attached,
                   total, summary, exit>>

\* An URB in flight completes; it may have been the last.
EmitComplete ==
    /\ attached /\ inflight
    /\ inflight' \in BOOLEAN
    /\ Emitted
    /\ UNCHANGED <<pc, batch, deadline, interrupted, written, enabled, attached,
                   probing, total, summary, exit>>

\* SIGINT, SIGTERM, or the end of --duration.
Interrupt ==
    /\ ~interrupted /\ exit = "running"
    /\ interrupted' = TRUE
    /\ UNCHANGED <<pc, batch, deadline, written, enabled, attached, kernel, ring,
                   total, summary, exit>>

\* The 200 ms of the completion drain are over.
Tick ==
    /\ deadline = "armed"
    /\ deadline' = "passed"
    /\ UNCHANGED <<pc, batch, interrupted, written, enabled, attached, kernel, ring,
                   total, summary, exit>>

-----------------------------------------------------------------------------
(* capture() *)

CountReached == CountLimit # 0 /\ written >= CountLimit

\* consume(): the record is archived and pushed; it may end an event, which is
\* written if it passes the filter and the limit is not yet reached.
Record ==
    \/ UNCHANGED written
    \/ ~CountReached /\ CountLimit # 0 /\ written' = written + 1

\* Mutant of BatchOver: the batch lasts until the ring is empty.
MutantBatchOver == ring = 0

\* No record is ready, or the batch has its size.
BatchOver == ring = 0 \/ batch >= BatchSize

\* One round of the for loop: ring.next() and record().
TakeRecord ==
    /\ pc = "batch" /\ ~BatchOver
    /\ ring' = ring - 1
    /\ batch' = IF batch < BatchSize THEN batch + 1 ELSE batch
    /\ Record
    /\ UNCHANGED <<pc, deadline, interrupted, enabled, attached, kernel, total,
                   summary, exit>>

EndBatch ==
    /\ pc = "batch" /\ BatchOver
    /\ pc' = "check"
    /\ batch' = 0
    /\ UNCHANGED <<deadline, interrupted, written, enabled, attached, kernel, ring,
                   total, summary, exit>>

\* Mutant of ArmStop: the drain starts while submissions are still observed.
MutantArmStop == deadline' = "armed" /\ UNCHANGED enabled

\* No new submission is observed; what is in flight has 200 ms to complete.
ArmStop == enabled' = FALSE /\ deadline' = "armed"

\* The stop conditions clear enabled and arm the deadline, once; a deadline that
\* has passed leaves the loop.
Check ==
    /\ pc = "check"
    /\ IF deadline = "none" /\ (CountReached \/ interrupted)
       THEN ArmStop
       ELSE UNCHANGED <<enabled, deadline>>
    /\ pc' = IF deadline = "passed" THEN "detach" ELSE "poll"
    /\ UNCHANGED <<batch, interrupted, written, attached, kernel, ring, total,
                   summary, exit>>

\* poll() on the ring: data, 20 ms, or a signal.
Poll ==
    /\ pc = "poll"
    /\ pc' = "batch"
    /\ UNCHANGED <<batch, deadline, interrupted, written, enabled, attached, kernel,
                   ring, total, summary, exit>>

\* Mutant of Detach: the links are left to the end of the process.
MutantDetach ==
    /\ pc = "detach"
    /\ pc' = "totals"
    /\ UNCHANGED <<batch, deadline, interrupted, written, enabled, attached, kernel,
                   ring, total, summary, exit>>

\* drop(bpf): the links close; no probe is inside its program afterwards.
Detach ==
    /\ pc = "detach" /\ ~probing
    /\ attached' = FALSE
    /\ pc' = "totals"
    /\ UNCHANGED <<batch, deadline, interrupted, written, enabled, kernel, ring,
                   total, summary, exit>>

\* The counters of all CPUs are summed up.
ReadTotals ==
    /\ pc = "totals"
    /\ total' = lost
    /\ pc' = "drain"
    /\ UNCHANGED <<batch, deadline, interrupted, written, enabled, attached, kernel,
                   ring, summary, exit>>

\* Mutant of FinalDrain: what was published just before the detach stays.
MutantFinalDrain ==
    /\ pc = "drain"
    /\ pc' = "summary"
    /\ UNCHANGED <<batch, deadline, interrupted, written, enabled, attached, kernel,
                   ring, total, summary, exit>>

\* The records published before the detach are taken, all of them.
FinalDrain ==
    /\ pc = "drain"
    /\ IF ring # 0
       THEN ring' = ring - 1 /\ Record /\ UNCHANGED pc
       ELSE pc' = "summary" /\ UNCHANGED <<ring, written>>
    /\ UNCHANGED <<batch, deadline, interrupted, enabled, attached, kernel, total,
                   summary, exit>>

\* run(): the archive gets the counters, the report is printed, and losses fail
\* the run if that was asked for.  Incomplete events are losses as well; each is
\* in the kernel's counters too (Transport!LossesAreCounted).
Summary ==
    /\ pc = "summary"
    /\ summary' = IF Archive THEN total ELSE NoSummary
    /\ exit' = IF FailOnLoss /\ total # 0 THEN "loss" ELSE "ok"
    /\ pc' = "done"
    /\ UNCHANGED <<batch, deadline, interrupted, written, enabled, attached, kernel,
                   ring, total>>

\* An error of ring, archive, reassembler, output or poll returns at once; the
\* probes and the ring go with the process.
Error ==
    /\ pc \in {"batch", "check", "poll", "totals", "drain", "summary"}
    /\ pc' = "done"
    /\ exit' = "error"
    /\ attached' = FALSE /\ probing' = FALSE
    /\ UNCHANGED <<batch, deadline, interrupted, written, enabled, inflight, ring,
                   lost, total, summary>>

Collector ==
    \/ TakeRecord \/ EndBatch \/ Check \/ Poll
    \/ Detach \/ ReadTotals \/ FinalDrain \/ Summary

Next ==
    \/ ProbeSubmit \/ EmitSubmit \/ EmitComplete
    \/ Interrupt \/ Tick \/ Collector \/ Error

\* The collector's thread runs, the clock runs, and a probe that has begun ends.
\* Nothing is assumed of the kernel's traffic.
Fairness == WF_vars(Collector) /\ WF_vars(Tick) /\ WF_vars(EmitSubmit)

Spec == Init /\ [][Next]_vars /\ Fairness

-----------------------------------------------------------------------------
(* Properties *)

\* Every variable has its type; a stop is armed exactly when enabled is cleared.
TypeOK ==
    /\ pc \in {"batch", "check", "poll", "detach", "totals", "drain", "summary", "done"}
    /\ batch \in 0 .. BatchSize
    /\ deadline \in {"none", "armed", "passed"}
    /\ enabled <=> deadline = "none"
    /\ interrupted \in BOOLEAN /\ attached \in BOOLEAN
    /\ probing \in BOOLEAN /\ inflight \in BOOLEAN
    /\ ring \in 0 .. RingSize /\ written \in 0 .. CountLimit
    /\ lost \in 0 .. MaxCount /\ total \in 0 .. MaxCount
    /\ summary \in {NoSummary} \cup 0 .. MaxCount
    /\ exit \in {"running", "ok", "loss", "error"}

\* What an orderly stop reports and archives are the kernel's final counters: no
\* probe counts another loss after the snapshot (src/live.rs:245, "no more BPF
\* writes can race this snapshot"; docs/usage.md:133 for the archive).
ReportIsFinal ==
    exit \in {"ok", "loss"} =>
       /\ total = lost
       /\ summary = IF Archive THEN lost ELSE NoSummary

\* With --fail-on-loss a successful exit means that nothing was lost in the ring
\* and that no published record was left in it, although submissions may be
\* observed up to the clearing of enabled and completions up to the detach.
SuccessMeansAll == exit = "ok" /\ FailOnLoss => lost = 0 /\ ring = 0

\* A signal, the duration or the event count ends the capture, however fast the
\* kernel fills the ring (src/live.rs:208, "a busy ring cannot starve
\* signal/deadline checks").
StopsWhenAsked == (interrupted \/ CountReached) ~> exit # "running"

=============================================================================
