-------------------------- MODULE LiveCaptureProofs --------------------------
(***************************************************************************)
(* Proofs about LiveCapture for every ring and batch size, every count      *)
(* limit and every choice of options.                                       *)
(***************************************************************************)
EXTENDS LiveCapture, TLAPS

-----------------------------------------------------------------------------
(* Type correctness *)

\* Counters stay within their bound.
LEMMA SaturateLemma == \A n \in 0 .. MaxCount : Saturate(n + 1) \in 1 .. MaxCount
  BY LiveCaptureAssumption DEF Saturate

\* Every step of the kernel, the user and the collector keeps the types, the ring
\* within its size, the output within -c, and enabled in step with the deadline.
LEMMA TypeLemma == TypeOK /\ [Next]_vars => TypeOK'
  <1> SUFFICES ASSUME TypeOK, [Next]_vars PROVE TypeOK'
    OBVIOUS
  <1> USE LiveCaptureAssumption, SaturateLemma DEF TypeOK
  <1>1. CASE ProbeSubmit
    BY <1>1 DEF ProbeSubmit
  <1>2. CASE EmitSubmit
    <2>1. ring' \in 0 .. RingSize /\ lost' \in 0 .. MaxCount
      BY <1>2 DEF EmitSubmit, Emitted
    <2>2. QED
      BY <1>2, <2>1 DEF EmitSubmit
  <1>3. CASE EmitComplete
    <2>1. ring' \in 0 .. RingSize /\ lost' \in 0 .. MaxCount
      BY <1>3 DEF EmitComplete, Emitted
    <2>2. QED
      BY <1>3, <2>1 DEF EmitComplete
  <1>4. CASE Interrupt
    BY <1>4 DEF Interrupt, kernel
  <1>5. CASE Tick
    BY <1>5 DEF Tick, kernel
  <1>6. CASE TakeRecord
    BY <1>6 DEF TakeRecord, BatchOver, Record, CountReached, kernel
  <1>7. CASE EndBatch
    BY <1>7 DEF EndBatch, kernel
  <1>8. CASE Check
    BY <1>8 DEF Check, ArmStop, kernel
  <1>9. CASE Poll
    BY <1>9 DEF Poll, kernel
  <1>10. CASE Detach
    BY <1>10 DEF Detach, kernel
  <1>11. CASE ReadTotals
    BY <1>11 DEF ReadTotals, kernel
  <1>12. CASE FinalDrain
    BY <1>12 DEF FinalDrain, Record, CountReached, kernel
  <1>13. CASE Summary
    BY <1>13 DEF Summary, NoSummary, kernel
  <1>14. CASE Error
    BY <1>14 DEF Error
  <1>15. CASE UNCHANGED vars
    BY <1>15 DEF vars
  <1>16. QED
    BY <1>1, <1>2, <1>3, <1>4, <1>5, <1>6, <1>7, <1>8, <1>9, <1>10, <1>11,
       <1>12, <1>13, <1>14, <1>15 DEF Next, Collector

\* Every reachable state of the collector and its counters is typed.
THEOREM TypeCorrect == Spec => []TypeOK
  <1>1. Init => TypeOK
    <2> SUFFICES ASSUME Init PROVE TypeOK
      OBVIOUS
    <2>1. batch \in 0 .. BatchSize /\ ring \in 0 .. RingSize /\ written \in 0 .. CountLimit
      BY LiveCaptureAssumption DEF Init
    <2>2. lost \in 0 .. MaxCount /\ total \in 0 .. MaxCount
      BY LiveCaptureAssumption DEF Init
    <2>3. QED
      BY <2>1, <2>2 DEF Init, TypeOK
  <1>2. QED
    BY <1>1, TypeLemma, PTL DEF Spec

-----------------------------------------------------------------------------
(* The final report *)

\* From the detach on no probe runs, so the counters read afterwards stay what the
\* kernel has; the ring is empty when its last drain is over.
StopInv ==
    /\ exit = "running" <=> pc # "done"
    /\ pc \in {"totals", "drain", "summary", "done"} => ~attached /\ ~probing
    /\ pc \in {"drain", "summary"} => total = lost
    /\ pc = "summary" => ring = 0
    /\ exit \in {"ok", "loss"} => total = lost /\ ring = 0
    /\ exit \in {"ok", "loss"} => summary = IF Archive THEN total ELSE NoSummary
    /\ exit = "ok" /\ FailOnLoss => total = 0

\* The steps that can disturb it are those of the kernel, which need a probe, and
\* those of the collector behind its loop.
LEMMA StopLemma == TypeOK /\ StopInv /\ [Next]_vars => StopInv'
  <1> SUFFICES ASSUME TypeOK, StopInv, [Next]_vars PROVE StopInv'
    OBVIOUS
  <1> USE DEF StopInv
  <1>1. CASE ProbeSubmit
    BY <1>1 DEF ProbeSubmit, TypeOK
  <1>2. CASE EmitSubmit
    BY <1>2 DEF EmitSubmit, Emitted, TypeOK
  <1>3. CASE EmitComplete
    BY <1>3 DEF EmitComplete, Emitted, TypeOK
  <1>4. CASE Interrupt \/ Tick
    BY <1>4 DEF Interrupt, Tick, kernel
  <1>5. CASE TakeRecord \/ EndBatch \/ Check \/ Poll
    BY <1>5 DEF TakeRecord, EndBatch, Check, Poll, kernel
  <1>6. CASE Detach
    BY <1>6 DEF Detach, kernel
  <1>7. CASE ReadTotals
    BY <1>7 DEF ReadTotals, kernel
  <1>8. CASE FinalDrain
    BY <1>8 DEF FinalDrain, kernel
  <1>9. CASE Summary
    BY <1>9 DEF Summary, kernel
  <1>10. CASE Error
    BY <1>10 DEF Error
  <1>11. CASE UNCHANGED vars
    BY <1>11 DEF vars
  <1>12. QED
    BY <1>1, <1>2, <1>3, <1>4, <1>5, <1>6, <1>7, <1>8, <1>9, <1>10, <1>11
       DEF Next, Collector

\* The detach comes before the snapshot and the snapshot before the last drain:
\* this holds in every reachable state.
LEMMA StopCorrect == Spec => []StopInv
  <1>1. Init => StopInv
    BY DEF Init, StopInv
  <1>2. QED
    BY <1>1, StopLemma, TypeCorrect, PTL DEF Spec

\* Whatever the kernel publishes or loses while capture() stops, the counters it
\* reports and archives are the kernel's last.
THEOREM ReportCorrect == Spec => []ReportIsFinal
  <1>1. StopInv => ReportIsFinal
    BY DEF StopInv, ReportIsFinal
  <1>2. QED
    BY <1>1, StopCorrect, PTL

\* Under --fail-on-loss success means that no record was lost or left behind.
THEOREM SuccessCorrect == Spec => []SuccessMeansAll
  <1>1. StopInv => SuccessMeansAll
    BY DEF StopInv, SuccessMeansAll
  <1>2. QED
    BY <1>1, StopCorrect, PTL

=============================================================================
