--------------------------- MODULE SyncWaitProofs ---------------------------
(***************************************************************************)
(* The arbitration of SyncWait, for every deadline and slice and any       *)
(* delays.                                                                 *)
(*                                                                         *)
(* No clock reading lies in the future (StampsArePast), and a signal       *)
(* recorded after the decision cannot exist because Record stops with it:  *)
(* that is what makes the moment of the decision the last word             *)
(* (AcceptedInTime).  For the deadline the argument is the second look     *)
(* into the queue: from step "late" on, the queue was seen empty at or     *)
(* after the deadline, so that any completion is put after it              *)
(* (LateSawEmpty).                                                         *)
(* Promptness rests on one fact: undelayed, time passes only in a wait on  *)
(* the queue that is not over (UndelayedIsPrompt).                         *)
(***************************************************************************)
EXTENDS SyncWait, TLAPS

\* Readings are ordered as the actors take them, and none is ahead of the clock.
StampsArePast ==
    /\ signal <= now /\ completion <= now /\ putAt <= now
    /\ worker = "posting" <=> completion = Never
    /\ worker = "put" <=> putAt # Never
    /\ worker # "posting" => kind # "none"
    /\ putAt # Never => completion <= putAt

\* The completion is in the queue, or the controller has taken it.
PutIsQueuedOrTaken ==
    /\ queued => worker = "put" /\ pc \notin {"arbitrate"}
    /\ pc = "arbitrate" => worker = "put"
    /\ worker = "put" /\ ~queued => pc \in {"arbitrate", "end"}
    /\ outcome \in {"accepted", "error"} => worker = "put"

\* The last look into the queue happens at the deadline or later.
DrainedAtDeadline ==
    pc \in {"drain", "late"} \/ outcome = "timed_out" => now >= Deadline

\* Whoever found the queue empty there finds every completion put later.
LateSawEmpty ==
    /\ pc = "late" => ~(putAt # Never /\ putAt < Deadline)
    /\ outcome = "timed_out" => ~(putAt # Never /\ putAt < Deadline)

Ended == (pc = "end") <=> (outcome # "none")

\* Undelayed, time passes only in a wait on the queue that is not over; such a
\* wait began with no signal or at the moment of the signal, and lasts one slice.
UndelayedIsPrompt ==
    ~delayed /\ pc # "end" =>
        /\ now <= Deadline
        /\ pc = "look" /\ Signalled => signal = now
        /\ Signalled => now <= signal + Slice
        /\ pc = "get" =>
              /\ now <= until /\ until <= now + Slice
              /\ Signalled => until <= signal + Slice

IInv ==
    /\ TypeOK
    /\ StampsArePast
    /\ PutIsQueuedOrTaken
    /\ DrainedAtDeadline
    /\ LateSawEmpty
    /\ Ended
    /\ AcceptedInTime
    /\ UndelayedIsPrompt

\* The wait begins in it.
LEMMA InitIInv == Init => IInv
<1> USE WaitAssumption DEF Never, WaitAssumption
<1>0. Deadline \in Nat /\ MaxTime \in Nat
  BY WaitAssumption DEF WaitAssumption
<1>1. Init => TypeOK
  <2> SUFFICES ASSUME Init PROVE TypeOK
    OBVIOUS
  <2>1. now \in 0..MaxTime /\ signal \in Moments /\ completion \in Moments
        /\ putAt \in Moments /\ until \in 0..Deadline
    BY <1>0 DEF Init, Moments
  <2>2. worker \in {"posting", "stamped", "put"} /\ queued \in BOOLEAN
        /\ delayed \in BOOLEAN
    BY DEF Init
  <2>3. kind \in {"none", "observation", "error"} /\ outcome \in Outcomes
    BY DEF Init, Outcomes
  <2>4. pc \in {"look", "get", "drain", "empty", "late", "arbitrate", "end"}
    BY DEF Init
  <2> QED BY <2>1, <2>2, <2>3, <2>4 DEF TypeOK
<1>2. Init => StampsArePast /\ PutIsQueuedOrTaken /\ DrainedAtDeadline
  BY DEF Init, StampsArePast, PutIsQueuedOrTaken, DrainedAtDeadline
<1>3. Init => LateSawEmpty /\ Ended /\ AcceptedInTime
  BY DEF Init, LateSawEmpty, Ended, AcceptedInTime
<1>4. Init => UndelayedIsPrompt
  BY <1>0 DEF Init, UndelayedIsPrompt, Signalled
<1> QED BY <1>1, <1>2, <1>3, <1>4 DEF IInv

\* A step of anyone keeps it.
LEMMA StepIInv == IInv /\ [Next]_vars => IInv'
<1> SUFFICES ASSUME IInv, [Next]_vars PROVE IInv'
  OBVIOUS
<1> USE WaitAssumption DEF WaitAssumption, IInv, TypeOK, StampsArePast, PutIsQueuedOrTaken,
      DrainedAtDeadline, LateSawEmpty, Ended, AcceptedInTime, UndelayedIsPrompt,
      Never, Moments, Outcomes, Signalled, End
<1>1. CASE Stamp BY <1>1 DEF Stamp
<1>2. CASE PutCompletion BY <1>2 DEF PutCompletion
<1>3. CASE LookAtClock
  <2>1. CASE now >= Deadline BY <1>3, <2>1 DEF LookAtClock
  <2>2. CASE now < Deadline
    <3>1. /\ now + Shorter(Slice, Deadline - now) \in 0..Deadline
          /\ now + Shorter(Slice, Deadline - now) <= now + Slice
          /\ now <= now + Shorter(Slice, Deadline - now)
      BY <2>2 DEF Shorter
    <3> QED BY <1>3, <2>2, <3>1 DEF LookAtClock
  <2> QED BY <2>1, <2>2
<1>4. CASE Take BY <1>4 DEF Take
<1>5. CASE FindEmpty
  <2>1. putAt = Never BY <1>5 DEF FindEmpty
  <2> QED BY <1>5, <2>1 DEF FindEmpty
<1>6. CASE CheckCancellation BY <1>6 DEF CheckCancellation
<1>7. CASE Arbitrate
  <2>1. CASE completion >= Deadline BY <1>7, <2>1 DEF Arbitrate
  <2>2. CASE completion < Deadline /\ Signalled /\ completion >= signal
    BY <1>7, <2>2 DEF Arbitrate
  <2>3. CASE completion < Deadline /\ (Signalled => completion < signal)
    BY <1>7, <2>3 DEF Arbitrate
  <2> QED BY <2>1, <2>2, <2>3
<1>8. CASE Record BY <1>8 DEF Record
<1>9. CASE Tick
  <2>1. CASE delayed \/ Busy
    <3>1. delayed' = TRUE BY <1>9, <2>1 DEF Tick
    <3> QED BY <1>9, <3>1 DEF Tick
  <2>2. CASE ~delayed /\ ~Busy
    <3>1. pc = "end" \/ (pc = "get" /\ now < until)
      BY <2>2 DEF Busy
    <3>2. CASE pc = "end" BY <1>9, <3>2 DEF Tick
    <3>3. CASE pc = "get" /\ now < until BY <1>9, <2>2, <3>3 DEF Tick
    <3> QED BY <3>1, <3>2, <3>3
  <2> QED BY <2>1, <2>2
<1>10. CASE UNCHANGED vars BY <1>10 DEF vars
<1> QED BY <1>1, <1>2, <1>3, <1>4, <1>5, <1>6, <1>7, <1>8, <1>9, <1>10
        DEF Next, Controller

\* Every variable keeps its type, the times of the three clock readings included.
THEOREM TypeCorrect == Spec => []TypeOK
<1>1. IInv => TypeOK BY DEF IInv
<1> QED BY InitIInv, StepIInv, <1>1, PTL DEF Spec

\* A response, or an error, counts only when the worker was done strictly before the
\* deadline and strictly before the signal, whatever the delays
\* (_arbitrate_synchronous_completion).
THEOREM OnlyInTime == Spec => []AcceptedInTime
<1>1. IInv => AcceptedInTime BY DEF IInv
<1> QED BY InitIInv, StepIInv, <1>1, PTL DEF Spec

\* A completion in the queue before the deadline is never reported as timed
\* out (the drain of _wait_for_synchronous_response).
THEOREM NoLostCompletion == Spec => []QueuedInTimeNeverTimesOut
<1>1. IInv => QueuedInTimeNeverTimesOut
  BY DEF IInv, LateSawEmpty, QueuedInTimeNeverTimesOut
<1> QED BY InitIInv, StepIInv, <1>1, PTL DEF Spec

\* While neither the controller nor the worker is kept from running, a signal
\* is noticed within one slice and the wait does not outlast its deadline.
THEOREM NoticedInTime == Spec => []NoticedWithinSlice
<1>1. IInv /\ outcome = "none" => pc # "end"
  BY DEF IInv, Ended
<1>2. IInv => NoticedWithinSlice
  BY <1>1 DEF IInv, UndelayedIsPrompt, NoticedWithinSlice
<1> QED BY InitIInv, StepIInv, <1>2, PTL DEF Spec
=============================================================================
