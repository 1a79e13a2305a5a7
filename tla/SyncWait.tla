------------------------------ MODULE SyncWait ------------------------------
(***************************************************************************)
(* The wait for the one synchronous prompt (cli.py,                        *)
(* _wait_for_synchronous_response and _arbitrate_synchronous_completion):  *)
(* a daemon worker stamps its completion with the monotonic clock and puts *)
(* it in a queue, a signal handler stamps the first signal, and the        *)
(* controller waits on the queue in slices until a deadline.  Three clocks *)
(* readings, taken by three actors, decide together what becomes of the    *)
(* response.                                                               *)
(***************************************************************************)
EXTENDS Integers

CONSTANTS
    Deadline,   \* of the invocation, on the monotonic clock
    Slice,      \* the longest wait on the queue (0.25 s)
    MaxTime     \* bound on the clock

ASSUME WaitAssumption ==
    /\ Deadline \in Nat /\ Slice \in Nat \ {0} /\ MaxTime \in Nat
    /\ Deadline < MaxTime

Never == -1     \* a moment that has not come
Moments == {Never} \cup 0..MaxTime

VARIABLES
    now,        \* the monotonic clock
    signal,     \* when the first signal was recorded
    worker,     \* "posting", "stamped", "put"
    completion, \* the worker's stamp
    putAt,      \* when the completion entered the queue
    kind,       \* what the worker got: an observation or an error
    queued,     \* the queue holds the completion
    pc,         \* the controller
    until,      \* when the current wait on the queue gives up
    outcome,    \* what the controller made of it
    delayed     \* history: the controller or the worker was kept from running

vars == <<now, signal, worker, completion, putAt, kind, queued, pc, until, outcome, delayed>>

Outcomes == {"none", "accepted", "error", "timed_out", "cancelled"}

TypeOK ==
    /\ now \in 0..MaxTime
    /\ signal \in Moments /\ completion \in Moments /\ putAt \in Moments
    /\ worker \in {"posting", "stamped", "put"}
    /\ kind \in {"none", "observation", "error"}
    /\ queued \in BOOLEAN
    /\ pc \in {"look", "get", "drain", "empty", "late", "arbitrate", "end"}
    /\ until \in 0..Deadline
    /\ outcome \in Outcomes
    /\ delayed \in BOOLEAN

Init ==
    /\ now = 0 /\ signal = Never
    /\ worker = "posting" /\ completion = Never /\ putAt = Never /\ kind = "none"
    /\ queued = FALSE
    /\ pc = "look" /\ until = 0 /\ outcome = "none" /\ delayed = FALSE

Signalled == signal # Never

End(why) == pc' = "end" /\ outcome' = why

-----------------------------------------------------------------------------
(* The worker *)

Stamp ==
    /\ worker = "posting"
    /\ worker' = "stamped" /\ completion' = now
    /\ kind' \in {"observation", "error"}
    /\ UNCHANGED <<now, signal, putAt, queued, pc, until, outcome, delayed>>

PutCompletion ==
    /\ worker = "stamped"
    /\ worker' = "put" /\ putAt' = now /\ queued' = TRUE
    /\ UNCHANGED <<now, signal, completion, kind, pc, until, outcome, delayed>>

-----------------------------------------------------------------------------
(* The controller *)

Shorter(a, b) == IF a < b THEN a ELSE b

LookWithoutDrain ==
    /\ pc = "look"
    /\ IF now >= Deadline
         THEN pc' = "late" /\ UNCHANGED until
         ELSE pc' = "get" /\ until' = now + Shorter(Slice, Deadline - now)
    /\ UNCHANGED <<now, signal, worker, completion, putAt, kind, queued, outcome, delayed>>

LookForever ==
    /\ pc = "look"
    /\ pc' = "get" /\ until' = now + Slice
    /\ UNCHANGED <<now, signal, worker, completion, putAt, kind, queued, outcome, delayed>>

LookUnsliced ==
    /\ pc = "look"
    /\ IF now >= Deadline
         THEN pc' = "drain" /\ UNCHANGED until
         ELSE pc' = "get" /\ until' = Deadline
    /\ UNCHANGED <<now, signal, worker, completion, putAt, kind, queued, outcome, delayed>>

LookAtClock ==
    /\ pc = "look"
    /\ IF now >= Deadline
         THEN pc' = "drain" /\ UNCHANGED until
         ELSE pc' = "get" /\ until' = now + Shorter(Slice, Deadline - now)
    /\ UNCHANGED <<now, signal, worker, completion, putAt, kind, queued, outcome, delayed>>

\* completed.get, with a timeout or without one, finds the completion.
Take ==
    /\ pc \in {"get", "drain"}
    /\ queued
    /\ queued' = FALSE
    /\ pc' = "arbitrate"
    /\ UNCHANGED <<now, signal, worker, completion, putAt, kind, until, outcome, delayed>>

\* queue.Empty, which is raised before the cancellation is looked at.
FindEmpty ==
    /\ ~queued
    /\ \/ pc = "get" /\ now >= until /\ pc' = "empty"
       \/ pc = "drain" /\ pc' = "late"
    /\ UNCHANGED <<now, signal, worker, completion, putAt, kind, queued, until, outcome, delayed>>

CheckCancellation ==
    /\ pc \in {"empty", "late"}
    /\ IF Signalled THEN End("cancelled")
       ELSE IF pc = "late" THEN End("timed_out")
       ELSE pc' = "look" /\ UNCHANGED outcome
    /\ UNCHANGED <<now, signal, worker, completion, putAt, kind, queued, until, delayed>>

\* Mutant of Arbitrate: a response at the very moment of the signal is accepted.
ArbitrateLoosely ==
    /\ pc = "arbitrate"
    /\ End(CASE completion >= Deadline -> "timed_out"
             [] completion < Deadline /\ Signalled /\ completion > signal -> "cancelled"
             [] OTHER -> IF kind = "error" THEN "error" ELSE "accepted")
    /\ UNCHANGED <<now, signal, worker, completion, putAt, kind, queued, until, delayed>>

\* _arbitrate_synchronous_completion
Arbitrate ==
    /\ pc = "arbitrate"
    /\ End(CASE completion >= Deadline -> "timed_out"
             [] completion < Deadline /\ Signalled /\ completion >= signal -> "cancelled"
             [] OTHER -> IF kind = "error" THEN "error" ELSE "accepted")
    /\ UNCHANGED <<now, signal, worker, completion, putAt, kind, queued, until, delayed>>

Controller ==
    LookAtClock \/ Take \/ FindEmpty \/ CheckCancellation \/ Arbitrate

-----------------------------------------------------------------------------
\* _Cancellation.record: the first request only.
Record ==
    /\ pc # "end" /\ ~Signalled
    /\ signal' = now
    /\ UNCHANGED <<now, worker, completion, putAt, kind, queued, pc, until, outcome, delayed>>

Busy ==
    \/ worker = "stamped"
    \/ pc \in {"look", "drain", "empty", "late", "arbitrate"}
    \/ pc = "get" /\ (queued \/ now >= until)

Tick ==
    /\ now < MaxTime
    /\ now' = now + 1
    /\ delayed' = (delayed \/ Busy)
    /\ UNCHANGED <<signal, worker, completion, putAt, kind, queued, pc, until, outcome>>

Next == Stamp \/ PutCompletion \/ Controller \/ Record \/ Tick

Spec == Init /\ [][Next]_vars

\* Time passes and the controller is scheduled; the worker may never return.
LiveSpec == Spec /\ WF_vars(Controller) /\ WF_vars(Tick)

-----------------------------------------------------------------------------
(* Properties *)

\* README.md: "evidence is accepted only if it completed strictly before the
\* deadline and any cancellation timestamp", however long the completion waited
\* in the queue and whenever the signal came; nor does an error that came later
\* hide the timeout or the signal.
AcceptedInTime ==
    outcome \in {"accepted", "error"} =>
        completion < Deadline /\ (Signalled => completion < signal)

\* A completion that is in the queue before the deadline is never reported as
\* timed out, even when the controller wakes up after it.
QueuedInTimeNeverTimesOut ==
    outcome = "timed_out" => ~(putAt # Never /\ putAt < Deadline)

\* As long as nobody is kept from running, a signal is noticed within one slice,
\* and the wait does not outlast the deadline.
NoticedWithinSlice ==
    ~delayed /\ outcome = "none" =>
        now <= Deadline /\ (Signalled => now <= signal + Slice)

\* The wait ends, whatever the worker does.
WaitEnds == <>(outcome # "none")

\* README.md: "A response completed before a later cancellation is retained".
EarlierResponseRetained ==
    outcome = "cancelled" /\ kind = "observation" /\ putAt # Never => putAt >= signal
=============================================================================
