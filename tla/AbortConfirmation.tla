------------------------- MODULE AbortConfirmation -------------------------
(***************************************************************************)
(* How an active invocation is cancelled (cli.py,                          *)
(* _interrupt_active_invocation up to its metadata; opencode_runner.py,    *)
(* abort, observe_status and _request): one abort request, then status     *)
(* requests until the session is idle, an error occurs or ten seconds have *)
(* passed on the monotonic clock.                                          *)
(*                                                                         *)
(* A timeout of _request is a socket timeout: it bounds every single       *)
(* connect, send or receive, and a request takes several of them.          *)
(* The session belongs to the server, where it can become idle by the      *)
(* abort or by itself, busy again by the worker's late prompt, and vanish  *)
(* from the status map.                                                    *)
(***************************************************************************)
EXTENDS Integers

CONSTANTS
    Budget,   \* the confirmation deadline, 10 s from the end of the abort
    Slice,    \* the pause between two status requests, 1 s
    Timeout,  \* REQUEST_TIMEOUT_SECONDS, 10 s
    Operations, \* bound on the socket operations a request takes
    MaxTime,  \* bounds on the clock
    MaxDelay  \* and on the time the controller is kept from running

ASSUME ConfirmationAssumption ==
    /\ Budget \in Nat \ {0} /\ Slice \in Nat \ {0} /\ Timeout \in Nat \ {0}
    /\ Operations \in Nat \ {0} /\ MaxTime \in Nat /\ MaxDelay \in Nat

Never == -1
Moments == {Never} \cup 0..MaxTime
Statuses == {"busy", "idle", "unlisted"}

VARIABLES
    now,          \* the monotonic clock
    session,      \* what the server's status map says of the session
    since,        \* when it began to say so
    pc,           \* the controller
    operations,   \* socket operations of the current request that are over
    allowed,      \* timeout of each socket operation of the current request
    expires,      \* when the current socket operation times out
    answer,       \* what the server's answer will say, once it has looked
    deadline,
    until,        \* end of the current pause
    acknowledged, \* abort_acknowledged
    confirmation, \* abort_confirmation
    asked,        \* when the last status request was made
    wasIdle,      \* the session was idle at some moment since then
    hampered,     \* a request failed or took time
    delay         \* how long the controller was kept from running

vars == <<now, session, since, pc, operations, allowed, expires, answer, deadline, until,
          acknowledged, confirmation, asked, wasIdle, hampered, delay>>
server == <<now, session, since>>
request == <<operations, allowed, expires, answer>>
timers == <<deadline, until>>
evidence == <<acknowledged, confirmation>>
history == <<asked, wasIdle, hampered, delay>>

Shorter(a, b) == IF a < b THEN a ELSE b

Steps == {"abort", "aborting", "clock", "look", "request", "asking", "pause", "asleep", "end"}
Exchanging == {"aborting", "asking"}

TypeOK ==
    /\ now \in 0..MaxTime
    /\ session \in Statuses /\ since \in 0..now
    /\ pc \in Steps
    /\ operations \in 0..Operations /\ allowed \in 0..Timeout
    /\ expires \in 0..(MaxTime + Timeout)
    /\ answer \in Statuses \cup {"none", "yes", "no", "malformed"}
    /\ deadline \in 0..(MaxTime + Budget) /\ until \in 0..(MaxTime + Slice)
    /\ acknowledged \in {"null", "yes", "no"} /\ confirmation \in {"null", "idle"}
    /\ asked \in Moments /\ wasIdle \in BOOLEAN /\ hampered \in BOOLEAN
    /\ delay \in 0..MaxDelay

Init ==
    /\ now = 0 /\ session \in {"busy", "idle"} /\ since = 0
    /\ pc = "abort" /\ operations = 0 /\ allowed = 0 /\ expires = 0 /\ answer = "none"
    /\ deadline = 0 /\ until = 0
    /\ acknowledged = "null" /\ confirmation = "null"
    /\ asked = Never /\ wasIdle = FALSE /\ hampered = FALSE /\ delay = 0

-----------------------------------------------------------------------------
(* One HTTP request *)

\* _request, up to its first socket operation.
Open(timeout, step) ==
    /\ pc' = step /\ operations' = 0 /\ answer' = "none"
    /\ allowed' = timeout /\ expires' = now + timeout

SendAbort ==
    /\ pc = "abort"
    /\ Open(Timeout, "aborting")
    /\ UNCHANGED <<server, timers, evidence, history>>

\* The server looks at the session, somewhere between request and answer.
ServerLooks ==
    /\ pc \in Exchanging /\ answer = "none"
    /\ \/ answer' = "malformed"
       \/ answer' \in IF pc = "aborting" THEN {"yes", "no"} ELSE {session}
    /\ UNCHANGED <<server, pc, operations, allowed, expires, timers, evidence, history>>

\* The connection stands, or a part of the answer arrives: the socket's timeout
\* starts again.
NextOperation ==
    /\ pc \in Exchanging
    /\ operations < Operations - 1
    /\ operations' = operations + 1
    /\ expires' = now + allowed
    /\ UNCHANGED <<server, pc, allowed, answer, timers, evidence, history>>

AbortAnswered ==
    /\ pc = "aborting" /\ answer # "none"
    /\ pc' = "clock"
    /\ acknowledged' = IF answer = "malformed" THEN "null" ELSE answer
    /\ UNCHANGED <<server, request, timers, confirmation, history>>

\* Mutants of StatusAnswered: a session the server does not list counts as
\* idle; any answer but idle ends the wait.
StatusAnsweredByAbsence ==
    /\ pc = "asking" /\ answer # "none"
    /\ confirmation' = IF answer \in {"idle", "unlisted"} THEN "idle" ELSE confirmation
    /\ pc' = IF answer = "busy" THEN "pause" ELSE "end"
    /\ hampered' = (hampered \/ answer = "malformed" \/ now > asked)
    /\ UNCHANGED <<server, request, timers, acknowledged, asked, wasIdle, delay>>

StatusAnsweredOnce ==
    /\ pc = "asking" /\ answer # "none"
    /\ pc' = "end"
    /\ confirmation' = IF answer = "idle" THEN "idle" ELSE confirmation
    /\ hampered' = (hampered \/ answer = "malformed" \/ now > asked)
    /\ UNCHANGED <<server, request, timers, acknowledged, asked, wasIdle, delay>>

\* The answer is complete, whatever the clock says by now.
StatusAnswered ==
    /\ pc = "asking" /\ answer # "none"
    /\ confirmation' = IF answer = "idle" THEN "idle" ELSE confirmation
    /\ pc' = IF answer \in {"idle", "malformed"} THEN "end" ELSE "pause"
    /\ hampered' = (hampered \/ answer = "malformed" \/ now > asked)
    /\ UNCHANGED <<server, request, timers, acknowledged, asked, wasIdle, delay>>

\* A refused or reset connection, an HTTP error, or a socket operation that
\* timed out: the abort is not repeated, the wait for its confirmation ends.
RequestFails ==
    /\ pc \in Exchanging
    /\ pc' = IF pc = "aborting" THEN "clock" ELSE "end"
    /\ hampered' = TRUE
    /\ UNCHANGED <<server, request, timers, evidence, asked, wasIdle, delay>>

-----------------------------------------------------------------------------
(* The wait for the confirmation *)

SetDeadline ==
    /\ pc = "clock"
    /\ deadline' = now + Budget
    /\ pc' = "look"
    /\ UNCHANGED <<server, request, until, evidence, history>>

Look ==
    /\ pc = "look"
    /\ pc' = IF now < deadline THEN "request" ELSE "end"
    /\ UNCHANGED <<server, request, timers, evidence, history>>

\* Mutant of RequestStatus: what remains until the deadline does not shorten
\* the timeout.
RequestStatusUnbounded ==
    /\ pc = "request"
    /\ IF now >= deadline
         THEN pc' = "end" /\ UNCHANGED <<request, asked, wasIdle>>
         ELSE /\ Open(Timeout, "asking")
              /\ asked' = now /\ wasIdle' = (session = "idle")
    /\ UNCHANGED <<server, timers, evidence, hampered, delay>>

\* _request reads the clock again; nothing is sent at the deadline or later.
RequestStatus ==
    /\ pc = "request"
    /\ IF now >= deadline
         THEN pc' = "end" /\ UNCHANGED <<request, asked, wasIdle>>
         ELSE /\ Open(Shorter(Timeout, deadline - now), "asking")
              /\ asked' = now /\ wasIdle' = (session = "idle")
    /\ UNCHANGED <<server, timers, evidence, hampered, delay>>

\* time.sleep(min(1, max(0, deadline - time.monotonic())))
Pause ==
    /\ pc = "pause"
    /\ until' = now + (IF now >= deadline THEN 0 ELSE Shorter(Slice, deadline - now))
    /\ pc' = "asleep"
    /\ UNCHANGED <<server, request, deadline, evidence, history>>

\* time.sleep never returns early; the signal handler only records.
Wake ==
    /\ pc = "asleep" /\ now >= until
    /\ pc' = "look"
    /\ UNCHANGED <<server, request, timers, evidence, history>>

-----------------------------------------------------------------------------
(* Time and the server *)

\* Steps that nothing but the controller's own delay keeps from being taken.
Ready ==
    \/ pc \in {"abort", "clock", "look", "request", "pause"}
    \/ pc = "asleep" /\ now >= until
    \/ pc \in Exchanging /\ now >= expires

Tick ==
    /\ now < MaxTime
    /\ delay' = delay + (IF Ready THEN 1 ELSE 0)
    /\ delay' <= MaxDelay
    /\ now' = now + 1
    /\ UNCHANGED <<session, since, pc, request, timers, evidence, asked, wasIdle, hampered>>

SessionChanges ==
    /\ session' \in Statuses \ {session}
    /\ since' = now
    /\ wasIdle' = (wasIdle \/ session' = "idle")
    /\ UNCHANGED <<now, pc, request, timers, evidence, asked, hampered, delay>>

Controller ==
    \/ SendAbort \/ AbortAnswered \/ StatusAnswered \/ SetDeadline \/ Look
    \/ RequestStatus \/ Pause \/ Wake

Next ==
    \/ Controller \/ RequestFails \/ ServerLooks \/ NextOperation \/ Tick \/ SessionChanges

Spec == Init /\ [][Next]_vars

-----------------------------------------------------------------------------
(* Properties *)

\* An invocation recorded as confirmed idle was idle after the abort, at some
\* moment between the status request that says so and its answer: neither a
\* session the server does not list nor an older answer passes for it.
ConfirmedWasIdle == confirmation = "idle" => asked # Never /\ wasIdle

\* A session that was idle for more than the last pause before the deadline, on
\* a server that answered every request at once, is not reported as possibly
\* active.
IdleIsConfirmed ==
    delay = 0 /\ pc = "end" /\ ~hampered /\ session = "idle" /\ since + Slice < deadline =>
        confirmation = "idle"

\* How late the wait can end although nobody delays the controller and the
\* server never answers, or says busy for ever: the socket timeouts of the last
\* request's operations are all that comes on top of the deadline (README.md:238
\* has one deadline for every status observation), and the abort before it is
\* bounded by its own.
OvershootBounded ==
    delay = 0 /\ pc # "end" =>
        /\ pc \in {"abort", "aborting", "clock"} => now <= Operations * Timeout
        /\ pc \notin {"abort", "aborting", "clock"} =>
               now <= deadline + (Operations - 1) * Shorter(Timeout, Budget)
=============================================================================
