---------------------- MODULE AbortConfirmationProofs ----------------------
(***************************************************************************)
(* AbortConfirmation for every budget, pause and timeout, any number of    *)
(* socket operations per request, and a session that changes at will.      *)
(*                                                                         *)
(* AnswerIsFresh is why a confirmation can be believed: it speaks of a     *)
(* moment after the request.  Punctual is the arithmetic of the timeouts:  *)
(* each socket operation that a request has begun adds one timeout to the  *)
(* bound of the one before.  Attentive says what an unhampered wait knows  *)
(* between two requests: if the session is idle now it has become so since *)
(* the last one was made, and the next one is at most a pause away.        *)
(***************************************************************************)
EXTENDS AbortConfirmation, TLAPS

Cancelling == {"abort", "aborting", "clock"}
Confirming == Steps \ (Cancelling \cup {"end"})

\* An answer that says idle was given by an idle session.
AnswerIsFresh ==
    /\ pc = "aborting" => answer \in {"none", "yes", "no", "malformed"}
    /\ pc = "asking" => answer \in {"none", "busy", "idle", "unlisted", "malformed"}
    /\ pc = "asking" => asked # Never /\ (session = "idle" \/ answer = "idle" => wasIdle)
    /\ confirmation = "idle" => pc = "end"
    /\ pc \in Cancelling => asked = Never
    /\ asked <= now
    /\ ConfirmedWasIdle

\* What the socket operations of one status request can add to the deadline.
LastTimeout == Shorter(Timeout, Budget)
LatestEnd == deadline + (Operations - 1) * LastTimeout

Punctual ==
    /\ pc \in Exchanging => operations <= Operations - 1
    /\ pc \in Confirming => deadline <= now + Budget
    /\ pc = "asking" => allowed <= LastTimeout
    /\ pc = "aborting" => allowed = Timeout
    /\ delay = 0 =>
          /\ pc = "abort" => now = 0
          /\ pc = "aborting" => now <= expires /\ expires <= (operations + 1) * Timeout
          /\ pc = "clock" => now <= Operations * Timeout
          /\ pc \in Confirming => now <= LatestEnd
          /\ pc = "asking" => now <= expires /\ expires <= deadline + operations * LastTimeout
          /\ pc = "asleep" => now <= until /\ until <= LatestEnd

\* Nothing hampers the wait: every answer comes at the moment of its request.
Attentive ==
    delay = 0 /\ ~hampered =>
        /\ pc \in {"look", "request"} =>
              IF asked = Never
                THEN now < deadline
                ELSE /\ now = Shorter(asked + Slice, deadline)
                     /\ session = "idle" => asked <= since
        /\ pc = "asking" =>
              /\ asked < deadline /\ asked <= now
              /\ answer \in {"busy", "unlisted"} /\ session = "idle" => asked <= since
        /\ pc = "pause" =>
              asked = now /\ asked < deadline /\ (session = "idle" => asked <= since)
        /\ pc = "asleep" =>
              /\ asked # Never /\ until = Shorter(asked + Slice, deadline) /\ now <= until
              /\ session = "idle" => asked <= since
        /\ pc = "end" =>
              \/ confirmation = "idle"
              \/ deadline <= now /\ (session = "idle" => deadline <= since + Slice)

IInv == TypeOK /\ AnswerIsFresh /\ Punctual /\ Attentive

-----------------------------------------------------------------------------
LEMMA Multiples ==
    ASSUME NEW a \in Nat, NEW b \in Nat, NEW t \in Nat
    PROVE  /\ a * t \in Nat /\ (a + 1) * t = a * t + t
           /\ a <= b => a * t <= b * t
<1>1. a * t \in Nat /\ (a + 1) * t = a * t + t
  BY SMT
<1>2. ASSUME a <= b PROVE a * t <= b * t
  <2>1. PICK d \in Nat : b = a + d
    BY <1>2
  <2>2. b * t = a * t + d * t /\ d * t \in Nat
    BY <2>1
  <2> QED BY <1>1, <2>2
<1> QED BY <1>1, <1>2

LEMMA Bounds ==
    /\ LastTimeout \in Nat \ {0} /\ LastTimeout <= Timeout /\ LastTimeout <= Budget
    /\ (Operations - 1) * LastTimeout \in Nat
    /\ \A d \in Nat : Shorter(Timeout, d) <= Timeout /\ Shorter(Timeout, d) <= d
<1>1. LastTimeout \in Nat \ {0} /\ LastTimeout <= Timeout /\ LastTimeout <= Budget
      /\ Operations - 1 \in Nat
  BY ConfirmationAssumption DEF ConfirmationAssumption, LastTimeout, Shorter
<1>2. \A d \in Nat : Shorter(Timeout, d) <= Timeout /\ Shorter(Timeout, d) <= d
  BY ConfirmationAssumption DEF ConfirmationAssumption, Shorter
<1> QED BY <1>1, <1>2, Multiples

LEMMA InitIInv == Init => IInv
<1> SUFFICES ASSUME Init PROVE IInv
  OBVIOUS
<1> USE ConfirmationAssumption DEF ConfirmationAssumption, Init, Never
<1>1. TypeOK
  <2>1. hampered \in BOOLEAN /\ wasIdle \in BOOLEAN BY Zenon
  <2>2. /\ now \in 0..MaxTime /\ since \in 0..now /\ operations \in 0..Operations
        /\ allowed \in 0..Timeout /\ expires \in 0..(MaxTime + Timeout)
        /\ deadline \in 0..(MaxTime + Budget) /\ until \in 0..(MaxTime + Slice)
        /\ delay \in 0..MaxDelay /\ asked \in Moments
    BY DEF Moments
  <2>3. /\ session \in Statuses /\ pc \in Steps
        /\ answer \in Statuses \cup {"none", "yes", "no", "malformed"}
        /\ acknowledged \in {"null", "yes", "no"} /\ confirmation \in {"null", "idle"}
    BY DEF Statuses, Steps
  <2> QED BY <2>1, <2>2, <2>3 DEF TypeOK
<1>2. AnswerIsFresh BY DEF AnswerIsFresh, Cancelling, ConfirmedWasIdle
<1>3. Punctual /\ Attentive BY DEF Punctual, Attentive, Exchanging, Confirming, Cancelling, Steps
<1> QED BY <1>1, <1>2, <1>3 DEF IInv

LEMMA StepTypeOK ==
    ASSUME TypeOK, AnswerIsFresh, Punctual, [Next]_vars
    PROVE  TypeOK'
<1> USE ConfirmationAssumption
    DEF ConfirmationAssumption, TypeOK, Moments, Never, Statuses, Steps, Exchanging, vars,
        server, request, timers, evidence, history
<1>1. CASE SendAbort BY <1>1 DEF SendAbort, Open
<1>2. CASE ServerLooks BY <1>2 DEF ServerLooks
<1>3. CASE NextOperation BY <1>3 DEF NextOperation, Punctual
<1>4. CASE AbortAnswered BY <1>4 DEF AbortAnswered, AnswerIsFresh
<1>5. CASE StatusAnswered BY <1>5 DEF StatusAnswered
<1>6. CASE RequestFails BY <1>6 DEF RequestFails
<1>7. CASE SetDeadline BY <1>7 DEF SetDeadline
<1>8. CASE Look BY <1>8 DEF Look
<1>9. CASE RequestStatus
  <2>1. wasIdle' \in BOOLEAN
    <3>1. wasIdle' = wasIdle \/ wasIdle' = (session = "idle")
      BY <1>9 DEF RequestStatus
    <3> QED BY <3>1, Zenon
  <2> HIDE DEF TypeOK
  <2>2. TypeOK => TypeOK' \/ wasIdle' \notin BOOLEAN
    BY <1>9 DEF RequestStatus, Open, Shorter, TypeOK
  <2> QED BY <2>1, <2>2
<1>10. CASE Pause BY <1>10 DEF Pause, Shorter
<1>11. CASE Wake BY <1>11 DEF Wake
<1>12. CASE Tick BY <1>12 DEF Tick
<1>13. CASE SessionChanges BY <1>13 DEF SessionChanges
<1>14. CASE UNCHANGED vars BY <1>14
<1> QED
  BY <1>1, <1>2, <1>3, <1>4, <1>5, <1>6, <1>7, <1>8, <1>9, <1>10, <1>11, <1>12, <1>13, <1>14
     DEF Next, Controller

LEMMA StepAnswerIsFresh == ASSUME TypeOK, AnswerIsFresh, [Next]_vars PROVE AnswerIsFresh'
<1> USE DEF TypeOK, AnswerIsFresh, ConfirmedWasIdle, Cancelling, Exchanging, Moments, Never,
        vars, server, request, timers, evidence, history
<1>1. CASE SendAbort BY <1>1 DEF SendAbort, Open
<1>2. CASE ServerLooks BY <1>2 DEF ServerLooks, Statuses
<1>3. CASE NextOperation BY <1>3 DEF NextOperation
<1>4. CASE AbortAnswered BY <1>4 DEF AbortAnswered, AnswerIsFresh
<1>5. CASE StatusAnswered BY <1>5 DEF StatusAnswered
<1>6. CASE RequestFails BY <1>6 DEF RequestFails
<1>7. CASE SetDeadline BY <1>7 DEF SetDeadline
<1>8. CASE Look BY <1>8 DEF Look
<1>9. CASE RequestStatus
  <2>1. CASE now >= deadline BY <1>9, <2>1 DEF RequestStatus
  <2>2. CASE now < deadline
    <3>1. /\ pc' = "asking" /\ answer' = "none" /\ asked' = now
          /\ UNCHANGED <<now, session, since, acknowledged, confirmation>>
      BY <1>9, <2>2 DEF RequestStatus, Open
    <3>2. session = "idle" => wasIdle'
      <4>1. wasIdle' = (session = "idle")
        BY <1>9, <2>2 DEF RequestStatus
      <4> QED BY <4>1, Zenon
    <3> QED BY <1>9, <3>1, <3>2 DEF RequestStatus
  <2> QED BY <2>1, <2>2
<1>10. CASE Pause BY <1>10 DEF Pause
<1>11. CASE Wake BY <1>11 DEF Wake
<1>12. CASE Tick BY <1>12 DEF Tick
<1>13. CASE SessionChanges BY <1>13 DEF SessionChanges
<1>14. CASE UNCHANGED vars BY <1>14
<1> QED
  BY <1>1, <1>2, <1>3, <1>4, <1>5, <1>6, <1>7, <1>8, <1>9, <1>10, <1>11, <1>12, <1>13, <1>14
     DEF Next, Controller

LEMMA StepAttentive ==
    ASSUME TypeOK, AnswerIsFresh, Attentive, [Next]_vars PROVE Attentive'
<1> USE ConfirmationAssumption
    DEF ConfirmationAssumption, TypeOK, AnswerIsFresh, Cancelling, Attentive, Exchanging,
        Moments, Never, Shorter, Statuses, vars, server, request, timers, evidence, history
<1>1. CASE SendAbort BY <1>1 DEF SendAbort, Open
<1>2. CASE ServerLooks BY <1>2 DEF ServerLooks
<1>3. CASE NextOperation BY <1>3 DEF NextOperation
<1>4. CASE AbortAnswered BY <1>4 DEF AbortAnswered
<1>5. CASE StatusAnswered
  <2>1. hampered' = (hampered \/ answer = "malformed" \/ now > asked)
    BY <1>5 DEF StatusAnswered
  <2>2. ~hampered' => ~hampered /\ answer # "malformed" /\ ~(now > asked)
    BY <2>1, Zenon
  <2>3. /\ UNCHANGED <<now, session, since, asked, delay, answer, until, deadline>>
        /\ pc = "asking" /\ answer # "none"
        /\ pc' = (IF answer \in {"idle", "malformed"} THEN "end" ELSE "pause")
        /\ answer = "idle" => confirmation' = "idle"
    BY <1>5 DEF StatusAnswered
  <2>4. answer \in {"none", "busy", "idle", "unlisted", "malformed"}
    BY <2>3 DEF AnswerIsFresh
  <2> QED BY <2>2, <2>3, <2>4
<1>6. CASE RequestFails BY <1>6 DEF RequestFails
<1>7. CASE SetDeadline BY <1>7 DEF SetDeadline
<1>8. CASE Look BY <1>8 DEF Look
<1>9. CASE RequestStatus BY <1>9 DEF RequestStatus, Open
<1>10. CASE Pause BY <1>10 DEF Pause
<1>11. CASE Wake BY <1>11 DEF Wake
<1>12. CASE Tick BY <1>12 DEF Tick, Ready
<1>13. CASE SessionChanges BY <1>13 DEF SessionChanges
<1>14. CASE UNCHANGED vars BY <1>14
<1> QED
  BY <1>1, <1>2, <1>3, <1>4, <1>5, <1>6, <1>7, <1>8, <1>9, <1>10, <1>11, <1>12, <1>13, <1>14
     DEF Next, Controller

LEMMA StepPunctual == ASSUME TypeOK, Punctual, [Next]_vars PROVE Punctual'
<1> USE ConfirmationAssumption, Bounds
    DEF ConfirmationAssumption, TypeOK, Confirming, Cancelling, Steps, Punctual, Exchanging,
        LatestEnd, vars, server, request, timers, evidence, history
<1>1. CASE SendAbort BY <1>1 DEF SendAbort, Open
<1>2. CASE ServerLooks BY <1>2 DEF ServerLooks
<1>3. CASE NextOperation BY <1>3 DEF NextOperation
<1>4. CASE AbortAnswered BY <1>4 DEF AbortAnswered
<1>5. CASE StatusAnswered BY <1>5 DEF StatusAnswered
<1>6. CASE RequestFails BY <1>6 DEF RequestFails
<1>7. CASE SetDeadline BY <1>7 DEF SetDeadline
<1>8. CASE Look BY <1>8 DEF Look
<1>9. CASE RequestStatus
  <2>1. CASE now >= deadline BY <1>9, <2>1 DEF RequestStatus
  <2>2. CASE now < deadline
    <3> DEFINE t == Shorter(Timeout, deadline - now)
    <3>1. t \in Nat /\ t <= LastTimeout /\ now + t <= deadline
      BY <1>9, <2>2 DEF RequestStatus, Shorter, LastTimeout
    <3> HIDE DEF t
    <3>2. /\ pc' = "asking" /\ operations' = 0 /\ allowed' = t /\ expires' = now + t
          /\ UNCHANGED <<now, deadline, delay, until>>
      BY <1>9, <2>2 DEF RequestStatus, Open, t
    <3>3. LatestEnd' = LatestEnd /\ operations' * LastTimeout = 0
      BY <3>2
    <3> QED BY <1>9, <3>1, <3>2, <3>3 DEF RequestStatus
  <2> QED BY <2>1, <2>2
<1>10. CASE Pause BY <1>10 DEF Pause, Shorter
<1>11. CASE Wake BY <1>11 DEF Wake
<1>12. CASE Tick BY <1>12 DEF Tick, Ready
<1>13. CASE SessionChanges BY <1>13 DEF SessionChanges
<1>14. CASE UNCHANGED vars BY <1>14
<1> QED
  BY <1>1, <1>2, <1>3, <1>4, <1>5, <1>6, <1>7, <1>8, <1>9, <1>10, <1>11, <1>12, <1>13, <1>14
     DEF Next, Controller

LEMMA StepIInv == IInv /\ [Next]_vars => IInv'
BY StepTypeOK, StepAnswerIsFresh, StepPunctual, StepAttentive DEF IInv

-----------------------------------------------------------------------------
(* Results *)

\* The confirmation of observe_status speaks of the session as it was after the
\* abort, whatever the server and the clock do.
THEOREM ConfirmationIsTrue == Spec => []ConfirmedWasIdle
<1>1. IInv => ConfirmedWasIdle BY DEF IInv, AnswerIsFresh
<1> QED BY InitIInv, StepIInv, <1>1, PTL DEF Spec

\* A session that is idle in time is found to be: the loop does not miss it
\* between two requests.
THEOREM IdleIsFound == Spec => []IdleIsConfirmed
<1>1. IInv => IdleIsConfirmed
  BY ConfirmationAssumption
     DEF ConfirmationAssumption, IInv, TypeOK, Attentive, IdleIsConfirmed, Moments, Never
<1> QED BY InitIInv, StepIInv, <1>1, PTL DEF Spec

\* The wait outlasts its deadline by one socket timeout for each further socket
\* operation of the last request, and by no more.
THEOREM CancellationIsBounded == Spec => []OvershootBounded
<1>1. IInv => OvershootBounded
  <2> SUFFICES ASSUME IInv, delay = 0, pc # "end"
               PROVE  /\ pc \in Cancelling => now <= Operations * Timeout
                      /\ pc \notin Cancelling => now <= LatestEnd
    BY DEF OvershootBounded, Cancelling, LatestEnd, LastTimeout
  <2> USE ConfirmationAssumption
      DEF ConfirmationAssumption, IInv, TypeOK, Punctual, Cancelling, Confirming, Exchanging, Steps
  <2>1. CASE pc = "aborting"
    <3>1. operations + 1 \in Nat /\ operations + 1 <= Operations
      BY <2>1
    <3>2. (operations + 1) * Timeout <= Operations * Timeout /\ (operations + 1) * Timeout \in Nat
          /\ Operations * Timeout \in Nat
      BY <3>1, Multiples
    <3> QED BY <2>1, <3>2
  <2>2. CASE pc \in {"abort", "clock"}
    <3>1. Operations * Timeout \in Nat
      BY Multiples
    <3> QED BY <2>2, <3>1
  <2>3. CASE pc \in Confirming
    BY <2>3
  <2> QED BY <2>1, <2>2, <2>3
<1> QED BY InitIInv, StepIInv, <1>1, PTL DEF Spec
=============================================================================
