-------------------------- MODULE ControllerProofs --------------------------
(***************************************************************************)
(* What `sprint-loop run` does to the server, for any number of            *)
(* invocations, sessions, failing calls, killed processes and signals:     *)
(* neither of the two POSTs is ever repeated, and neither is the abort.    *)
(*                                                                         *)
(* Nothing in the code counts requests.  That each is sent once follows    *)
(* from who may send it, the owner of the sprint (Busy, Quiet), from what  *)
(* the owner must have found before, an empty log, and from what the       *)
(* earlier steps of the run left, the events in the log (Counted).         *)
(***************************************************************************)
EXTENDS Controller, FiniteSetTheorems, TLAPS

-----------------------------------------------------------------------------
(* The invariant *)

\* Outside the ownership lock.
Active(c) == pc[c] \notin {"idle", "preflight", "own", "done", "dead"}

\* Before the session is requested, and between it and the prompt.
Early == {"enter", "server", "allocate", "prompt", "look", "create"}
Unsent == {"started", "running", "submit"}

Recorded(s) == \E i \in Of("agent.started") : log[i].session = s
SomeCompleted == Of("agent.completed") # {}

\* An invocation that has no session.
Quiet(c) ==
    /\ mem[c].session = None /\ ~mem[c].started /\ ~mem[c].pending /\ ~mem[c].completed
    /\ worker[c].step = "none"

\* What the owner's local variables say at each step.
Busy(c) ==
    /\ owner = c
    /\ pc[c] \in {"initial"} \cup Early => Quiet(c)
    /\ pc[c] \in Early => creations = 0 /\ log # << >>
    /\ pc[c] = "started" =>
           /\ mem[c].session \in Sessions \ Existing
           /\ ~mem[c].started /\ ~mem[c].pending /\ ~mem[c].completed
    /\ pc[c] \in Body \ ({"initial", "started"} \cup Early) => mem[c].started
    /\ pc[c] \in {"transcript", "terminal", "completed"} => mem[c].pending
    /\ pc[c] = "finish" => mem[c].completed
    /\ pc[c] = "abort" => mem[c].session # None /\ ~mem[c].pending /\ ~mem[c].completed
    /\ mem[c].session # None => creations > 0
    /\ mem[c].started => mem[c].session \in Sessions \ Existing /\ Recorded(mem[c].session)
    /\ worker[c].step # "none" => mem[c].started /\ pc[c] \notin {"running", "submit"}
    /\ worker[c].step = "connecting" \/ pc[c] \in Unsent => \A s \in Sessions : prompts[s] = 0
    /\ mem[c].session # None /\ Requested(aborts) # {} =>
           pc[c] \in {"close", "interrupted", "block", "exit"}
    /\ mem[c].session # None /\ SomeCompleted => mem[c].pending \/ mem[c].completed

Local == \A c \in Controllers : IF Active(c) THEN Busy(c) ELSE Quiet(c)

\* What the requests and the log have to do with each other, whoever is left.
Counted ==
    /\ creations \in {0, 1}
    /\ creations > 0 => log # << >>
    /\ Existing \subseteq opened
    /\ SomeCompleted => creations > 0
    /\ \A s \in Requested(prompts) :
          /\ creations > 0 /\ prompts[s] = 1 /\ s \notin Existing /\ Recorded(s)
          /\ \A t \in Requested(prompts) : t = s
    /\ \A s \in Requested(aborts) :
          /\ creations > 0 /\ aborts[s] = 1 /\ ~SomeCompleted
          /\ \A t \in Requested(aborts) : t = s

IInv == TypeOK /\ Local /\ Counted
-----------------------------------------------------------------------------
(* The operators on data *)

LEMMA MemoryTypes ==
    ASSUME NEW m \in Memory
    PROVE  /\ NoMemory \in Memory
           /\ \A e \in Errors : [m EXCEPT !.error = e] \in Memory
           /\ \A e \in Exits : [NoMemory EXCEPT !.exit = e] \in Memory
<1>1. NoMetadata \in Metadata
  BY DEF Metadata, NoMetadata
<1>2. NoMemory \in Memory
  BY <1>1 DEF Memory, NoMemory, Errors, Exits
<1>3. \A e \in Errors : [m EXCEPT !.error = e] \in Memory
  BY DEF Memory
<1>4. \A e \in Exits : [NoMemory EXCEPT !.exit = e] \in Memory
  BY <1>2 DEF Memory
<1> QED BY <1>2, <1>3, <1>4

\* Every artifact has values of its own.
Fits(a, v) ==
    \/ a = "metadata" /\ v \in Metadata
    \/ a \in {"prompt", "transcript"} /\ v = TRUE
    \/ a = "result" /\ v \in {"none"} \cup Results

LEMMA WritesAreTyped ==
    ASSUME NEW f \in FilesSet, NEW a, NEW v, Fits(a, v)
    PROVE  Put(f, a, v) \in FilesSet /\ Prefixes(f, a, v) \subseteq FilesSet
<1> DEFINE g == Put(f, a, v)
<1>1. g \in FilesSet
  <2>1. CASE a = "metadata" BY <2>1 DEF Put, FilesSet, Fits
  <2>2. CASE a = "prompt" BY <2>2 DEF Put, FilesSet, Fits
  <2>3. CASE a = "transcript" BY <2>3 DEF Put, FilesSet, Fits
  <2>4. CASE a = "result" BY <2>4 DEF Put, FilesSet, Fits
  <2> QED BY <2>1, <2>2, <2>3, <2>4 DEF Fits
<1>2. a \in Artifacts
  BY DEF Fits, Artifacts, Immutable
<1> HIDE DEF g
<1>3. [g EXCEPT !.linked = @ \cup {a}] \in FilesSet
  BY <1>1, <1>2 DEF FilesSet
<1>4. [f EXCEPT !.dir = TRUE] \in FilesSet /\ [f EXCEPT !.dir = TRUE, !.stray = TRUE] \in FilesSet
  BY DEF FilesSet
<1>5. \A x \in Prefixes(f, a, v) :
         \/ x \in {f, [f EXCEPT !.dir = TRUE], [f EXCEPT !.dir = TRUE, !.stray = TRUE], g}
         \/ x = [g EXCEPT !.linked = @ \cup {a}]
  BY Zenon DEF Prefixes, g
<1> QED BY <1>1, <1>3, <1>4, <1>5 DEF g

\* Whatever _run asks of the pair.
Asked ==
    [kind: {"initial"}, run: Runs]
    \cup [kind: {"transition"}, to: {"validating", "blocked", "failed"}, reason: Reasons]
    \cup [kind: {"observe"}, type: Observations, session: Sessions \cup {None}]

LEMMA WrittenEvent ==
    ASSUME log \in Seq(Events), st \in States, NEW r \in Asked,
           MayWrite(st, log, log # << >>, r), NEW e, e = NextEvent(st, r)
    PROVE  /\ e \in Events /\ Apply(st, e) \in States
           /\ r.kind = "observe" => e.type = r.type /\ e.session = r.session
           /\ r.kind # "observe" => e.type \notin Observations
<1>1. CASE r.kind = "initial"
  BY <1>1 DEF NextEvent, Asked, Events, EventTypes, Observations, WorkflowStates, Reasons,
     Apply, States
<1>2. CASE r.kind # "initial"
  <2>1. PairAgrees(st, log)
    BY <1>2 DEF MayWrite, Asked
  <2>2. log # << >> /\ st.run = log[Len(log)].run
    BY <2>1 DEF PairAgrees, ValidHistory
  <2>3. log[Len(log)] \in Events
    BY <2>2
  <2>4. st.run \in Runs
    BY <2>2, <2>3 DEF Events
  <2>5. CASE r.kind = "transition"
    <3>1. Allowed(st.state, r.to) \in EventTypes \ Observations
      BY <2>5 DEF MayWrite, Allowed, EventTypes, Observations
    <3>2. r.to \in WorkflowStates /\ r.reason \in Reasons
      BY <2>5 DEF Asked, WorkflowStates
    <3>3. e = [type |-> Allowed(st.state, r.to), to |-> r.to, run |-> st.run,
               session |-> None, reason |-> r.reason]
      BY <2>5 DEF NextEvent
    <3>4. e \in Events
      BY <2>4, <3>1, <3>2, <3>3 DEF Events
    <3> QED BY <2>5, <3>1, <3>3, <3>4 DEF Apply, States, Events
  <2>6. CASE r.kind = "observe"
    <3>1. r.type \in EventTypes /\ r.session \in Sessions \cup {None}
      BY <2>6 DEF Asked, EventTypes
    <3>2. e = [type |-> r.type, to |-> "validating", run |-> st.run,
               session |-> r.session, reason |-> "none"]
      BY <2>6 DEF NextEvent
    <3>3. e \in Events
      BY <2>4, <3>1, <3>2 DEF Events, WorkflowStates, Reasons
    <3> QED BY <2>6, <3>2, <3>3 DEF Apply, States, Events
  <2> QED BY <1>2, <2>5, <2>6 DEF Asked
<1> QED BY <1>1, <1>2
-----------------------------------------------------------------------------
(* How a step ends *)

\* The others keep their place, their variables and their thread.
Alone(c) ==
    \A d \in Controllers \ {c} : pc'[d] = pc[d] /\ mem'[d] = mem[d] /\ worker'[d] = worker[d]

SameInvocation(n, m) ==
    /\ n.session = m.session /\ n.started = m.started
    /\ n.pending = m.pending /\ n.completed = m.completed

\* c is at step next with local variables that differ from m in the error at
\* most, or has died.
Arrives(c, m, next) ==
    pc'[c] = next /\ owner' = owner /\ worker' = worker /\ SameInvocation(mem'[c], m)

Vanishes(c) == pc'[c] = "dead" /\ mem'[c] = NoMemory /\ worker'[c] = Idle

ProcessTypes ==
    /\ owner \in Controllers \cup {None}
    /\ pc \in [Controllers -> Steps] /\ mem \in [Controllers -> Memory]
    /\ worker \in [Controllers -> [step: {"none", "connecting", "posted", "answered"},
                                   answer: {"none"} \cup Answers, late: BOOLEAN]]
    /\ faults \in 0..MaxFaults /\ crashes \in 0..MaxCrashes

LEMMA ContinueEffect ==
    ASSUME TypeOK, NEW c \in Controllers, NEW m \in Memory, NEW next \in Steps,
           Continue(c, m, next)
    PROVE  /\ pc' \in [Controllers -> Steps] /\ mem' \in [Controllers -> Memory]
           /\ pc'[c] = next /\ mem'[c] = m
           /\ \A d \in Controllers \ {c} : pc'[d] = pc[d] /\ mem'[d] = mem[d]
BY DEF Continue, TypeOK

LEMMA ReturnsEffect ==
    ASSUME TypeOK, NEW c \in Controllers, NEW m \in Memory, NEW next \in Steps,
           Returns(c, m, next)
    PROVE  ProcessTypes' /\ Alone(c) /\ Arrives(c, m, next)
BY ContinueEffect DEF Returns, TypeOK, ProcessTypes, Alone, Arrives, SameInvocation

LEMMA RaisesEffect ==
    ASSUME TypeOK, NEW c \in Controllers, NEW m \in Memory, NEW error \in Errors,
           NEW target \in Steps, Raises(c, m, error, target)
    PROVE  ProcessTypes' /\ Alone(c) /\ Arrives(c, m, target)
<1> DEFINE n == [m EXCEPT !.error = error]
<1>1. n \in Memory
  BY MemoryTypes
<1>2. n.session = m.session /\ n.started = m.started /\ n.pending = m.pending
      /\ n.completed = m.completed
  BY DEF Memory
<1>3. CASE target = "handle"
  <2>1. Returns(c, n, target)
    BY <1>3 DEF Raises
  <2> HIDE DEF n
  <2> QED BY <1>1, <1>2, <2>1, ReturnsEffect DEF Arrives, SameInvocation
<1>4. CASE target # "handle"
  BY <1>4, ReturnsEffect DEF Raises
<1> QED BY <1>3, <1>4

LEMMA FailsEffect ==
    ASSUME TypeOK, NEW c \in Controllers, NEW m \in Memory, NEW error \in Errors,
           NEW target \in Steps, Fails(c, m, error, target)
    PROVE  ProcessTypes' /\ Alone(c) /\ Arrives(c, m, target)
<1> DEFINE n == [m EXCEPT !.error = error]
<1>1. n \in Memory
  BY MemoryTypes
<1>2. n.session = m.session /\ n.started = m.started /\ n.pending = m.pending
      /\ n.completed = m.completed
  BY DEF Memory
<1>3. faults' \in 0..MaxFaults /\ UNCHANGED <<owner, worker, crashes>>
  BY ControllerAssumption DEF Fails, TypeOK
<1>4. Continue(c, n, target) \/ Continue(c, m, target)
  BY DEF Fails
<1> HIDE DEF n
<1>5. CASE Continue(c, n, target)
  BY <1>1, <1>2, <1>3, <1>5, ContinueEffect DEF TypeOK, ProcessTypes, Alone, Arrives,
     SameInvocation
<1>6. CASE Continue(c, m, target)
  BY <1>3, <1>6, ContinueEffect DEF TypeOK, ProcessTypes, Alone, Arrives, SameInvocation
<1> QED BY <1>4, <1>5, <1>6

LEMMA DiesEffect ==
    ASSUME TypeOK, NEW c \in Controllers, Dies(c)
    PROVE  ProcessTypes' /\ Alone(c) /\ Vanishes(c)
<1>1. NoMemory \in Memory
  BY MemoryTypes DEF TypeOK
<1>2. crashes' \in 0..MaxCrashes /\ faults' = faults /\ owner' \in Controllers \cup {None}
  BY ControllerAssumption DEF Dies, TypeOK
<1>3. Continue(c, NoMemory, "dead") /\ worker' = [worker EXCEPT ![c] = Idle]
  BY DEF Dies
<1>4. "dead" \in Steps
  BY DEF Steps
<1> QED BY <1>1, <1>2, <1>3, <1>4, ContinueEffect
        DEF TypeOK, ProcessTypes, Alone, Vanishes, Idle
\* The log has one more event, the one of request r.
Appended(r) ==
    \E e \in Events :
        /\ log' = Append(log, e)
        /\ r.kind = "observe" => e.type = r.type /\ e.session = r.session
        /\ r.kind # "observe" => e.type \notin Observations

\* What stays typed when neither files nor server nor signals change.
LEMMA PairStepTypes ==
    ASSUME TypeOK, ProcessTypes', log' \in Seq(Events), st' \in States,
           UNCHANGED <<files, remote, signalled>>
    PROVE  TypeOK'
BY DEF TypeOK, ProcessTypes, remote

LEMMA DurableEffect ==
    ASSUME TypeOK, NEW c \in Controllers, NEW r \in Asked, NEW m \in Memory,
           NEW done \in Memory, NEW next \in Steps, NEW target \in Steps,
           Durable(c, r, m, done, next, target), UNCHANGED <<files, remote, signalled>>
    PROVE  /\ TypeOK' /\ Alone(c)
           /\ \/ Appended(r) /\ Arrives(c, done, next)
              \/ (log' = log \/ Appended(r)) /\ (Arrives(c, m, target) \/ Vanishes(c))
<1> DEFINE e == NextEvent(st, r)
<1>1. "other" \in Errors
  BY DEF Errors
<1>2. log \in Seq(Events) /\ st \in States
  BY DEF TypeOK
<1>3. CASE ~MayWrite(st, log, log # << >>, r)
  <2>1. log' = log /\ st' = st /\ Raises(c, m, "other", target)
    BY <1>3 DEF Durable, pair
  <2>2. ProcessTypes' /\ Alone(c) /\ Arrives(c, m, target)
    BY <1>1, <2>1, RaisesEffect
  <2> QED BY <1>2, <2>1, <2>2, PairStepTypes
<1>4. CASE MayWrite(st, log, log # << >>, r)
  <2>1. /\ e \in Events /\ Apply(st, e) \in States
        /\ r.kind = "observe" => e.type = r.type /\ e.session = r.session
        /\ r.kind # "observe" => e.type \notin Observations
    BY <1>2, <1>4, WrittenEvent
  <2>2. \/ log' = Append(log, e) /\ st' = Apply(st, e) /\ Returns(c, done, next)
        \/ /\ \/ log' = log /\ st' = st
              \/ log' = Append(log, e) /\ st' \in {st, Apply(st, e)}
           /\ Fails(c, m, "other", target) \/ Dies(c)
    BY <1>4 DEF Durable, pair
  <2> HIDE DEF e
  <2>3. log' \in Seq(Events) /\ st' \in States /\ (log' = log \/ Appended(r))
    BY <1>2, <2>1, <2>2 DEF Appended
  <2>4. CASE log' = Append(log, e) /\ Returns(c, done, next)
    <3>1. ProcessTypes' /\ Alone(c) /\ Arrives(c, done, next)
      BY <2>4, ReturnsEffect
    <3> QED BY <2>1, <2>3, <2>4, <3>1, PairStepTypes DEF Appended
  <2>5. CASE Fails(c, m, "other", target)
    <3>1. ProcessTypes' /\ Alone(c) /\ Arrives(c, m, target)
      BY <1>1, <2>5, FailsEffect
    <3> QED BY <2>3, <3>1, PairStepTypes
  <2>6. CASE Dies(c)
    <3>1. ProcessTypes' /\ Alone(c) /\ Vanishes(c)
      BY <2>6, DiesEffect
    <3> QED BY <2>3, <3>1, PairStepTypes
  <2> QED BY <2>2, <2>4, <2>5, <2>6
<1> QED BY <1>3, <1>4

LEMMA WriteEffect ==
    ASSUME TypeOK, NEW c \in Controllers, NEW a, NEW v, Fits(a, v), NEW m \in Memory,
           NEW done \in Memory, NEW next \in Steps, NEW target \in Steps,
           WriteFile(c, a, v, m, done, next, target), UNCHANGED <<pair, remote, signalled>>
    PROVE  /\ TypeOK' /\ Alone(c) /\ log' = log
           /\ Arrives(c, done, next) \/ Arrives(c, m, target) \/ Vanishes(c)
<1> DEFINE error == IF a \in Immutable /\ files'[a] = v THEN "installed" ELSE "other"
<1>1. "other" \in Errors /\ error \in Errors
  BY DEF Errors
<1>2. Put(files, a, v) \in FilesSet /\ Prefixes(files, a, v) \subseteq FilesSet
  BY WritesAreTyped DEF TypeOK
<1>3. \/ files' = files /\ Raises(c, m, "other", target)
      \/ files' = Put(files, a, v) /\ Returns(c, done, next)
      \/ /\ files' \in Prefixes(files, a, v)
         /\ Fails(c, m, error, target) \/ Dies(c)
  BY DEF WriteFile
<1> HIDE DEF error
<1>4. files' \in FilesSet
  BY <1>2, <1>3 DEF TypeOK
<1>5. /\ ProcessTypes' /\ Alone(c)
      /\ Arrives(c, done, next) \/ Arrives(c, m, target) \/ Vanishes(c)
  BY <1>1, <1>3, RaisesEffect, ReturnsEffect, FailsEffect, DiesEffect
<1> QED BY <1>4, <1>5 DEF TypeOK, ProcessTypes, pair, remote
-----------------------------------------------------------------------------
(* What every step of the owner has in common *)

LEMMA LogGrows ==
    ASSUME TypeOK, NEW e \in Events, log' = Append(log, e)
    PROVE  /\ log' # << >>
           /\ SomeCompleted' <=> SomeCompleted \/ e.type = "agent.completed"
           /\ \A s \in Sessions : Recorded(s) => Recorded(s)'
           /\ e.type = "agent.started" => Recorded(e.session)'
<1>1. log \in Seq(Events)
  BY DEF TypeOK
<1>2. DOMAIN log = 1..Len(log) /\ DOMAIN log' = 1..(Len(log) + 1) /\ Len(log) \in Nat
      /\ \A i \in 1..(Len(log) + 1) : log'[i] = IF i <= Len(log) THEN log[i] ELSE e
  BY <1>1
<1> QED BY <1>2 DEF SomeCompleted, Recorded, Of, Positions

\* Nobody but the owner is past the lock, and a step of the owner leaves it so.
LEMMA OthersStayOutside ==
    ASSUME IInv, NEW c \in Controllers, Active(c), Alone(c), TypeOK', Counted',
           IF Active(c)' THEN Busy(c)' ELSE Quiet(c)'
    PROVE  IInv'
<1>1. \A d \in Controllers \ {c} : ~Active(d) /\ Quiet(d)
  BY DEF IInv, Local, Busy
<1>2. \A d \in Controllers \ {c} : ~Active(d)' /\ Quiet(d)'
  BY <1>1 DEF Alone, Active, Quiet
<1> QED BY <1>2 DEF IInv, Local

LEMMA VanishesQuietly ==
    ASSUME NEW c \in Controllers, Vanishes(c)
    PROVE  ~Active(c)' /\ Quiet(c)'
BY DEF Vanishes, Active, Quiet, NoMemory, Idle

\* An event that is no completion changes nothing of what is counted.
LEMMA CalmCounts ==
    ASSUME IInv, NEW r \in Asked, log' = log \/ Appended(r),
           r.kind = "observe" => r.type # "agent.completed", UNCHANGED remote
    PROVE  /\ Counted' /\ (log # << >> => log' # << >>)
           /\ SomeCompleted' = SomeCompleted
           /\ \A s \in Sessions : Recorded(s) => Recorded(s)'
<1>1. CASE log' = log
  BY <1>1 DEF IInv, Counted, SomeCompleted, Recorded, Of, Requested, remote
<1>2. CASE Appended(r)
  <2>1. PICK e \in Events : log' = Append(log, e) /\ e.type # "agent.completed"
    BY <1>2 DEF Appended, Observations
  <2>2. /\ log' # << >> /\ SomeCompleted' = SomeCompleted
        /\ \A s \in Sessions : Recorded(s) => Recorded(s)'
    BY <2>1, LogGrows DEF IInv, SomeCompleted
  <2> QED BY <2>2 DEF IInv, Counted, Requested, remote
<1> QED BY <1>1, <1>2

-----------------------------------------------------------------------------
(* The steps of the owner *)

\* The step keeps what the server and the log say of invocations.
Calm ==
    /\ UNCHANGED remote /\ Counted'
    /\ log # << >> => log' # << >>
    /\ SomeCompleted' = SomeCompleted
    /\ \A s \in Sessions : Recorded(s) => Recorded(s)'

LEMMA CalmWithoutEvents ==
    ASSUME IInv, UNCHANGED <<log, remote>>
    PROVE  Calm
BY DEF Calm, IInv, Counted, SomeCompleted, Recorded, Of, Requested, remote

\* The way of every error of the body.
LEMMA BodyFails ==
    ASSUME IInv, NEW c \in Controllers, pc[c] \in Body, TypeOK', Alone(c), Calm,
           NEW m \in Memory, SameInvocation(m, mem[c]),
           Arrives(c, m, "handle") \/ Vanishes(c)
    PROVE  IInv'
<1>1. Active(c) /\ Busy(c)
  BY DEF IInv, Local, Active, Body
<1>2. CASE Vanishes(c)
  BY <1>1, <1>2, VanishesQuietly, OthersStayOutside DEF Calm
<1>3. CASE Arrives(c, m, "handle")
  <2>1. /\ pc'[c] = "handle" /\ owner' = owner /\ worker' = worker
        /\ SameInvocation(mem'[c], mem[c])
    BY <1>3 DEF Arrives, SameInvocation
  <2>2. Active(c)' /\ Busy(c)'
    BY <1>1, <2>1
       DEF Active, Busy, Calm, SameInvocation, Early, Unsent, Body, Requested, remote
  <2> QED BY <1>1, <2>2, OthersStayOutside DEF Calm
<1> QED BY <1>2, <1>3

\* Steps of the body that write an event of the run itself.
LEMMA InitialStep ==
    ASSUME IInv, NEW c \in Controllers, Initial(c)
    PROVE  IInv'
<1> DEFINE m == [mem[c] EXCEPT !.known = TRUE]
<1>1. TypeOK /\ mem[c] \in Memory /\ pc[c] = "initial" /\ pc[c] \in Body /\ Active(c) /\ Busy(c)
  BY DEF IInv, TypeOK, Initial, Body, Local, Active
<1>2. m \in Memory /\ SameInvocation(m, mem[c]) /\ SameInvocation(mem[c], mem[c])
  BY <1>1 DEF Memory, SameInvocation
<1>3. UNCHANGED <<files, remote, signalled>>
  BY DEF Initial
<1>4. "other" \in Errors /\ {"enter", "handle"} \subseteq Steps
  BY DEF Errors, Steps, Body, Handlers
<1>5. CASE UNCHANGED pair /\ Raises(c, mem[c], "other", "handle")
  <2>1. log' = log /\ st' = st /\ ProcessTypes' /\ Alone(c) /\ Arrives(c, mem[c], "handle")
    BY <1>1, <1>4, <1>5, RaisesEffect DEF pair
  <2>2. TypeOK'
    BY <1>1, <1>3, <2>1, PairStepTypes DEF TypeOK
  <2>3. Calm
    BY <1>3, <2>1, CalmWithoutEvents
  <2> QED BY <1>1, <1>2, <2>1, <2>2, <2>3, BodyFails
<1> HIDE DEF m
<1>6. ASSUME log = << >>, NEW run \in Runs,
             Durable(c, [kind |-> "initial", run |-> run], m, m, "enter", "handle")
      PROVE  IInv'
  <2> DEFINE r == [kind |-> "initial", run |-> run]
  <2>1. r \in Asked /\ r.kind = "initial"
    BY DEF Asked
  <2> HIDE DEF r
  <2>2. Durable(c, r, m, m, "enter", "handle")
    BY <1>6 DEF r
  <2>3. /\ TypeOK' /\ Alone(c)
        /\ \/ Appended(r) /\ Arrives(c, m, "enter")
           \/ (log' = log \/ Appended(r)) /\ (Arrives(c, m, "handle") \/ Vanishes(c))
    BY <1>1, <1>2, <1>3, <1>4, <2>1, <2>2, DurableEffect
  <2>4. Calm
    BY <1>3, <2>1, <2>3, CalmCounts DEF Calm
  <2>5. CASE Appended(r) /\ Arrives(c, m, "enter")
    <3>1. log' # << >> /\ creations = 0
      BY <1>1, <1>6, <2>5, LogGrows DEF Appended, IInv, Counted
    <3>2. Active(c)' /\ Busy(c)'
      BY <1>1, <1>2, <2>4, <2>5, <3>1
         DEF Arrives, SameInvocation, Active, Busy, Quiet, Calm, Early, Unsent, Body, Requested,
             remote
    <3> QED BY <1>1, <2>3, <2>4, <3>2, OthersStayOutside DEF Calm
  <2> QED BY <1>1, <1>2, <2>3, <2>4, <2>5, BodyFails
<1> QED BY <1>5, <1>6 DEF Initial, NothingThere, m

LEMMA ValidatingStep ==
    ASSUME IInv, NEW c \in Controllers, Enter(c) \/ ServerValidated(c)
    PROVE  IInv'
<1>1. TypeOK /\ mem[c] \in Memory /\ pc[c] \in Early /\ pc[c] \in Body /\ Active(c) /\ Busy(c)
  BY DEF IInv, TypeOK, Enter, ServerValidated, Body, Local, Active, Early
<1>2. UNCHANGED <<files, remote, signalled>>
  BY DEF Enter, ServerValidated
<1>3. PICK r \in Asked, next \in {"server", "allocate"} :
         Durable(c, r, mem[c], mem[c], next, "handle") /\ (r.kind = "observe" => r.type = "server.validated")
  <2>1. Transition("validating", "none") \in Asked
        /\ Transition("validating", "none").kind = "transition"
    BY DEF Asked, Transition, Reasons
  <2>2. Observation("server.validated", None) \in Asked
        /\ Observation("server.validated", None).type = "server.validated"
    BY DEF Asked, Observation, Observations
  <2> QED BY <2>1, <2>2 DEF Enter, ServerValidated
<1>4. next \in Steps /\ "handle" \in Steps
  BY DEF Steps, Body, Handlers
<1>5. /\ TypeOK' /\ Alone(c)
      /\ \/ Appended(r) /\ Arrives(c, mem[c], next)
         \/ (log' = log \/ Appended(r)) /\ (Arrives(c, mem[c], "handle") \/ Vanishes(c))
  BY <1>1, <1>2, <1>3, <1>4, DurableEffect
<1>6. Calm
  BY <1>2, <1>3, <1>5, CalmCounts DEF Calm
<1>7. CASE Arrives(c, mem[c], next)
  <2>1. Active(c)' /\ Busy(c)'
    BY <1>1, <1>6, <1>7
       DEF Arrives, SameInvocation, Active, Busy, Quiet, Calm, Early, Unsent, Body, Requested, remote
  <2> QED BY <1>1, <1>5, <1>6, <2>1, OthersStayOutside DEF Calm
<1>8. SameInvocation(mem[c], mem[c])
  BY DEF SameInvocation
<1> QED BY <1>1, <1>5, <1>6, <1>7, <1>8, BodyFails

\* Steps of the body that write a file: what they have to show is that their
\* success is Busy.
LEMMA BodyWrites ==
    ASSUME IInv, NEW c \in Controllers, pc[c] \in Body, NEW a, NEW v, Fits(a, v),
           NEW m \in Memory, SameInvocation(m, mem[c]), NEW done \in Memory, NEW next \in Steps,
           WriteFile(c, a, v, m, done, next, "handle"), UNCHANGED <<pair, remote, signalled>>,
           Calm /\ Arrives(c, done, next) => Active(c)' /\ Busy(c)'
    PROVE  IInv'
<1>1. TypeOK /\ Active(c) /\ "handle" \in Steps
  BY DEF IInv, Active, Body, Handlers, Steps
<1>2. /\ TypeOK' /\ Alone(c) /\ log' = log
      /\ Arrives(c, done, next) \/ Arrives(c, m, "handle") \/ Vanishes(c)
  BY <1>1, WriteEffect
<1>3. Calm
  BY <1>2, CalmWithoutEvents
<1>4. CASE Arrives(c, done, next)
  BY <1>1, <1>2, <1>3, <1>4, OthersStayOutside DEF Calm
<1> QED BY <1>2, <1>3, <1>4, BodyFails

LEMMA RecordStep ==
    ASSUME IInv, NEW c \in Controllers, Allocate(c) \/ WritePrompt(c)
    PROVE  IInv'
<1> DEFINE m == [mem[c] EXCEPT !.meta = Planned]
<1>1. TypeOK /\ mem[c] \in Memory /\ pc[c] \in Early /\ pc[c] \in Body /\ Active(c) /\ Busy(c)
  BY DEF IInv, TypeOK, Allocate, WritePrompt, Body, Local, Active, Early
<1>2. Planned \in Metadata
  BY DEF Planned, NoMetadata, Metadata
<1>3. m \in Memory /\ SameInvocation(m, mem[c]) /\ SameInvocation(mem[c], mem[c])
  BY <1>1, <1>2 DEF Memory, SameInvocation
<1>4. UNCHANGED <<pair, remote, signalled>>
  BY DEF Allocate, WritePrompt
<1>5. {"prompt", "look", "handle"} \subseteq Steps /\ "other" \in Errors
  BY DEF Steps, Body, Handlers, Errors
<1> HIDE DEF m
<1>6. ASSUME NEW next \in {"prompt", "look"}, NEW done, SameInvocation(done, mem[c]),
             Calm, Arrives(c, done, next)
      PROVE  Active(c)' /\ Busy(c)'
  BY <1>1, <1>6
     DEF Arrives, SameInvocation, Active, Busy, Quiet, Calm, Early, Unsent, Body, Requested, remote
<1>7. CASE Allocate(c) /\ files.dir
  <2>1. UNCHANGED files /\ Raises(c, mem[c], "other", "handle")
    BY <1>7 DEF Allocate
  <2>2. ProcessTypes' /\ Alone(c) /\ Arrives(c, mem[c], "handle")
    BY <1>1, <1>5, <2>1, RaisesEffect
  <2>3. TypeOK' /\ Calm
    BY <1>1, <1>4, <2>1, <2>2, CalmWithoutEvents, PairStepTypes DEF TypeOK, pair
  <2> QED BY <1>1, <1>3, <2>2, <2>3, BodyFails
<1>8. CASE Allocate(c) /\ ~files.dir
  <2>1. WriteFile(c, "metadata", Planned, m, m, "prompt", "handle")
    BY <1>8 DEF Allocate, m
  <2> QED BY <1>1, <1>2, <1>3, <1>4, <1>5, <1>6, <2>1, BodyWrites DEF Fits
<1>9. CASE WritePrompt(c)
  <2>1. WriteFile(c, "prompt", TRUE, mem[c], mem[c], "look", "handle")
    BY <1>9 DEF WritePrompt
  <2> QED BY <1>1, <1>3, <1>4, <1>5, <1>6, <2>1, BodyWrites DEF Fits
<1> QED BY <1>7, <1>8, <1>9

LEMMA RunningStep ==
    ASSUME IInv, NEW c \in Controllers, Running(c)
    PROVE  IInv'
<1> DEFINE m == [mem[c] EXCEPT !.meta.status = "running"]
<1>1. TypeOK /\ mem[c] \in Memory /\ pc[c] = "running" /\ pc[c] \in Body /\ Active(c) /\ Busy(c)
  BY DEF IInv, TypeOK, Running, Body, Local, Active
<1>2. m \in Memory /\ m.meta \in Metadata /\ SameInvocation(m, mem[c])
  BY <1>1 DEF Memory, SameInvocation, Metadata
<1>3. WriteFile(c, "metadata", m.meta, m, m, "submit", "handle")
      /\ UNCHANGED <<pair, remote, signalled>>
  BY DEF Running
<1>4. "submit" \in Steps
  BY DEF Steps, Body
<1> HIDE DEF m
<1>5. ASSUME Calm, Arrives(c, m, "submit")
      PROVE  Active(c)' /\ Busy(c)'
  BY <1>1, <1>2, <1>5
     DEF Arrives, SameInvocation, Active, Busy, Calm, Early, Unsent, Body, Requested, remote
<1> QED BY <1>1, <1>2, <1>3, <1>4, <1>5, BodyWrites DEF Fits

\* The artifacts of an answer.
LEMMA AnswerStep ==
    ASSUME IInv, NEW c \in Controllers,
           KeepEvidence(c) \/ WriteResult(c) \/ WriteTranscript(c) \/ CloseCompleted(c)
    PROVE  IInv'
<1>1. /\ TypeOK /\ mem[c] \in Memory /\ Active(c) /\ Busy(c)
      /\ pc[c] \in {"evidence", "result", "transcript", "terminal"} /\ pc[c] \in Body
  BY DEF IInv, TypeOK, KeepEvidence, WriteResult, WriteTranscript, CloseCompleted, Body, Local,
         Active
<1>2. UNCHANGED <<pair, remote, signalled>> /\ SameInvocation(mem[c], mem[c])
  BY DEF KeepEvidence, WriteResult, WriteTranscript, CloseCompleted, SameInvocation
<1>3. {"transcript", "terminal", "completed", "handle"} \subseteq Steps
  BY DEF Steps, Body, Handlers
<1>4. ASSUME NEW next \in {"transcript", "terminal", "completed", "handle"}, NEW done,
             done.session = mem[c].session, done.started = mem[c].started,
             done.completed = mem[c].completed,
             done.pending \/ (next = "handle" /\ done.pending = mem[c].pending),
             done.pending \in BOOLEAN, Calm, Arrives(c, done, next)
      PROVE  Active(c)' /\ Busy(c)'
  BY <1>1, <1>4
     DEF Arrives, SameInvocation, Active, Busy, Calm, Early, Unsent, Body, Requested, remote
<1>5. CASE KeepEvidence(c)
  <2> DEFINE n == [mem[c] EXCEPT !.evidence = TRUE, !.error = "other"]
  <2>1. n \in Memory /\ SameInvocation(n, mem[c]) /\ n.pending \in BOOLEAN
    BY <1>1 DEF Memory, SameInvocation, Errors
  <2>2. WriteFile(c, "transcript", TRUE, mem[c], n, "handle", "handle")
    BY <1>5 DEF KeepEvidence
  <2> HIDE DEF n
  <2>3. Calm /\ Arrives(c, n, "handle") => Active(c)' /\ Busy(c)'
    BY <1>4, <2>1 DEF SameInvocation
  <2> QED BY <1>1, <1>2, <1>3, <2>1, <2>2, <2>3, BodyWrites DEF Fits
<1>6. CASE WriteResult(c)
  <2> DEFINE n == [mem[c] EXCEPT !.pending = TRUE]
  <2>1. /\ n \in Memory /\ n.session = mem[c].session /\ n.started = mem[c].started
        /\ n.completed = mem[c].completed /\ n.pending = TRUE
        /\ mem[c].answer \in {"none"} \cup Results
    BY <1>1 DEF Memory
  <2>2. WriteFile(c, "result", mem[c].answer, mem[c], n, "transcript", "handle")
    BY <1>6 DEF WriteResult
  <2> HIDE DEF n
  <2>3. Calm /\ Arrives(c, n, "transcript") => Active(c)' /\ Busy(c)'
    BY <1>4, <2>1
  <2> QED BY <1>1, <1>2, <1>3, <2>1, <2>2, <2>3, BodyWrites DEF Fits
<1>7. CASE WriteTranscript(c)
  <2>1. WriteFile(c, "transcript", TRUE, mem[c], mem[c], "terminal", "handle")
        /\ mem[c].pending /\ mem[c].pending \in BOOLEAN
    BY <1>1, <1>7 DEF WriteTranscript, Busy, Memory
  <2>2. Calm /\ Arrives(c, mem[c], "terminal") => Active(c)' /\ Busy(c)'
    BY <1>4, <2>1
  <2> QED BY <1>1, <1>2, <1>3, <2>1, <2>2, BodyWrites DEF Fits
<1>8. CASE CloseCompleted(c)
  <2> DEFINE n == [mem[c] EXCEPT !.meta.status = mem[c].answer, !.meta.result = mem[c].answer,
                                 !.meta.transcript = "kept"]
  <2>1. n \in Memory /\ n.meta \in Metadata /\ SameInvocation(n, mem[c])
    BY <1>1 DEF Memory, Metadata, Final, SameInvocation
  <2>2. WriteFile(c, "metadata", n.meta, n, n, "completed", "handle")
        /\ mem[c].pending /\ mem[c].pending \in BOOLEAN
    BY <1>1, <1>8 DEF CloseCompleted, Busy, Memory
  <2> HIDE DEF n
  <2>3. Calm /\ Arrives(c, n, "completed") => Active(c)' /\ Busy(c)'
    BY <1>4, <2>1, <2>2 DEF SameInvocation
  <2> QED BY <1>1, <1>2, <1>3, <2>1, <2>2, <2>3, BodyWrites DEF Fits
<1> QED BY <1>5, <1>6, <1>7, <1>8

\* Steps of the body that touch neither file.
LEMMA BodyMoves ==
    ASSUME IInv, NEW c \in Controllers, pc[c] \in Body, ProcessTypes', Alone(c),
           UNCHANGED <<pair, files, remote, signalled>>,
           \/ Arrives(c, mem[c], "handle")
           \/ Calm => Active(c)' /\ Busy(c)'
    PROVE  IInv'
<1>1. Active(c) /\ TypeOK /\ mem[c] \in Memory /\ SameInvocation(mem[c], mem[c])
  BY DEF IInv, TypeOK, Active, Body, SameInvocation
<1>2. Calm /\ TypeOK'
  BY <1>1, CalmWithoutEvents DEF pair, TypeOK, ProcessTypes, remote
<1>3. CASE Active(c)' /\ Busy(c)'
  BY <1>1, <1>2, <1>3, OthersStayOutside DEF Calm
<1>4. CASE Arrives(c, mem[c], "handle")
  BY <1>1, <1>2, <1>4, BodyFails
<1> QED BY <1>2, <1>3, <1>4

LEMMA LookStep ==
    ASSUME IInv, NEW c \in Controllers, Look(c)
    PROVE  IInv'
<1> DEFINE m == [mem[c] EXCEPT !.others = opened]
<1>1. TypeOK /\ mem[c] \in Memory /\ pc[c] = "look" /\ pc[c] \in Body /\ Busy(c)
  BY DEF IInv, TypeOK, Look, Body, Local, Active
<1>2. m \in Memory /\ SameInvocation(m, mem[c])
  BY <1>1 DEF Memory, SameInvocation, TypeOK
<1>3. {"create", "handle"} \subseteq Steps /\ {"other", "signal"} \subseteq Errors
  BY DEF Steps, Body, Handlers, Errors
<1>4. \/ Fails(c, mem[c], "other", "handle") \/ Raises(c, mem[c], "signal", "handle")
      \/ Returns(c, m, "create")
  BY DEF Look
<1>5. UNCHANGED <<pair, files, remote, signalled>>
  BY DEF Look
<1> HIDE DEF m
<1>6. CASE Returns(c, m, "create")
  <2>1. ProcessTypes' /\ Alone(c) /\ Arrives(c, m, "create")
    BY <1>1, <1>2, <1>3, <1>6, ReturnsEffect
  <2>2. Calm => Active(c)' /\ Busy(c)'
    BY <1>1, <1>2, <2>1
       DEF Arrives, SameInvocation, Active, Busy, Quiet, Calm, Early, Unsent, Body, Requested,
           remote
  <2> QED BY <1>1, <1>5, <2>1, <2>2, BodyMoves
<1>7. CASE Fails(c, mem[c], "other", "handle") \/ Raises(c, mem[c], "signal", "handle")
  <2>1. ProcessTypes' /\ Alone(c) /\ Arrives(c, mem[c], "handle")
    BY <1>1, <1>3, <1>7, FailsEffect, RaisesEffect
  <2> QED BY <1>1, <1>5, <2>1, BodyMoves
<1> QED BY <1>4, <1>6, <1>7

\* The first POST: the log tells that nobody has sent it before.
LEMMA CreateStep ==
    ASSUME IInv, NEW c \in Controllers, Create(c)
    PROVE  IInv'
<1> DEFINE trying == [mem[c] EXCEPT !.creating = TRUE]
           named(s) == [mem[c] EXCEPT !.session = s]
           m == mem'[c]
<1>1. /\ TypeOK /\ Counted /\ mem[c] \in Memory /\ pc[c] = "create" /\ Active(c) /\ Busy(c)
      /\ opened \subseteq Sessions /\ Existing \subseteq opened
  BY DEF IInv, TypeOK, Create, Local, Active, Counted
<1>2. trying \in Memory /\ SameInvocation(trying, mem[c])
  BY <1>1 DEF Memory, SameInvocation
<1>3. \A s \in Sessions :
         /\ named(s) \in Memory /\ named(s).session = s /\ named(s).started = mem[c].started
         /\ named(s).pending = mem[c].pending /\ named(s).completed = mem[c].completed
  BY <1>1 DEF Memory
<1>4. {"started", "handle"} \subseteq Steps /\ {"other", "ambiguous"} \subseteq Errors
  BY DEF Steps, Body, Handlers, Errors
<1>5. /\ creations' = creations + 1 /\ UNCHANGED <<log, st, files, prompts, aborts, signalled>>
      /\ opened' = opened \/ \E s \in Sessions \ opened : opened' = opened \cup {s}
  BY DEF Create, pair
<1>6. \/ \E s \in Sessions \ opened : Returns(c, named(s), "started")
      \/ Fails(c, trying, "other", "handle") \/ Fails(c, trying, "ambiguous", "handle")
      \/ \E s \in mem[c].others : Fails(c, named(s), "other", "handle")
  BY DEF Create
<1>7. mem[c].others \subseteq Sessions
  BY <1>1 DEF Memory
<1>8. /\ ProcessTypes' /\ Alone(c)
      /\ \/ \E s \in Sessions \ Existing : Arrives(c, named(s), "started")
         \/ Arrives(c, trying, "handle")
         \/ \E s \in Sessions : Arrives(c, named(s), "handle")
  <2> HIDE DEF trying, named
  <2>1. CASE \E s \in Sessions \ opened : Returns(c, named(s), "started")
    BY <1>1, <1>3, <1>4, <2>1, ReturnsEffect
  <2>2. CASE Fails(c, trying, "other", "handle") \/ Fails(c, trying, "ambiguous", "handle")
    BY <1>1, <1>2, <1>4, <2>2, FailsEffect
  <2>3. CASE \E s \in mem[c].others : Fails(c, named(s), "other", "handle")
    BY <1>1, <1>3, <1>4, <1>7, <2>3, FailsEffect
  <2> QED BY <1>6, <2>1, <2>2, <2>3
<1>9. TypeOK'
  BY <1>1, <1>5, <1>8 DEF TypeOK, ProcessTypes
<1>10. creations = 0 /\ log # << >> /\ Quiet(c) /\ owner = c
  BY <1>1 DEF Busy, Early
<1>11. Requested(prompts) = {} /\ Requested(aborts) = {} /\ ~SomeCompleted
  BY <1>1, <1>10 DEF Counted
<1>12. creations' = 1 /\ Requested(prompts)' = {} /\ Requested(aborts)' = {} /\ ~SomeCompleted'
  BY <1>5, <1>10, <1>11 DEF Requested, SomeCompleted, Of
<1>13. Counted'
  BY <1>1, <1>5, <1>10, <1>12 DEF Counted
<1>14. /\ m.session \in Sessions \cup {None} /\ ~m.started /\ ~m.pending /\ ~m.completed
       /\ worker'[c].step = "none" /\ owner' = c
       /\ pc'[c] = "handle" \/ (pc'[c] = "started" /\ m.session \in Sessions \ Existing)
  BY <1>2, <1>3, <1>8, <1>10 DEF Arrives, SameInvocation, Quiet
<1>15. \A s \in Sessions : prompts'[s] = 0
  BY <1>9, <1>12 DEF Requested, TypeOK
<1> HIDE DEF m
<1>16. Active(c)' /\ Busy(c)'
  BY <1>12, <1>14, <1>15 DEF Active, Busy, Early, Unsent, Body, m
<1> QED BY <1>1, <1>8, <1>9, <1>13, <1>16, OthersStayOutside

\* Started: the session is in the log before started says so.
LEMMA StartedStep ==
    ASSUME IInv, NEW c \in Controllers, Started(c)
    PROVE  IInv'
<1>0. PICK s : s = mem[c].session
  OBVIOUS
<1> DEFINE m == [mem[c] EXCEPT !.meta.session = mem[c].session,
                               !.meta.status = "session_created"]
           done == [m EXCEPT !.started = TRUE]
           r == Observation("agent.started", s)
<1>1. TypeOK /\ mem[c] \in Memory /\ pc[c] = "started" /\ pc[c] \in Body /\ Active(c) /\ Busy(c)
  BY DEF IInv, TypeOK, Started, Body, Local, Active
<1>2. s \in Sessions \ Existing
  BY <1>0, <1>1 DEF Busy
<1>3. m \in Memory /\ SameInvocation(m, mem[c])
  BY <1>1 DEF Memory, Metadata, SameInvocation
<1>4. /\ done \in Memory /\ done.session = s /\ done.started
      /\ done.pending = mem[c].pending /\ done.completed = mem[c].completed
  <2> HIDE DEF m
  <2> QED BY <1>0, <1>3 DEF Memory, SameInvocation
<1>5. /\ r \in Asked /\ r.kind = "observe" /\ r.type = "agent.started" /\ r.session = s
      /\ {"running", "handle"} \subseteq Steps
  BY <1>2 DEF Asked, Observation, Observations, Steps, Body, Handlers
<1>6. Durable(c, r, m, done, "running", "handle") /\ UNCHANGED <<files, remote, signalled>>
  BY <1>0, <1>3 DEF Started, SameInvocation
<1> HIDE DEF m, done, r
<1>7. /\ TypeOK' /\ Alone(c)
      /\ \/ Appended(r) /\ Arrives(c, done, "running")
         \/ (log' = log \/ Appended(r)) /\ (Arrives(c, m, "handle") \/ Vanishes(c))
  BY <1>1, <1>3, <1>4, <1>5, <1>6, DurableEffect
<1>8. Calm
  BY <1>5, <1>6, <1>7, CalmCounts DEF Calm
<1>9. CASE Appended(r) /\ Arrives(c, done, "running")
  <2>1. Recorded(s)'
    <3>1. PICK e \in Events : log' = Append(log, e) /\ e.type = "agent.started" /\ e.session = s
      BY <1>5, <1>9 DEF Appended
    <3> QED BY <1>1, <3>1, LogGrows
  <2>2. Active(c)' /\ Busy(c)'
    BY <1>0, <1>1, <1>2, <1>4, <1>8, <1>9, <2>1
       DEF Arrives, SameInvocation, Active, Busy, Calm, Early, Unsent, Body, Requested, remote
  <2> QED BY <1>1, <1>7, <1>8, <2>2, OthersStayOutside DEF Calm
<1> QED BY <1>1, <1>3, <1>7, <1>8, <1>9, BodyFails

LEMMA SubmitStep ==
    ASSUME IInv, NEW c \in Controllers, Submit(c)
    PROVE  IInv'
<1>1. TypeOK /\ mem[c] \in Memory /\ pc[c] = "submit" /\ pc[c] \in Body /\ Active(c) /\ Busy(c)
  BY DEF IInv, TypeOK, Submit, Body, Local, Active
<1>2. {"wait", "handle"} \subseteq Steps /\ "signal" \in Errors
  BY DEF Steps, Body, Handlers, Errors
<1>3. UNCHANGED <<pair, files, remote, signalled>>
  BY DEF Submit
<1>4. CASE Raises(c, mem[c], "signal", "handle")
  BY <1>1, <1>2, <1>3, <1>4, RaisesEffect, BodyMoves
<1>5. CASE /\ worker' = [worker EXCEPT ![c].step = "connecting"]
           /\ Continue(c, mem[c], "wait") /\ UNCHANGED <<owner, budget>>
  <2>1. /\ pc' \in [Controllers -> Steps] /\ mem' \in [Controllers -> Memory]
        /\ pc'[c] = "wait" /\ mem'[c] = mem[c]
        /\ \A d \in Controllers \ {c} : pc'[d] = pc[d] /\ mem'[d] = mem[d]
    BY <1>1, <1>2, <1>5, ContinueEffect
  <2>2. /\ ProcessTypes' /\ worker'[c].step = "connecting"
        /\ \A d \in Controllers \ {c} : worker'[d] = worker[d]
    BY <1>1, <1>5, <2>1 DEF TypeOK, ProcessTypes, budget
  <2>3. Calm => Active(c)' /\ Busy(c)'
    BY <1>1, <1>5, <2>1, <2>2 DEF Active, Busy, Calm, Early, Unsent, Body, Requested, remote
  <2> QED BY <1>1, <1>3, <2>1, <2>2, <2>3, BodyMoves DEF Alone
<1> QED BY <1>4, <1>5 DEF Submit

LEMMA WaitStep ==
    ASSUME IInv, NEW c \in Controllers, Receive(c) \/ GiveUp(c)
    PROVE  IInv'
<1> DEFINE m == [mem[c] EXCEPT !.answer = worker[c].answer]
<1>1. TypeOK /\ mem[c] \in Memory /\ pc[c] = "wait" /\ pc[c] \in Body /\ Active(c) /\ Busy(c)
  BY DEF IInv, TypeOK, Receive, GiveUp, Body, Local, Active
<1>2. {"evidence", "result", "handle"} \subseteq Steps
      /\ {"other", "signal", "timed_out"} \subseteq Errors
  BY DEF Steps, Body, Handlers, Errors
<1>3. UNCHANGED <<pair, files, remote, signalled>>
  BY DEF Receive, GiveUp
<1>4. \/ \E error \in {"other", "signal", "timed_out"} : Raises(c, mem[c], error, "handle")
      \/ Returns(c, mem[c], "evidence")
      \/ worker[c].answer \notin {"error", "violation"} /\ Returns(c, m, "result")
  BY DEF Receive, GiveUp
<1>5. CASE \E error \in {"other", "signal", "timed_out"} : Raises(c, mem[c], error, "handle")
  BY <1>1, <1>2, <1>3, <1>5, RaisesEffect, BodyMoves
<1>6. ASSUME NEW n \in Memory, SameInvocation(n, mem[c]), NEW next \in {"evidence", "result"},
             Returns(c, n, next)
      PROVE  IInv'
  <2>1. ProcessTypes' /\ Alone(c) /\ Arrives(c, n, next)
    BY <1>1, <1>2, <1>6, ReturnsEffect
  <2>2. Calm => Active(c)' /\ Busy(c)'
    BY <1>1, <1>6, <2>1
       DEF Arrives, SameInvocation, Active, Busy, Calm, Early, Unsent, Body, Requested, remote
  <2> QED BY <1>1, <1>3, <2>1, <2>2, BodyMoves
<1>7. CASE worker[c].answer \notin {"error", "violation"} /\ Returns(c, m, "result")
  <2>1. worker[c].answer \in {"none"} \cup Results
    BY <1>1, <1>7 DEF TypeOK, Answers
  <2>2. m \in Memory /\ SameInvocation(m, mem[c])
    BY <1>1, <2>1 DEF Memory, SameInvocation
  <2> QED BY <1>6, <1>7, <2>2
<1>8. SameInvocation(mem[c], mem[c])
  BY DEF SameInvocation
<1> QED BY <1>1, <1>4, <1>5, <1>6, <1>7, <1>8

\* The completion is in the log only while pending or completed keeps the
\* handlers from the abort.
LEMMA CompletedStep ==
    ASSUME IInv, NEW c \in Controllers, Completed(c)
    PROVE  IInv'
<1> DEFINE done == [mem[c] EXCEPT !.pending = FALSE, !.completed = TRUE]
           r == Observation("agent.completed", mem[c].session)
<1>1. /\ TypeOK /\ Counted /\ mem[c] \in Memory /\ pc[c] = "completed" /\ Active(c) /\ Busy(c)
      /\ mem[c].pending /\ mem[c].started
  BY DEF IInv, TypeOK, Completed, Body, Local, Active, Busy, Early
<1>2. mem[c].session \in Sessions /\ mem[c].session # None /\ creations > 0
      /\ Requested(aborts) = {}
  BY <1>1, HistoryAssumption DEF Busy
<1>3. /\ done \in Memory /\ done.session = mem[c].session /\ done.started = mem[c].started
      /\ ~done.pending /\ done.completed
  BY <1>1 DEF Memory
<1>4. r \in Asked /\ {"finish", "handle"} \subseteq Steps
  BY <1>2 DEF Asked, Observation, Observations, Steps, Body, Handlers
<1>5. Durable(c, r, mem[c], done, "finish", "handle") /\ UNCHANGED <<files, remote, signalled>>
  BY DEF Completed
<1> HIDE DEF done, r
<1>6. /\ TypeOK' /\ Alone(c)
      /\ \/ Appended(r) /\ Arrives(c, done, "finish")
         \/ (log' = log \/ Appended(r)) /\ (Arrives(c, mem[c], "handle") \/ Vanishes(c))
  BY <1>1, <1>3, <1>4, <1>5, DurableEffect
<1>7. (log # << >> => log' # << >>) /\ (\A s \in Sessions : Recorded(s) => Recorded(s)')
  <2>1. CASE log' = log
    BY <2>1 DEF Recorded, Of
  <2> QED BY <1>1, <1>6, <2>1, LogGrows DEF Appended
<1>8. Requested(aborts)' = {} /\ Requested(prompts)' = Requested(prompts)
  BY <1>2, <1>5 DEF Requested, remote
<1>9. Counted'
  BY <1>1, <1>2, <1>5, <1>7, <1>8 DEF Counted, Requested, remote
<1>10. CASE Arrives(c, done, "finish") \/ Arrives(c, mem[c], "handle")
  <2>1. Active(c)' /\ Busy(c)'
    BY <1>1, <1>2, <1>3, <1>5, <1>7, <1>8, <1>10
       DEF Arrives, SameInvocation, Active, Busy, Early, Unsent, Body, remote
  <2> QED BY <1>1, <1>6, <1>9, <2>1, OthersStayOutside
<1>11. CASE Vanishes(c)
  BY <1>1, <1>6, <1>9, <1>11, VanishesQuietly, OthersStayOutside
<1> QED BY <1>6, <1>10, <1>11

LEMMA FinishStep ==
    ASSUME IInv, NEW c \in Controllers, Finish(c)
    PROVE  IInv'
<1> DEFINE done == [mem[c] EXCEPT !.exit = "placeholder"]
           r == Transition("blocked", Placeholder)
<1>1. TypeOK /\ mem[c] \in Memory /\ pc[c] = "finish" /\ pc[c] \in Body /\ Active(c) /\ Busy(c)
  BY DEF IInv, TypeOK, Finish, Body, Local, Active
<1>2. done \in Memory /\ SameInvocation(done, mem[c]) /\ SameInvocation(mem[c], mem[c])
  BY <1>1 DEF Memory, Exits, SameInvocation
<1>3. /\ r \in Asked /\ r.kind = "transition" /\ {"exit", "handle"} \subseteq Steps
      /\ "other" \in Errors
  BY DEF Asked, Transition, Reasons, Steps, Body, Handlers, Errors
<1>4. UNCHANGED <<files, remote, signalled>>
  BY DEF Finish
<1>5. \/ UNCHANGED pair /\ Raises(c, mem[c], "other", "handle")
      \/ Durable(c, r, mem[c], done, "exit", "handle")
  BY DEF Finish
<1> HIDE DEF done, r
<1>6. CASE UNCHANGED pair /\ Raises(c, mem[c], "other", "handle")
  <2>1. ProcessTypes' /\ Alone(c) /\ Arrives(c, mem[c], "handle")
    BY <1>1, <1>3, <1>6, RaisesEffect
  <2> QED BY <1>1, <1>4, <1>6, <2>1, BodyMoves
<1>7. CASE Durable(c, r, mem[c], done, "exit", "handle")
  <2>1. /\ TypeOK' /\ Alone(c)
        /\ \/ Appended(r) /\ Arrives(c, done, "exit")
           \/ (log' = log \/ Appended(r)) /\ (Arrives(c, mem[c], "handle") \/ Vanishes(c))
    BY <1>1, <1>2, <1>3, <1>4, <1>7, DurableEffect
  <2>2. Calm
    BY <1>3, <1>4, <2>1, CalmCounts DEF Calm
  <2>3. CASE Arrives(c, done, "exit")
    <3>1. Active(c)' /\ Busy(c)'
      BY <1>1, <1>2, <2>2, <2>3
         DEF Arrives, SameInvocation, Active, Busy, Calm, Early, Unsent, Body, Requested, remote
    <3> QED BY <1>1, <2>1, <2>2, <3>1, OthersStayOutside DEF Calm
  <2> QED BY <1>1, <1>2, <2>1, <2>2, <2>3, BodyFails
<1> QED BY <1>5, <1>6, <1>7

-----------------------------------------------------------------------------
(* The handlers *)

\* Wherever a handler goes but to the abort.
LEMMA HandlerMoves ==
    ASSUME IInv, NEW c \in Controllers, pc[c] \in Handlers, TypeOK', Alone(c), Calm,
           NEW m \in Memory, SameInvocation(m, mem[c]),
           NEW next \in {"close", "interrupted", "block", "exit"},
           Arrives(c, m, next) \/ Vanishes(c)
    PROVE  IInv'
<1>1. Active(c) /\ Busy(c)
  BY DEF IInv, Local, Active, Handlers
<1>2. CASE Vanishes(c)
  BY <1>1, <1>2, VanishesQuietly, OthersStayOutside DEF Calm
<1>3. CASE Arrives(c, m, next)
  <2>1. /\ pc'[c] = next /\ owner' = owner /\ worker' = worker
        /\ SameInvocation(mem'[c], mem[c])
    BY <1>3 DEF Arrives, SameInvocation
  <2>2. Active(c)' /\ Busy(c)'
    BY <1>1, <2>1
       DEF Active, Busy, Calm, SameInvocation, Early, Unsent, Body, Requested, remote
  <2> QED BY <1>1, <2>2, OthersStayOutside DEF Calm
<1> QED BY <1>2, <1>3

\* The abort is chosen only for a session whose completion is in no event.
LEMMA HandleStep ==
    ASSUME IInv, NEW c \in Controllers, Handle(c)
    PROVE  IInv'
<1> DEFINE closing == ClosingStatus(c)
           exit == IF Cancelled(c) THEN "signal" ELSE "error"
           m == [mem[c] EXCEPT !.closing = closing, !.exit = exit]
           next == Cleanup(mem[c])
<1>1. TypeOK /\ mem[c] \in Memory /\ pc[c] = "handle" /\ pc[c] \in Handlers /\ Active(c) /\ Busy(c)
  BY DEF IInv, TypeOK, Handle, Handlers, Local, Active
<1>2. closing \in Final /\ exit \in Exits
  BY DEF ClosingStatus, Final, Results, Exits
<1>3. /\ next \in {"exit", "abort", "close", "block"}
      /\ next = "abort" => mem[c].session # None /\ ~mem[c].completed /\ ~mem[c].pending
  <2>1. {mem[c].known, mem[c].completed, mem[c].pending} \subseteq BOOLEAN
    BY <1>1 DEF Memory
  <2> QED BY <2>1 DEF Cleanup, EvidenceInstalled
<1>4. Returns(c, m, next) /\ UNCHANGED <<pair, files, remote, signalled>>
  BY DEF Handle
<1> HIDE DEF closing, exit, next
<1>5. m \in Memory /\ SameInvocation(m, mem[c])
  BY <1>1, <1>2 DEF Memory, SameInvocation
<1> HIDE DEF m
<1>6. next \in Steps
  BY <1>3 DEF Steps, Handlers
<1>7. ProcessTypes' /\ Alone(c) /\ Arrives(c, m, next)
  BY <1>1, <1>4, <1>5, <1>6, ReturnsEffect
<1>8. TypeOK' /\ Calm
  BY <1>1, <1>4, <1>7, CalmWithoutEvents DEF pair, TypeOK, ProcessTypes, remote
<1>9. CASE next = "abort"
  <2>1. Active(c)' /\ Busy(c)'
    BY <1>1, <1>3, <1>5, <1>7, <1>8, <1>9
       DEF Arrives, SameInvocation, Active, Busy, Calm, Early, Unsent, Body, Requested, remote
  <2> QED BY <1>1, <1>7, <1>8, <2>1, OthersStayOutside DEF Calm
<1>10. CASE next # "abort"
  BY <1>1, <1>3, <1>5, <1>7, <1>8, <1>10, HandlerMoves
<1> QED BY <1>9, <1>10

LEMMA AbortStep ==
    ASSUME IInv, NEW c \in Controllers, Abort(c)
    PROVE  IInv'
<1>0. PICK s : s = mem[c].session
  OBVIOUS
<1>1. /\ TypeOK /\ Counted /\ mem[c] \in Memory /\ pc[c] = "abort" /\ Active(c) /\ Busy(c)
  BY DEF IInv, TypeOK, Abort, Local, Active
<1>2. s \in Sessions /\ s # None /\ creations > 0 /\ Requested(aborts) = {} /\ ~SomeCompleted
  BY <1>0, <1>1 DEF Busy, Memory
<1>3. /\ Returns(c, mem[c], "close") /\ aborts' = [aborts EXCEPT ![s] = @ + 1]
      /\ UNCHANGED <<log, st, files, creations, opened, prompts, signalled>>
  BY <1>0 DEF Abort, pair
<1>4. "close" \in Steps
  BY DEF Steps, Handlers
<1>5. ProcessTypes' /\ Alone(c) /\ Arrives(c, mem[c], "close")
  BY <1>1, <1>3, <1>4, ReturnsEffect
<1>6. TypeOK'
  <2>1. aborts' \in [Sessions -> Nat]
    BY <1>1, <1>2, <1>3 DEF TypeOK
  <2> QED BY <1>1, <1>3, <1>5, <2>1 DEF TypeOK, ProcessTypes
<1>7. \A t \in Sessions : aborts[t] = 0
  BY <1>1, <1>2 DEF TypeOK, Requested
<1>8. Requested(aborts)' = {s} /\ aborts'[s] = 1
  BY <1>1, <1>2, <1>3, <1>7 DEF TypeOK, Requested
<1>9. UNCHANGED <<Requested(prompts),
                  SomeCompleted>> /\ \A t \in Sessions : Recorded(t)' = Recorded(t)
  BY <1>3 DEF Requested, SomeCompleted, Recorded, Of
<1>10. Counted'
  BY <1>1, <1>2, <1>3, <1>8, <1>9 DEF Counted, Requested
<1>11. Active(c)' /\ Busy(c)'
  BY <1>0, <1>1, <1>2, <1>3, <1>5, <1>8, <1>9
     DEF Arrives, SameInvocation, Active, Busy, Early, Unsent, Body
<1> QED BY <1>1, <1>5, <1>6, <1>10, <1>11, OthersStayOutside

LEMMA CloseStep ==
    ASSUME IInv, NEW c \in Controllers, CloseMetadata(c)
    PROVE  IInv'
<1>1. TypeOK /\ mem[c] \in Memory /\ pc[c] \in Handlers
  BY DEF IInv, TypeOK, CloseMetadata, Handlers
<1>2. PICK transcript \in {"kept", "unavailable"}, next \in {"interrupted", "block"} :
         WriteFile(c, "metadata", Closed(mem[c].meta, mem[c].closing, transcript), mem[c], mem[c],
                   next, "block")
  BY DEF CloseMetadata
<1>3. Closed(mem[c].meta, mem[c].closing, transcript) \in Metadata
  BY <1>1 DEF Closed, Memory, Metadata
<1>4. next \in Steps /\ "block" \in Steps /\ SameInvocation(mem[c], mem[c])
  BY DEF Steps, Handlers, SameInvocation
<1>5. UNCHANGED <<pair, remote, signalled>>
  BY DEF CloseMetadata
<1>6. /\ TypeOK' /\ Alone(c) /\ log' = log
      /\ Arrives(c, mem[c], next) \/ Arrives(c, mem[c], "block") \/ Vanishes(c)
  BY <1>1, <1>2, <1>3, <1>4, <1>5, WriteEffect DEF Fits
<1>7. Calm
  BY <1>5, <1>6, CalmWithoutEvents
<1> QED BY <1>1, <1>4, <1>6, <1>7, HandlerMoves

\* The events a handler writes are no completions.
LEMMA BlockStep ==
    ASSUME IInv, NEW c \in Controllers, Interrupted(c) \/ Block(c) \/ Fallback(c)
    PROVE  IInv'
<1>1. TypeOK /\ mem[c] \in Memory /\ pc[c] \in Handlers /\ SameInvocation(mem[c], mem[c])
  BY DEF IInv, TypeOK, Interrupted, Block, Fallback, Handlers, SameInvocation
<1>2. UNCHANGED <<files, remote, signalled>> /\ {"block", "exit"} \subseteq Steps
  BY DEF Interrupted, Block, Fallback, Steps, Handlers
<1>3. CASE UNCHANGED pair /\ Returns(c, mem[c], "exit")
  <2>1. ProcessTypes' /\ Alone(c) /\ Arrives(c, mem[c], "exit")
    BY <1>1, <1>2, <1>3, ReturnsEffect
  <2>2. TypeOK' /\ Calm
    BY <1>1, <1>2, <1>3, <2>1, CalmWithoutEvents DEF pair, TypeOK, ProcessTypes, remote
  <2> QED BY <1>1, <2>1, <2>2, HandlerMoves
<1>4. ASSUME NEW r \in Asked, r.kind = "observe" => r.type # "agent.completed",
             NEW next \in {"block", "exit"}, Durable(c, r, mem[c], mem[c], next, next)
      PROVE  IInv'
  <2>1. /\ TypeOK' /\ Alone(c) /\ (log' = log \/ Appended(r))
        /\ Arrives(c, mem[c], next) \/ Vanishes(c)
    BY <1>1, <1>2, <1>4, DurableEffect
  <2>2. Calm
    BY <1>2, <1>4, <2>1, CalmCounts DEF Calm
  <2> QED BY <1>1, <2>1, <2>2, HandlerMoves
<1>5. CASE Interrupted(c)
  <2> DEFINE r == Observation("agent.interrupted", mem[c].session)
  <2>1. r \in Asked /\ r.type = "agent.interrupted"
    BY <1>1 DEF Asked, Observation, Observations, Memory
  <2>2. Durable(c, r, mem[c], mem[c], "block", "block")
    BY <1>5 DEF Interrupted
  <2> HIDE DEF r
  <2> QED BY <1>4, <2>1, <2>2
<1>6. \A to \in {"blocked", "failed"} :
         Transition(to, "other") \in Asked /\ Transition(to, "other").kind = "transition"
  BY DEF Transition, Asked, Reasons
<1>7. CASE Block(c)
  <2>1. \/ Durable(c, Transition("blocked", "other"), mem[c], mem[c], "exit", "exit")
        \/ UNCHANGED pair /\ Returns(c, mem[c], "exit")
    BY <1>7 DEF Block
  <2> QED BY <1>3, <1>4, <1>6, <2>1
<1>8. CASE Fallback(c)
  <2>1. \/ Durable(c, Transition("failed", "other"), mem[c], mem[c], "exit", "exit")
        \/ UNCHANGED pair /\ Returns(c, mem[c], "exit")
    BY <1>8 DEF Fallback
  <2> QED BY <1>3, <1>4, <1>6, <2>1
<1> QED BY <1>5, <1>7, <1>8

LEMMA ExitStep ==
    ASSUME IInv, NEW c \in Controllers, Exit(c)
    PROVE  IInv'
<1> DEFINE m == [NoMemory EXCEPT !.exit = mem[c].exit]
<1>1. TypeOK /\ mem[c] \in Memory /\ pc[c] = "exit" /\ Active(c)
  BY DEF IInv, TypeOK, Exit, Active
<1>2. m \in Memory /\ m.session = None /\ ~m.started /\ ~m.pending /\ ~m.completed
  <2>1. mem[c].exit \in Exits
    BY <1>1 DEF Memory
  <2> QED BY <1>1, <2>1, MemoryTypes DEF NoMemory
<1>3. /\ Continue(c, m, "done") /\ owner' = None /\ worker' = [worker EXCEPT ![c] = Idle]
      /\ UNCHANGED <<pair, files, remote, signalled, budget>> /\ "done" \in Steps
  BY DEF Exit, Steps
<1> HIDE DEF m
<1>4. /\ pc' \in [Controllers -> Steps] /\ mem' \in [Controllers -> Memory]
      /\ pc'[c] = "done" /\ mem'[c] = m
      /\ \A d \in Controllers \ {c} : pc'[d] = pc[d] /\ mem'[d] = mem[d]
  BY <1>1, <1>2, <1>3, ContinueEffect
<1>5. TypeOK' /\ Alone(c) /\ worker'[c] = Idle
  BY <1>1, <1>3, <1>4 DEF TypeOK, Alone, Idle, pair, remote, budget
<1>6. Calm /\ ~Active(c)' /\ Quiet(c)'
  BY <1>2, <1>3, <1>4, <1>5, CalmWithoutEvents DEF Active, Quiet, Idle, pair
<1> QED BY <1>1, <1>5, <1>6, OthersStayOutside DEF Calm

LEMMA UnexpectedStep ==
    ASSUME IInv, NEW c \in Controllers, Unexpected(c)
    PROVE  IInv'
<1> DEFINE m == [mem[c] EXCEPT !.error = "unexpected", !.exit = "error"]
           next == IF pc[c] \in Body THEN "fallback" ELSE "exit"
<1>1. TypeOK /\ mem[c] \in Memory /\ pc[c] \in Body \cup Handlers /\ Active(c) /\ Busy(c)
  BY DEF IInv, TypeOK, Unexpected, Local, Active, Body, Handlers
<1>2. m \in Memory /\ SameInvocation(m, mem[c])
  BY <1>1 DEF Memory, Errors, Exits, SameInvocation
<1>3. /\ Continue(c, m, next) /\ faults' = faults + 1 /\ faults < MaxFaults
      /\ UNCHANGED <<pair, files, owner, worker, remote, signalled, crashes>>
  BY DEF Unexpected
<1>4. next \in Steps
  BY DEF Steps, Handlers
<1> HIDE DEF m
<1>5. /\ pc' \in [Controllers -> Steps] /\ mem' \in [Controllers -> Memory]
      /\ pc'[c] = next /\ mem'[c] = m
      /\ \A d \in Controllers \ {c} : pc'[d] = pc[d] /\ mem'[d] = mem[d]
  BY <1>1, <1>2, <1>3, <1>4, ContinueEffect
<1>6. faults' \in 0..MaxFaults
  BY <1>1, <1>3, ControllerAssumption DEF TypeOK
<1>7. TypeOK' /\ Alone(c) /\ Arrives(c, m, next)
  BY <1>1, <1>3, <1>5, <1>6 DEF TypeOK, Alone, Arrives, SameInvocation, pair, remote
<1>8. Calm
  BY <1>3, CalmWithoutEvents DEF pair
<1>9. CASE pc[c] \in Handlers
  <2>1. next = "exit"
    BY <1>9 DEF Body, Handlers
  <2> QED BY <1>2, <1>7, <1>8, <1>9, <2>1, HandlerMoves
<1>10. CASE pc[c] \in Body
  <2>1. next = "fallback"
    BY <1>10
  <2>2. Active(c)' /\ Busy(c)'
    BY <1>1, <1>2, <1>7, <1>8, <1>10, <2>1
       DEF Arrives, SameInvocation, Active, Busy, Calm, Early, Unsent, Body, Requested, remote
  <2> QED BY <1>1, <1>7, <1>8, <2>2, OthersStayOutside DEF Calm
<1> QED BY <1>1, <1>9, <1>10

-----------------------------------------------------------------------------
(* Invocations outside the lock, and the world around *)

\* Somebody outside comes, goes, or takes the lock that nobody has.
LEMMA OutsideStep ==
    ASSUME IInv, NEW c \in Controllers, ~Active(c), TypeOK', Alone(c), Quiet(c)',
           UNCHANGED <<log, remote>>,
           \/ ~Active(c)' /\ \A d \in Controllers \ {c} : owner = d => owner' = d
           \/ pc'[c] = "initial" /\ owner = None /\ owner' = c
    PROVE  IInv'
<1>1. Calm
  BY CalmWithoutEvents
<1>2. ASSUME NEW d \in Controllers \ {c}, ~Active(d)
      PROVE  ~Active(d)' /\ Quiet(d)'
  BY <1>2 DEF IInv, Local, Alone, Active, Quiet
<1>3. ASSUME NEW d \in Controllers \ {c}, Active(d)
      PROVE  Active(d)' /\ Busy(d)'
  <2>1. Busy(d) /\ owner = d /\ owner' = d
    BY <1>3, ControllerAssumption DEF IInv, Local, Busy
  <2>2. pc'[d] = pc[d] /\ mem'[d] = mem[d] /\ worker'[d] = worker[d]
    BY DEF Alone
  <2>3. mem[d] \in Memory
    BY DEF IInv, TypeOK
  <2> QED BY <1>1, <1>3, <2>1, <2>2, <2>3 DEF Active, Busy, Quiet, Calm, Requested, remote,
             Memory
<1>4. IF Active(c)' THEN Busy(c)' ELSE Quiet(c)'
  BY DEF Active, Busy, Quiet, Early, Unsent, Body
<1>5. Local'
  BY <1>2, <1>3, <1>4 DEF Local
<1> QED BY <1>1, <1>5 DEF IInv, Calm

LEMMA BeforeStep ==
    ASSUME IInv, NEW c \in Controllers, Begin(c) \/ Preflight(c) \/ Own(c)
    PROVE  IInv'
<1>1. TypeOK /\ mem[c] \in Memory /\ ~Active(c) /\ Quiet(c)
  BY DEF IInv, TypeOK, Local, Begin, Preflight, Own, Active
<1>2. UNCHANGED <<pair, files, remote, signalled>>
  BY DEF Begin, Preflight, Own
<1>3. /\ \A why \in Exits : [NoMemory EXCEPT !.exit = why] \in Memory
      /\ \A why : SameInvocation([NoMemory EXCEPT !.exit = why], NoMemory)
      /\ NoMemory \in Memory /\ SameInvocation(NoMemory, NoMemory)
  BY <1>1, MemoryTypes DEF SameInvocation, NoMemory
<1>4. {"error", "signal"} \subseteq Exits /\ {"preflight", "own", "initial", "done"} \subseteq Steps
  BY DEF Exits, Steps, Body
<1>5. ASSUME NEW m \in Memory, SameInvocation(m, NoMemory),
             NEW next \in {"preflight", "own", "done"}, Returns(c, m, next)
      PROVE  IInv'
  <2>1. ProcessTypes' /\ Alone(c) /\ Arrives(c, m, next)
    BY <1>1, <1>4, <1>5, ReturnsEffect
  <2>2. TypeOK'
    BY <1>1, <1>2, <2>1 DEF TypeOK, ProcessTypes, pair, remote
  <2>3. ~Active(c)' /\ Quiet(c)' /\ owner' = owner
    BY <1>1, <1>5, <2>1 DEF Active, Quiet, Arrives, SameInvocation, NoMemory
  <2> QED BY <1>1, <1>2, <2>1, <2>2, <2>3, OutsideStep DEF pair
<1>6. CASE owner = None /\ owner' = c /\ Continue(c, NoMemory, "initial")
           /\ UNCHANGED <<worker, budget>>
  <2>1. /\ pc' \in [Controllers -> Steps] /\ mem' \in [Controllers -> Memory]
        /\ pc'[c] = "initial" /\ mem'[c] = NoMemory
        /\ \A d \in Controllers \ {c} : pc'[d] = pc[d] /\ mem'[d] = mem[d]
    BY <1>1, <1>3, <1>4, <1>6, ContinueEffect
  <2>2. TypeOK' /\ Alone(c)
    BY <1>1, <1>2, <1>6, <2>1 DEF TypeOK, Alone, pair, remote, budget
  <2>3. Quiet(c)'
    BY <1>1, <1>6, <2>1 DEF Quiet, NoMemory
  <2> QED BY <1>1, <1>2, <1>6, <2>1, <2>2, <2>3, OutsideStep DEF pair
<1>7. \/ \E why \in {"error", "signal"} : Returns(c, [NoMemory EXCEPT !.exit = why], "done")
      \/ Returns(c, NoMemory, "preflight") \/ Returns(c, NoMemory, "own")
      \/ /\ owner = None /\ owner' = c /\ Continue(c, NoMemory, "initial")
         /\ UNCHANGED <<worker, budget>>
  BY DEF Begin, Preflight, Own, Stop
<1>8. CASE \E why \in {"error", "signal"} : Returns(c, [NoMemory EXCEPT !.exit = why], "done")
  <2>1. PICK why \in {"error", "signal"} : Returns(c, [NoMemory EXCEPT !.exit = why], "done")
    BY <1>8
  <2> DEFINE m == [NoMemory EXCEPT !.exit = why]
  <2>2. m \in Memory /\ SameInvocation(m, NoMemory) /\ Returns(c, m, "done")
    BY <1>3, <1>4, <2>1
  <2> HIDE DEF m
  <2> QED BY <1>5, <2>2
<1> QED BY <1>3, <1>5, <1>6, <1>7, <1>8

LEMMA CrashStep ==
    ASSUME IInv, NEW c \in Controllers, Crash(c)
    PROVE  IInv'
<1>1. TypeOK /\ Dies(c) /\ UNCHANGED <<pair, files, remote, signalled>>
  BY DEF IInv, Crash
<1>2. ProcessTypes' /\ Alone(c) /\ Vanishes(c)
  BY <1>1, DiesEffect
<1>3. TypeOK' /\ Calm
  BY <1>1, <1>2, CalmWithoutEvents DEF TypeOK, ProcessTypes, pair, remote
<1>4. ~Active(c)' /\ Quiet(c)'
  BY <1>2, VanishesQuietly
<1>5. CASE Active(c)
  BY <1>2, <1>3, <1>4, <1>5, OthersStayOutside DEF Calm
<1>6. CASE ~Active(c)
  <2>1. \A d \in Controllers \ {c} : owner = d => owner' = d
    BY <1>1 DEF Dies
  <2> QED BY <1>1, <1>2, <1>3, <1>4, <1>6, <2>1, OutsideStep DEF pair
<1> QED BY <1>5, <1>6

LEMMA SignalStep ==
    ASSUME IInv, NEW c \in Controllers, Signal(c)
    PROVE  IInv'
<1>1. UNCHANGED <<log, st, files, owner, pc, mem, worker, creations, opened, prompts, aborts,
                  faults, crashes>>
      /\ signalled' = [signalled EXCEPT ![c] = TRUE]
  BY DEF Signal, pair, remote, budget
<1>2. TypeOK'
  BY <1>1 DEF IInv, TypeOK
<1>3. Calm
  BY <1>1, CalmWithoutEvents DEF remote
<1>4. Local'
  BY <1>1 DEF IInv, Local, Active, Busy, Quiet, SomeCompleted, Recorded, Of, Requested
<1> QED BY <1>2, <1>3, <1>4 DEF IInv, Calm

\* The second POST: one thread has not sent it, and nobody else has.
LEMMA PostStep ==
    ASSUME IInv, NEW c \in Controllers, Post(c)
    PROVE  IInv'
<1>0. PICK s : s = mem[c].session
  OBVIOUS
<1>1. /\ TypeOK /\ Counted /\ mem[c] \in Memory /\ worker[c].step = "connecting"
      /\ Active(c) /\ Busy(c)
  BY DEF IInv, TypeOK, Post, Local, Quiet
<1>2. /\ s \in Sessions \ Existing /\ Recorded(s) /\ creations > 0 /\ mem[c].started
      /\ pc[c] \notin Unsent /\ \A t \in Sessions : prompts[t] = 0
  BY <1>0, <1>1, HistoryAssumption DEF Busy, Unsent
<1>3. /\ prompts' = [prompts EXCEPT ![s] = @ + 1]
      /\ worker' = [worker EXCEPT ![c].step = "posted"]
      /\ UNCHANGED <<log, st, files, owner, pc, mem, signalled, creations, opened, aborts,
                     faults, crashes>>
  BY <1>0 DEF Post, pair, budget
<1>4. /\ worker' \in [Controllers -> [step: {"none", "connecting", "posted", "answered"},
                                      answer: {"none"} \cup Answers, late: BOOLEAN]]
      /\ prompts' \in [Sessions -> Nat] /\ worker'[c].step = "posted"
      /\ \A d \in Controllers \ {c} : worker'[d] = worker[d]
  <2>1. [worker[c] EXCEPT !.step = "posted"] \in
           [step: {"none", "connecting", "posted", "answered"},
            answer: {"none"} \cup Answers, late: BOOLEAN]
    BY <1>1 DEF TypeOK
  <2>2. worker'[c] = [worker[c] EXCEPT !.step = "posted"]
        /\ \A d \in Controllers \ {c} : worker'[d] = worker[d]
    BY <1>1, <1>3 DEF TypeOK
  <2>3. worker'[c].step = "posted"
    BY <1>1, <2>2 DEF TypeOK
  <2>4. prompts' \in [Sessions -> Nat]
    BY <1>1, <1>2, <1>3 DEF TypeOK
  <2> QED BY <1>1, <1>3, <2>1, <2>2, <2>3, <2>4 DEF TypeOK
<1>5. TypeOK' /\ Alone(c)
  BY <1>1, <1>3, <1>4 DEF TypeOK, Alone
<1>6. Requested(prompts)' = {s} /\ prompts'[s] = 1
  BY <1>1, <1>2, <1>3 DEF TypeOK, Requested
<1>7. UNCHANGED <<Requested(aborts),
                  SomeCompleted>> /\ \A t \in Sessions : Recorded(t)' = Recorded(t)
  BY <1>3 DEF Requested, SomeCompleted, Recorded, Of
<1>8. Counted'
  BY <1>1, <1>2, <1>3, <1>6, <1>7 DEF Counted, Requested
<1>9. Active(c)' /\ Busy(c)'
  BY <1>0, <1>1, <1>2, <1>3, <1>4, <1>7 DEF Active, Busy, Quiet, Early, Unsent, Body
<1> QED BY <1>1, <1>5, <1>8, <1>9, OthersStayOutside

LEMMA AnswerArrives ==
    ASSUME IInv, NEW c \in Controllers, Answer(c)
    PROVE  IInv'
<1>1. PICK answer \in Answers :
         /\ worker[c].step \in {"posted", "connecting"}
         /\ worker' = [worker EXCEPT ![c] = [step |-> "answered", answer |-> answer,
                                             late |-> signalled[c]]]
  BY DEF Answer
<1>2. UNCHANGED <<log, st, files, owner, pc, mem, signalled, creations, opened, prompts, aborts,
                  faults, crashes>>
  BY DEF Answer, pair, remote, budget
<1>3. TypeOK /\ mem[c] \in Memory /\ Active(c) /\ Busy(c)
  BY <1>1 DEF IInv, TypeOK, Local, Quiet
<1>4. TypeOK' /\ Alone(c) /\ worker'[c].step = "answered"
  BY <1>1, <1>2, <1>3 DEF TypeOK, Alone
<1>5. Calm
  BY <1>2, CalmWithoutEvents DEF remote
<1>6. Active(c)' /\ Busy(c)'
  BY <1>1, <1>2, <1>3, <1>4, <1>5 DEF Active, Busy, Calm, Early, Unsent, Body, Quiet, Requested
<1> QED BY <1>3, <1>4, <1>5, <1>6, OthersStayOutside DEF Calm

-----------------------------------------------------------------------------
(* The theorems *)

LEMMA InitIInv == Init => IInv
<1> SUFFICES ASSUME Init PROVE IInv
  OBVIOUS
<1>1. NoMemory \in Memory
  <2>1. NoMetadata \in Metadata
    BY DEF NoMetadata, Metadata
  <2> QED BY <2>1 DEF NoMemory, Memory, Errors, Exits
<1>2. NoFiles \in FilesSet /\ NoState \in States
  BY DEF NoFiles, FilesSet, NoMetadata, Metadata, NoState, States, Reasons
<1>3. TypeOK
  BY <1>1, <1>2, ControllerAssumption DEF Init, TypeOK, Steps, Idle
<1>4. Local
  BY DEF Init, Local, Active, Quiet, NoMemory, Idle
<1>5. Counted
  BY DEF Init, Counted, Requested, SomeCompleted, Of, Positions
<1> QED BY <1>3, <1>4, <1>5 DEF IInv

LEMMA NextIInv == IInv /\ [Next]_vars => IInv'
<1> SUFFICES ASSUME IInv, [Next]_vars PROVE IInv'
  OBVIOUS
<1>1. CASE UNCHANGED vars
  BY <1>1 DEF vars, IInv, TypeOK, Local, Counted, Active, Busy, Quiet, SomeCompleted, Recorded,
     Of,
              Requested
<1>2. CASE Next
  <2>1. PICK c \in Controllers :
           \/ Begin(c) \/ Proceed(c) \/ Unexpected(c) \/ Crash(c) \/ Signal(c)
           \/ Post(c) \/ Answer(c)
    BY <1>2 DEF Next
  <2>2. CASE Proceed(c)
    BY <2>2, BeforeStep, InitialStep, ValidatingStep, RecordStep, LookStep, CreateStep,
       StartedStep, RunningStep, SubmitStep, WaitStep, AnswerStep, CompletedStep, FinishStep,
       HandleStep, AbortStep, CloseStep, BlockStep, ExitStep DEF Proceed
  <2> QED BY <2>1, <2>2, BeforeStep, UnexpectedStep, CrashStep, SignalStep, PostStep,
             AnswerArrives
<1> QED BY <1>1, <1>2

THEOREM Invariance == Spec => []IInv
<1> QED BY InitIInv, NextIInv, PTL DEF Spec

\* Types of the state of Controller (cli.py, _run), in every reachable state.
THEOREM TypeCorrect == Spec => []TypeOK
<1>1. IInv => TypeOK
  BY DEF IInv
<1> QED BY <1>1, Invariance, PTL

LEMMA AtMostOne ==
    ASSUME NEW S, \A s, t \in S : s = t
    PROVE  Cardinality(S) <= 1
<1>1. CASE S = {}
  BY <1>1, FS_EmptySet
<1>2. CASE S # {}
  <2>1. PICK s \in S : S = {s}
    BY <1>2
  <2>2. Cardinality({s}) = 1
    BY FS_Singleton
  <2>3. Cardinality(S) = 1
    BY <2>1, <2>2, Zenon
  <2> QED BY <2>3
<1> QED BY <1>1, <1>2

\* Neither POST is ever repeated, by whichever invocation, after whatever error,
\* death or signal, and the prompt goes to a session the log had recorded.
THEOREM PostsAreSentOnce == Spec => []SubmittedOnce
<1>1. ASSUME IInv PROVE SubmittedOnce
  <2>1. Counted
    BY <1>1 DEF IInv
  <2>2. Cardinality(Requested(prompts)) <= 1
    BY <2>1, AtMostOne DEF Counted
  <2> QED BY <2>1, <2>2 DEF SubmittedOnce, Counted, Recorded
<1> QED BY <1>1, Invariance, PTL

\* The abort is sent once, and never to a session whose completion is recorded.
THEOREM AbortIsSentOnce == Spec => []AbortedOnce
<1>1. ASSUME IInv PROVE AbortedOnce
  <2>1. Counted
    BY <1>1 DEF IInv
  <2>2. Cardinality(Requested(aborts)) <= 1
    BY <2>1, AtMostOne DEF Counted
  <2> QED BY <2>1, <2>2 DEF AbortedOnce, Counted, SomeCompleted
<1> QED BY <1>1, Invariance, PTL

-----------------------------------------------------------------------------
(***************************************************************************)
(* What `sprint-loop run` leaves on disk and on the server, for any number *)
(* of invocations, sessions, failing calls, killed processes and signals:  *)
(* its metadata tells the truth, its events never run ahead of the         *)
(* metadata, execution_not_implemented is earned, no session is left       *)
(* behind, and a run that has ended is never touched again.                *)
(*                                                                         *)
(* The records are written by the owner only, so that each step of the     *)
(* owner can rely on what its earlier steps left: Keeps relates the local  *)
(* variables of _run to the files, the log and the snapshot.  A process    *)
(* that dies leaves files nobody writes to again, because no later owner   *)
(* has a run of its own (known).                                           *)
(***************************************************************************)

SomeInterrupted == Of("agent.interrupted") # {}
CompletedFor(s) == \E i \in Of("agent.completed") : log[i].session = s

\* Nothing of an answer has been written; an answer has been taken; it has been
\* recorded in the metadata.
Unanswered == Early \cup Unsent \cup {"wait", "evidence", "result"}
Answered == {"result", "transcript", "terminal", "completed", "finish"}
Closing == {"abort", "close", "interrupted"}

\* The files of the invocation while the body runs.
BodyKeeps(c) ==
    LET m == mem[c] IN
    /\ pc[c] \in {"enter", "server", "allocate"} => files = NoFiles
    /\ pc[c] \in Unanswered =>
           files.result = "none" /\ ~files.transcript /\ ~m.evidence /\ ~m.pending /\ ~m.completed
    /\ pc[c] \in Unanswered \cup {"transcript", "terminal"} => files.metadata.status \notin Final
    /\ pc[c] \in Answered => m.answer \in Results /\ prompts[m.session] = 1
    /\ pc[c] = "transcript" => files.result = m.answer /\ ~files.transcript
    /\ pc[c] = "terminal" => files.result = m.answer /\ files.transcript
    /\ pc[c] \in {"completed", "finish"} =>
           /\ files.metadata.status = m.answer /\ files.metadata.session = m.session
           /\ files.result = m.answer /\ files.transcript
    /\ pc[c] = "finish" => CompletedFor(m.session)

\* The files, and the abort, while the handlers run.
HandlersKeep(c) ==
    LET m == mem[c] IN
    /\ pc[c] = "handle" /\ m.known =>
           \/ m.completed \/ EvidenceInstalled(m)
           \/ files.result = "none" /\ files.transcript = m.evidence
    /\ pc[c] \in Closing =>
           /\ log # << >> /\ ~m.pending /\ ~m.completed /\ files.result = "none"
           /\ m.started => m.closing \in {"timed_out", "interrupted"}
    /\ pc[c] \in {"abort", "close"} => files.transcript = m.evidence
    /\ pc[c] \in {"close", "interrupted"} /\ m.session # None => aborts[m.session] = 1
    /\ pc[c] = "interrupted" =>
           m.started /\ files.metadata.status \in {"timed_out", "interrupted"}
    /\ pc[c] \in {"block", "exit"} /\ m.session # None /\ m.error # "unexpected" =>
           aborts[m.session] = 1 \/ worker[c].step = "answered"
    /\ pc[c] = "fallback" => m.error = "unexpected"

\* What the local variables say of each other, and of the worker.
VariablesAgree(c) ==
    LET m == mem[c] IN
    /\ m.known \/ pc[c] \in {"initial", "handle", "fallback", "exit"}
    /\ pc[c] = "initial" => ~m.known
    /\ ~m.known => m.session = None
    /\ m.meta.status # "none" => log # << >>
    /\ m.evidence => m.started
    /\ m.started => m.meta.session = m.session
    /\ worker[c].step = "posted" => prompts[m.session] = 1
    /\ worker[c].step = "answered" =>
           /\ worker[c].answer \in Answers
           /\ worker[c].answer # "error" => prompts[m.session] = 1
    /\ pc[c] \in Answered \cup {"evidence"} \/ m.pending \/ m.completed \/ m.error = "installed" =>
           worker[c].step = "answered"

\* How far the run can be when the log or the snapshot says that something has
\* ended.
EndsKeep(c) ==
    LET m == mem[c] IN
    m.known =>
        /\ SomeCompleted =>
               /\ m.pending \/ m.completed
               /\ pc[c] \in {"finish", "handle", "block", "fallback", "exit"}
        /\ SomeInterrupted => pc[c] \in {"block", "exit"}
        /\ st.state \in Terminal =>
               pc[c] \in {"block", "fallback", "exit"} \/ (pc[c] = "handle" /\ m.completed)

Keeps(c) == BodyKeeps(c) /\ HandlersKeep(c) /\ VariablesAgree(c) /\ EndsKeep(c)

\* A run that says execution_not_implemented.
PlaceholderIsBacked ==
    st.reason = Placeholder =>
        /\ st.state = "blocked"
        /\ files.metadata.status = "completed" /\ files.result = "completed" /\ files.transcript
        /\ \E s \in Sessions : CompletedFor(s) /\ prompts[s] = 1

Kept ==
    /\ log = << >> => files = NoFiles
    /\ RecordsTruthful /\ EventsFollowRecords /\ PlaceholderIsBacked

ExitsAreTrue == \A c \in Controllers : mem[c].exit = "placeholder" => st.reason = Placeholder

RInv == Kept /\ ExitsAreTrue /\ \A c \in Controllers : Active(c) => Keeps(c)
-----------------------------------------------------------------------------
(* How a step ends, exactly *)

Reaches(c, m, next) == Alone(c) /\ pc'[c] = next /\ mem'[c] = m /\ worker' = worker
Ends(c) == Alone(c) /\ Vanishes(c)

\* What an error that goes to target leaves of it.
Noted(m, error, target) == IF target = "handle" THEN [m EXCEPT !.error = error] ELSE m

LEMMA NotedFields ==
    ASSUME NEW m \in Memory, NEW error \in Errors, NEW target
    PROVE  LET n == Noted(m, error, target) IN
           /\ n \in Memory
           /\ n.known = m.known /\ n.meta = m.meta /\ n.session = m.session
           /\ n.started = m.started /\ n.completed = m.completed /\ n.pending = m.pending
           /\ n.evidence = m.evidence /\ n.answer = m.answer /\ n.closing = m.closing
           /\ n.exit = m.exit
           /\ n.error = IF target = "handle" THEN error ELSE m.error
BY DEF Noted, Memory

LEMMA ReturnsReach ==
    ASSUME TypeOK, NEW c \in Controllers, NEW m \in Memory, NEW next \in Steps,
           Returns(c, m, next)
    PROVE  Reaches(c, m, next)
BY ContinueEffect DEF Returns, Reaches, Alone

LEMMA ErrorReach ==
    ASSUME TypeOK, NEW c \in Controllers, NEW m \in Memory, NEW error \in Errors,
           NEW target \in Steps, Raises(c, m, error, target) \/ Fails(c, m, error, target)
    PROVE  Reaches(c, Noted(m, error, target), target)
<1> DEFINE n == Noted(m, error, target)
<1>1. Continue(c, n, target) /\ worker' = worker
  BY DEF Raises, Fails, Returns, Noted
<1>2. n \in Memory
  BY NotedFields
<1> HIDE DEF n
<1>3. Reaches(c, n, target)
  BY <1>1, <1>2, ContinueEffect DEF Reaches, Alone
<1> QED BY <1>3 DEF n

LEMMA DeathEnds ==
    ASSUME TypeOK, NEW c \in Controllers, Dies(c)
    PROVE  Ends(c)
BY DiesEffect DEF Ends

-----------------------------------------------------------------------------
(* What a durable step does to the pair *)

\* The event of request r is in the log, and the snapshot is the one before or
\* the one after it.
Grows(r) ==
    /\ st.state \notin Terminal
    /\ Appended(r)
    /\ r.kind = "transition" => st' = st \/ (st'.state = r.to /\ st'.reason = r.reason)
    /\ r.kind # "transition" =>
           st' = st \/ (st'.state \notin Terminal /\ st'.reason \in {st.reason, "none"})

LEMMA EventGrows ==
    ASSUME log \in Seq(Events), st \in States, NEW r \in Asked,
           MayWrite(st, log, log # << >>, r), NEW e, e = NextEvent(st, r),
           log' = Append(log, e), st' \in {st, Apply(st, e)}
    PROVE  /\ Grows(r)
           /\ r.kind = "transition" /\ st' = Apply(st, e) => st'.reason = r.reason
<1>1. Appended(r)
  BY WrittenEvent DEF Appended
<1>2. CASE r.kind = "initial"
  <2>1. st = NoState /\ e.to = "initializing" /\ e.reason = "none" /\ e.type = "run.started"
    BY <1>2 DEF MayWrite, NextEvent
  <2> QED BY <1>1, <1>2, <2>1 DEF Grows, NoState, Terminal, Apply, Observations
<1>3. CASE r.kind = "transition"
  <2>1. /\ Allowed(st.state, r.to) # "none" /\ e.type = Allowed(st.state, r.to)
        /\ e.to = r.to /\ e.reason = r.reason
    BY <1>3 DEF MayWrite, NextEvent
  <2>2. st.state \notin Terminal /\ e.type \notin Observations
    BY <2>1 DEF Allowed, Terminal, Observations
  <2> QED BY <1>1, <1>3, <2>1, <2>2 DEF Grows, Apply
<1>4. CASE r.kind = "observe"
  <2>1. /\ st.state = "validating" /\ e.to = "validating" /\ e.type = r.type
        /\ r.type \in Observations
    BY <1>4 DEF MayWrite, ObserveAllowed, NextEvent, Asked
  <2> QED BY <1>1, <1>4, <2>1 DEF Grows, Apply, Terminal
<1> QED BY <1>2, <1>3, <1>4 DEF Asked

LEMMA DurableReach ==
    ASSUME TypeOK, NEW c \in Controllers, NEW r \in Asked, NEW m \in Memory,
           NEW done \in Memory, NEW next \in Steps, NEW target \in Steps,
           Durable(c, r, m, done, next, target)
    PROVE  \/ /\ Grows(r) /\ Reaches(c, done, next)
              /\ r.kind = "transition" => st'.reason = r.reason
           \/ /\ (log' = log /\ st' = st) \/ Grows(r)
              /\ Reaches(c, Noted(m, "other", target), target) \/ Ends(c)
<1> DEFINE e == NextEvent(st, r)
<1>1. "other" \in Errors /\ log \in Seq(Events) /\ st \in States
  BY DEF Errors, TypeOK
<1>2. CASE ~MayWrite(st, log, log # << >>, r)
  <2>1. log' = log /\ st' = st /\ Raises(c, m, "other", target)
    BY <1>2 DEF Durable, pair
  <2> QED BY <1>1, <2>1, ErrorReach
<1>3. CASE MayWrite(st, log, log # << >>, r)
  <2>1. \/ log' = Append(log, e) /\ st' = Apply(st, e) /\ Returns(c, done, next)
        \/ /\ \/ log' = log /\ st' = st
              \/ log' = Append(log, e) /\ st' \in {st, Apply(st, e)}
           /\ Fails(c, m, "other", target) \/ Dies(c)
    BY <1>3 DEF Durable, pair
  <2>2. log' = Append(log, e) /\ st' \in {st, Apply(st, e)} =>
           Grows(r) /\ (r.kind = "transition" /\ st' = Apply(st, e) => st'.reason = r.reason)
    BY <1>1, <1>3, EventGrows
  <2> HIDE DEF e
  <2>3. CASE log' = Append(log, e) /\ st' = Apply(st, e) /\ Returns(c, done, next)
    BY <2>2, <2>3, ReturnsReach
  <2>4. CASE /\ (log' = log /\ st' = st) \/ Grows(r)
             /\ Fails(c, m, "other", target) \/ Dies(c)
    <3>1. Reaches(c, Noted(m, "other", target), target) \/ Ends(c)
      BY <1>1, <2>4, ErrorReach, DeathEnds
    <3> QED BY <2>4, <3>1
  <2> QED BY <2>1, <2>2, <2>3, <2>4
<1> QED BY <1>2, <1>3

-----------------------------------------------------------------------------
(* What a write does to the files *)

\* At most artifact a has changed, and only to v.
Touched(a, v) ==
    files'[a] \in {files[a], v} /\ \A b \in Artifacts \ {a} : files'[b] = files[b]

LEMMA PrefixesTouch ==
    ASSUME NEW f \in FilesSet, NEW a, NEW v, Fits(a, v),
           NEW g \in Prefixes(f, a, v) \cup {Put(f, a, v)}
    PROVE  /\ g[a] \in {f[a], v} /\ \A b \in Artifacts \ {a} : g[b] = f[b]
           /\ Put(f, a, v)[a] = v
<1> DEFINE p == Put(f, a, v)
<1>1. p \in FilesSet /\ p[a] = v /\ \A b \in Artifacts \ {a} : p[b] = f[b]
  <2>0. p \in FilesSet
    BY WritesAreTyped
  <2>1. CASE a = "metadata" BY <2>0, <2>1 DEF Put, FilesSet, Fits, Artifacts, Immutable
  <2>2. CASE a = "prompt" BY <2>0, <2>2 DEF Put, FilesSet, Fits, Artifacts, Immutable
  <2>3. CASE a = "transcript" BY <2>0, <2>3 DEF Put, FilesSet, Fits, Artifacts, Immutable
  <2>4. CASE a = "result" BY <2>0, <2>4 DEF Put, FilesSet, Fits, Artifacts, Immutable
  <2> QED BY <2>1, <2>2, <2>3, <2>4 DEF Fits
<1>2. g \in {f, [f EXCEPT !.dir = TRUE], [f EXCEPT !.dir = TRUE, !.stray = TRUE], p}
      \/ g = [p EXCEPT !.linked = @ \cup {a}]
  BY Zenon DEF Prefixes, p
<1>3. a \in Artifacts
  BY DEF Fits, Artifacts, Immutable
<1> HIDE DEF p
<1>4. \A b \in Artifacts : g[b] = f[b] \/ g[b] = p[b]
  BY <1>1, <1>2 DEF FilesSet, Artifacts, Immutable
<1> QED BY <1>1, <1>3, <1>4 DEF p

LEMMA WriteReach ==
    ASSUME TypeOK, NEW c \in Controllers, NEW a, NEW v, Fits(a, v), NEW m \in Memory,
           NEW done \in Memory, NEW next \in Steps, NEW target \in Steps,
           WriteFile(c, a, v, m, done, next, target)
    PROVE  /\ Touched(a, v)
           /\ \/ files'[a] = v /\ Reaches(c, done, next)
              \/ Ends(c)
              \/ \E error \in {"other", "installed"} :
                    /\ Reaches(c, Noted(m, error, target), target)
                    /\ error = "installed" => a \in Immutable
                    /\ error = "other" /\ a \in Immutable => files'[a] = files[a]
<1> DEFINE error == IF a \in Immutable /\ files'[a] = v THEN "installed" ELSE "other"
<1>1. "other" \in Errors /\ error \in Errors
  BY DEF Errors
<1>2. files \in FilesSet
  BY DEF TypeOK
<1>3. CASE files' = files /\ Raises(c, m, "other", target)
  <2>1. Touched(a, v)
    BY <1>3 DEF Touched
  <2> QED BY <1>1, <1>3, <2>1, ErrorReach
<1>4. CASE files' = Put(files, a, v) /\ Returns(c, done, next)
  <2>1. files'[a] = v /\ Touched(a, v)
    BY <1>2, <1>4, PrefixesTouch DEF Touched
  <2> QED BY <1>4, <2>1, ReturnsReach
<1>5. CASE files' \in Prefixes(files, a, v) /\ (Fails(c, m, error, target) \/ Dies(c))
  <2>1. Touched(a, v)
    BY <1>2, <1>5, PrefixesTouch DEF Touched
  <2>2. (error = "other" /\ a \in Immutable => files'[a] = files[a]) /\ error \in {"other", "installed"}
        /\ (error = "installed" => a \in Immutable)
    BY <2>1 DEF Touched
  <2> HIDE DEF error
  <2> QED BY <1>1, <1>5, <2>1, <2>2, ErrorReach, DeathEnds
<1>6. \/ files' = files /\ Raises(c, m, "other", target)
      \/ files' = Put(files, a, v) /\ Returns(c, done, next)
      \/ files' \in Prefixes(files, a, v) /\ (Fails(c, m, error, target) \/ Dies(c))
  BY DEF WriteFile
<1> QED BY <1>3, <1>4, <1>5, <1>6

-----------------------------------------------------------------------------
(* What every step has in common *)

\* Nothing that has ended changes.
Frozen == st.state \in Terminal => UNCHANGED <<log, st, files>>

LEMMA LogKeeps ==
    ASSUME TypeOK, NEW e \in Events, log' = Append(log, e)
    PROVE  /\ log' # << >>
           /\ SomeCompleted' <=> SomeCompleted \/ e.type = "agent.completed"
           /\ SomeInterrupted' <=> SomeInterrupted \/ e.type = "agent.interrupted"
           /\ \A s \in Sessions : CompletedFor(s) => CompletedFor(s)'
           /\ e.type = "agent.completed" => CompletedFor(e.session)'
           /\ /\ EventsFollowRecords /\ UNCHANGED <<files, aborts>>
              /\ e.type = "agent.completed" =>
                     files.metadata.status \in Results /\ files.metadata.session = e.session
              /\ e.type = "agent.interrupted" =>
                     /\ files.metadata.status \in {"timed_out", "interrupted"}
                     /\ aborts[e.session] = 1 /\ files.result = "none"
              => EventsFollowRecords'
<1>1. log \in Seq(Events)
  BY DEF TypeOK
<1>2. DOMAIN log = 1..Len(log) /\ DOMAIN log' = 1..(Len(log) + 1) /\ Len(log) \in Nat
      /\ \A i \in 1..(Len(log) + 1) : log'[i] = IF i <= Len(log) THEN log[i] ELSE e
  BY <1>1
<1>3. \A type : \A i \in Of(type)' : i \in Of(type) \/ (i = Len(log) + 1 /\ e.type = type)
  BY <1>2 DEF Of, Positions
<1>4. \A type : \A i \in Of(type) : i \in Of(type)' /\ log'[i] = log[i]
  BY <1>2 DEF Of, Positions
<1>5. \A type : e.type = type => Len(log) + 1 \in Of(type)'
  BY <1>2 DEF Of, Positions
<1>6. log'[Len(log) + 1] = e
  BY <1>2
<1>7. /\ SomeCompleted' <=> SomeCompleted \/ e.type = "agent.completed"
      /\ SomeInterrupted' <=> SomeInterrupted \/ e.type = "agent.interrupted"
  BY <1>3, <1>4, <1>5 DEF SomeCompleted, SomeInterrupted
<1>8. /\ \A s \in Sessions : CompletedFor(s) => CompletedFor(s)'
      /\ e.type = "agent.completed" => CompletedFor(e.session)'
  BY <1>4, <1>5, <1>6 DEF CompletedFor
<1>9. ASSUME EventsFollowRecords, UNCHANGED <<files, aborts>>,
             e.type = "agent.completed" =>
                 files.metadata.status \in Results /\ files.metadata.session = e.session,
             e.type = "agent.interrupted" =>
                 /\ files.metadata.status \in {"timed_out", "interrupted"}
                 /\ aborts[e.session] = 1 /\ files.result = "none"
      PROVE  EventsFollowRecords'
  <2>1. \A i \in Of("agent.completed")' :
           files.metadata.status \in Results /\ files.metadata.session = log'[i].session
    BY <1>3, <1>4, <1>6, <1>9 DEF EventsFollowRecords
  <2>2. ASSUME NEW i \in Of("agent.interrupted")'
        PROVE  /\ files.metadata.status \in {"timed_out", "interrupted"}
               /\ aborts[log'[i].session] = 1 /\ files.result = "none"
    <3>1. CASE i = Len(log) + 1 /\ e.type = "agent.interrupted"
      BY <1>6, <1>9, <3>1
    <3>2. CASE i \in Of("agent.interrupted")
      <4>1. log'[i] = log[i]
        BY <1>4, <3>2
      <4> QED BY <3>2, <4>1, <1>9 DEF EventsFollowRecords
    <3> QED BY <1>3, <3>1, <3>2
  <2> QED BY <1>9, <2>1, <2>2 DEF EventsFollowRecords
<1> QED BY <1>2, <1>7, <1>8, <1>9

\* An event that ends no invocation, of a run that does not end by it in the
\* placeholder.
Steady ==
    /\ Kept' /\ Frozen
    /\ log # << >> => log' # << >>
    /\ SomeCompleted' = SomeCompleted /\ SomeInterrupted' = SomeInterrupted
    /\ \A s \in Sessions : CompletedFor(s) => CompletedFor(s)'

LEMMA SteadyUnchanged ==
    ASSUME IInv, Kept, UNCHANGED <<log, st, files, aborts>>,
           \A s \in Sessions : prompts[s] = 1 => prompts'[s] = 1
    PROVE  Steady
BY DEF Steady, Kept, Frozen, RecordsTruthful, EventsFollowRecords, PlaceholderIsBacked,
       SomeCompleted, SomeInterrupted, CompletedFor, Of

LEMMA SteadyPair ==
    ASSUME IInv, Kept, NEW r \in Asked, (log' = log /\ st' = st) \/ Grows(r),
           r.kind = "observe" => r.type \notin EndTypes,
           r.kind = "transition" => r.reason # Placeholder,
           UNCHANGED <<files, remote>>
    PROVE  /\ Steady
           /\ st'.state \in Terminal =>
                  st.state \in Terminal \/ (r.kind = "transition" /\ r.to \in Terminal)
<1>1. CASE log' = log /\ st' = st
  BY <1>1, SteadyUnchanged DEF remote
<1>2. CASE Grows(r)
  <2>1. PICK e \in Events : log' = Append(log, e) /\ e.type \notin EndTypes
    BY <1>2 DEF Grows, Appended, EndTypes, Observations
  <2>2. /\ log' # << >> /\ SomeCompleted' = SomeCompleted /\ SomeInterrupted' = SomeInterrupted
        /\ \A s \in Sessions : CompletedFor(s) => CompletedFor(s)'
        /\ EventsFollowRecords'
    BY <2>1, LogKeeps DEF IInv, EndTypes, remote, Kept, SomeCompleted, SomeInterrupted
  <2>3. st.reason # Placeholder /\ st.state \notin Terminal
    BY <1>2 DEF Grows, Kept, PlaceholderIsBacked, Terminal
  <2>4. st'.reason # Placeholder
    BY <1>2, <2>3 DEF Grows, Placeholder
  <2>5. RecordsTruthful'
    BY DEF Kept, RecordsTruthful
  <2> QED BY <1>2, <2>2, <2>3, <2>4, <2>5 DEF Steady, Kept, Frozen, Grows, PlaceholderIsBacked
<1> QED BY <1>1, <1>2

LEMMA SteadyWrite ==
    ASSUME IInv, Kept, UNCHANGED <<log, st, remote>>, RecordsTruthful',
           log # << >>, ~SomeCompleted, ~SomeInterrupted, st.state \notin Terminal
    PROVE  Steady
<1>1. EventsFollowRecords'
  BY DEF EventsFollowRecords, SomeCompleted, SomeInterrupted, Of
<1>2. PlaceholderIsBacked'
  BY DEF Kept, PlaceholderIsBacked, Terminal
<1> QED BY <1>1, <1>2 DEF Steady, Kept, Frozen, SomeCompleted, SomeInterrupted, CompletedFor, Of

LEMMA OneOwner ==
    ASSUME IInv, NEW c \in Controllers, Active(c), NEW d \in Controllers, Active(d)
    PROVE  c = d
BY DEF IInv, Local, Busy

\* Whoever owns the lock makes the step.
LEMMA OwnerKeeps ==
    ASSUME IInv, RInv, NEW c \in Controllers, Active(c), Alone(c), Kept', Frozen,
           mem'[c].exit = "placeholder" => mem[c].exit = "placeholder" \/ st'.reason = Placeholder,
           Active(c)' => Keeps(c)'
    PROVE  RInv'
<1>1. \A d \in Controllers : Active(d)' => d = c
  BY OneOwner DEF Alone, Active
<1>2. st.reason = Placeholder => st'.reason = Placeholder
  BY DEF RInv, Kept, PlaceholderIsBacked, Frozen, Terminal
<1>3. ExitsAreTrue'
  BY <1>2 DEF RInv, ExitsAreTrue, Alone
<1> QED BY <1>1, <1>3 DEF RInv

LEMMA OwnerEnds ==
    ASSUME IInv, RInv, NEW c \in Controllers, Active(c), Ends(c), Kept', Frozen
    PROVE  RInv'
<1>1. ~Active(c)' /\ mem'[c].exit = "none" /\ Alone(c)
  BY DEF Ends, Vanishes, Active, NoMemory
<1> QED BY <1>1, OwnerKeeps

\* The way of every error of the body.
LEMMA BodyRaises ==
    ASSUME IInv, RInv, NEW c \in Controllers, pc[c] \in Body, Kept', Frozen,
           NEW m \in Memory, m.exit = mem[c].exit,
           NEW error \in Errors, error # "unexpected",
           Reaches(c, Noted(m, error, "handle"), "handle") \/ Ends(c),
           m.known => \/ m.completed \/ m.pending \/ error = "installed"
                      \/ files'.result = "none" /\ files'.transcript = m.evidence,
           pc'[c] = "handle" => VariablesAgree(c)',
           m.known => /\ SomeCompleted' => m.pending \/ m.completed
                      /\ ~SomeInterrupted'
                      /\ st'.state \in Terminal => m.completed
    PROVE  RInv'
<1>1. Active(c)
  BY DEF Active, Body
<1>2. CASE Ends(c)
  BY <1>1, <1>2, OwnerEnds
<1>3. CASE Reaches(c, Noted(m, error, "handle"), "handle")
  <2> DEFINE n == Noted(m, error, "handle")
  <2>1. /\ n.known = m.known /\ n.completed = m.completed /\ n.pending = m.pending
        /\ n.evidence = m.evidence /\ n.exit = m.exit /\ n.error = error
    BY NotedFields
  <2>2. mem'[c] = n /\ pc'[c] = "handle" /\ Alone(c)
    BY <1>3 DEF Reaches
  <2> HIDE DEF n
  <2>3. BodyKeeps(c)'
    BY <2>2 DEF BodyKeeps, Unanswered, Answered, Early, Unsent
  <2>4. HandlersKeep(c)'
    BY <2>1, <2>2 DEF HandlersKeep, Closing, EvidenceInstalled
  <2>5. EndsKeep(c)'
    BY <2>1, <2>2 DEF EndsKeep
  <2>6. VariablesAgree(c)'
    BY <2>2
  <2> QED BY <1>1, <2>1, <2>2, <2>3, <2>4, <2>5, <2>6, OwnerKeeps DEF Keeps
<1> QED BY <1>2, <1>3

-----------------------------------------------------------------------------
(* The steps of the body *)

LEMMA OwnerFacts ==
    ASSUME IInv, RInv, NEW c \in Controllers, pc[c] \in Body \cup Handlers \cup {"exit"}
    PROVE  /\ TypeOK /\ Counted /\ mem[c] \in Memory /\ Active(c) /\ Busy(c)
           /\ Kept /\ BodyKeeps(c) /\ HandlersKeep(c) /\ VariablesAgree(c) /\ EndsKeep(c)
           /\ mem[c].session # None => log # << >>
BY DEF IInv, RInv, TypeOK, Local, Active, Body, Handlers, Keeps, Busy, Counted

LEMMA VariablesStay ==
    ASSUME NEW c \in Controllers, VariablesAgree(c), NEW n, mem'[c] = n,
           n.known = mem[c].known, n.session = mem[c].session, n.started = mem[c].started,
           n.pending = mem[c].pending, n.completed = mem[c].completed,
           n.evidence = mem[c].evidence, n.meta = mem[c].meta,
           n.error = "installed" => mem[c].error = "installed" \/ worker[c].step = "answered",
           UNCHANGED <<worker, prompts>>, log # << >> => log' # << >>,
           pc'[c] # "initial", mem[c].known \/ pc'[c] \in {"handle", "fallback", "exit"},
           pc'[c] \in Answered \cup {"evidence"} => worker[c].step = "answered"
    PROVE  VariablesAgree(c)'
BY DEF VariablesAgree

LEMMA InitialKeeps ==
    ASSUME IInv, RInv, NEW c \in Controllers, Initial(c)
    PROVE  RInv' /\ Frozen
<1> DEFINE m == [mem[c] EXCEPT !.known = TRUE]
<1>1. /\ TypeOK /\ mem[c] \in Memory /\ Active(c) /\ Busy(c) /\ Kept /\ VariablesAgree(c)
      /\ pc[c] = "initial" /\ pc[c] \in Body
  BY OwnerFacts DEF Initial, Body
<1>2. UNCHANGED <<files, remote, signalled>>
  BY DEF Initial
<1>3. /\ ~mem[c].known /\ Quiet(c) /\ ~mem[c].evidence
      /\ {mem[c].pending, mem[c].completed, mem[c].evidence} \subseteq BOOLEAN
  BY <1>1 DEF VariablesAgree, Busy, Quiet, Memory
<1>4. "other" \in Errors /\ "other" # "unexpected" /\ {"enter", "handle"} \subseteq Steps
  BY DEF Errors, Steps, Body, Handlers
<1>5. /\ m \in Memory /\ m.known = TRUE /\ m.session = mem[c].session /\ m.started = mem[c].started
      /\ m.completed = mem[c].completed /\ m.pending = mem[c].pending /\ m.meta = mem[c].meta
      /\ m.evidence = mem[c].evidence /\ m.exit = mem[c].exit /\ m.error = mem[c].error
  BY <1>1 DEF Memory
<1> HIDE DEF m
<1>6. CASE UNCHANGED pair /\ Raises(c, mem[c], "other", "handle")
  <2> DEFINE n == Noted(mem[c], "other", "handle")
  <2>1. Reaches(c, n, "handle")
    BY <1>1, <1>4, <1>6, ErrorReach
  <2>2. Steady
    BY <1>1, <1>2, <1>6, SteadyUnchanged DEF pair, remote
  <2>3. VariablesAgree(c)'
    <3>1. n.known = mem[c].known /\ n.session = mem[c].session /\ n.started = mem[c].started
          /\ n.pending = mem[c].pending /\ n.completed = mem[c].completed
          /\ n.evidence = mem[c].evidence /\ n.meta = mem[c].meta /\ n.error = "other"
      BY <1>1, <1>4, NotedFields
    <3> HIDE DEF n
    <3> QED BY <1>1, <1>2, <2>1, <2>2, <3>1, VariablesStay DEF Reaches, Steady, remote, Answered
  <2> QED BY <1>1, <1>3, <1>4, <2>1, <2>2, <2>3, BodyRaises DEF Steady
<1>7. ASSUME NothingThere, NEW run \in Runs,
             Durable(c, [kind |-> "initial", run |-> run], m, m, "enter", "handle")
      PROVE  RInv' /\ Frozen
  <2> DEFINE r == [kind |-> "initial", run |-> run]
             n == Noted(m, "other", "handle")
  <2>1. r \in Asked /\ r.kind = "initial"
    BY DEF Asked
  <2> HIDE DEF r
  <2>2. Durable(c, r, m, m, "enter", "handle")
    BY <1>7 DEF r
  <2>3. \/ Grows(r) /\ Reaches(c, m, "enter")
        \/ /\ (log' = log /\ st' = st) \/ Grows(r)
           /\ Reaches(c, n, "handle") \/ Ends(c)
    BY <1>1, <1>4, <1>5, <2>1, <2>2, DurableReach
  <2>4. Steady /\ (st'.state \in Terminal => st.state \in Terminal)
    <3>1. (log' = log /\ st' = st) \/ Grows(r)
      BY <2>3
    <3> QED BY <1>1, <1>2, <2>1, <3>1, SteadyPair
  <2>5. /\ files' = NoFiles /\ ~SomeCompleted' /\ ~SomeInterrupted' /\ st'.state \notin Terminal
        /\ files'.result = "none" /\ ~files'.transcript
        /\ files'.metadata.status \notin Final
    BY <1>1, <1>2, <1>7, <2>4
       DEF Kept, NothingThere, Steady, SomeCompleted, SomeInterrupted, Of, Positions, NoState,
           Terminal, NoFiles, NoMetadata, Final, Results
  <2>6. files'.transcript = m.evidence /\ m.known
    BY <1>3, <1>5, <2>5 DEF NoFiles
  <2>7. n.known /\ n.session = m.session /\ n.started = m.started
        /\ n.pending = m.pending /\ n.completed = m.completed
        /\ n.evidence = m.evidence /\ n.meta = m.meta /\ n.error = "other"
    BY <1>4, <1>5, NotedFields
  <2> HIDE DEF n
  <2>8. CASE Reaches(c, n, "handle") \/ Ends(c)
    <3>1. pc'[c] = "handle" => VariablesAgree(c)'
      <4> SUFFICES ASSUME pc'[c] = "handle" PROVE VariablesAgree(c)'
        OBVIOUS
      <4>1. Reaches(c, n, "handle")
        BY <2>8 DEF Ends, Vanishes
      <4> QED BY <1>1, <1>2, <1>3, <1>5, <2>4, <2>7, <4>1
              DEF VariablesAgree, Reaches, Steady, remote, Answered, Quiet
    <3> QED BY <1>1, <1>3, <1>4, <1>5, <2>4, <2>5, <2>8, <2>6, <3>1, BodyRaises DEF Steady, n
  <2>9. CASE Grows(r) /\ Reaches(c, m, "enter")
    <3>1. BodyKeeps(c)'
      BY <1>3, <1>5, <2>5, <2>9
         DEF BodyKeeps, Reaches, Unanswered, Answered, Early, Unsent, Quiet
    <3>2. HandlersKeep(c)'
      BY <2>9 DEF HandlersKeep, Reaches, Closing
    <3>3. VariablesAgree(c)'
      BY <1>1, <1>2, <1>3, <1>5, <2>4, <2>9
         DEF VariablesAgree, Reaches, Steady, remote, Answered, Quiet
    <3>4. EndsKeep(c)'
      BY <2>5 DEF EndsKeep
    <3> QED BY <1>1, <1>5, <2>4, <2>9, <3>1, <3>2, <3>3, <3>4, OwnerKeeps
            DEF Keeps, Reaches, Steady
  <2> QED BY <2>3, <2>8, <2>9
<1> QED BY <1>6, <1>7 DEF Initial, m

\* A body that is under way has not ended anything.
LEMMA BodyIsOpen ==
    ASSUME IInv, RInv, NEW c \in Controllers, pc[c] \in Body \ {"initial"}
    PROVE  /\ TypeOK /\ Counted /\ mem[c] \in Memory /\ Active(c) /\ Busy(c) /\ pc[c] \in Body
           /\ Kept /\ BodyKeeps(c) /\ HandlersKeep(c) /\ VariablesAgree(c) /\ EndsKeep(c)
           /\ mem[c].known /\ log # << >> /\ ~SomeInterrupted /\ st.state \notin Terminal
           /\ pc[c] # "finish" => ~SomeCompleted
<1>1. /\ TypeOK /\ Counted /\ mem[c] \in Memory /\ Active(c) /\ Busy(c) /\ pc[c] \in Body
      /\ Kept /\ BodyKeeps(c) /\ HandlersKeep(c) /\ VariablesAgree(c) /\ EndsKeep(c)
      /\ mem[c].session # None => log # << >>
  BY OwnerFacts
<1>2. mem[c].known
  BY <1>1 DEF VariablesAgree, Body
<1>3. log # << >>
  <2>1. CASE pc[c] \in Early
    BY <1>1, <2>1 DEF Busy
  <2>2. CASE pc[c] = "started"
    BY <1>1, <2>2, HistoryAssumption DEF Busy
  <2>3. CASE pc[c] \notin Early \cup {"started"}
    BY <1>1, <2>3, HistoryAssumption DEF Busy, Body
  <2> QED BY <2>1, <2>2, <2>3
<1>4. ~SomeInterrupted /\ st.state \notin Terminal /\ (pc[c] # "finish" => ~SomeCompleted)
  BY <1>1, <1>2 DEF EndsKeep, Body
<1> QED BY <1>1, <1>2, <1>3, <1>4

LEMMA ValidatingKeeps ==
    ASSUME IInv, RInv, NEW c \in Controllers, Enter(c) \/ ServerValidated(c)
    PROVE  RInv' /\ Frozen
<1> DEFINE n == Noted(mem[c], "other", "handle")
<1>1. pc[c] \in {"enter", "server"} /\ pc[c] \in Body \ {"initial"}
  BY DEF Enter, ServerValidated, Body
<1>2. /\ TypeOK /\ mem[c] \in Memory /\ Active(c) /\ Busy(c) /\ Kept /\ BodyKeeps(c)
      /\ VariablesAgree(c) /\ mem[c].known /\ ~SomeInterrupted /\ ~SomeCompleted
      /\ st.state \notin Terminal
  BY <1>1, BodyIsOpen
<1>3. UNCHANGED <<files, remote, signalled>>
  BY DEF Enter, ServerValidated
<1>4. PICK r \in Asked, next \in {"server", "allocate"} :
         /\ Durable(c, r, mem[c], mem[c], next, "handle")
         /\ r.kind = "observe" => r.type \notin EndTypes
         /\ r.kind = "transition" => r.to = "validating" /\ r.reason = "none"
  <2>1. LET t == Transition("validating", "none") IN
        t \in Asked /\ t.kind = "transition" /\ t.to = "validating" /\ t.reason = "none"
    BY DEF Asked, Transition, Reasons
  <2>2. LET t == Observation("server.validated", None) IN
        t \in Asked /\ t.kind = "observe" /\ t.type \notin EndTypes
    BY DEF Asked, Observation, Observations, EndTypes
  <2> QED BY <2>1, <2>2 DEF Enter, ServerValidated
<1>5. next \in Steps /\ "handle" \in Steps /\ "other" \in Errors
  BY DEF Steps, Body, Handlers, Errors
<1>6. \/ Grows(r) /\ Reaches(c, mem[c], next)
      \/ /\ (log' = log /\ st' = st) \/ Grows(r)
         /\ Reaches(c, n, "handle") \/ Ends(c)
  BY <1>2, <1>4, <1>5, DurableReach
<1>7. Steady /\ st'.state \notin Terminal
  <2>1. (log' = log /\ st' = st) \/ Grows(r)
    BY <1>6
  <2>2. (r.kind = "transition" => r.reason # Placeholder /\ r.to \notin Terminal)
    BY <1>4 DEF Placeholder, Terminal
  <2> QED BY <1>2, <1>3, <1>4, <2>1, <2>2, SteadyPair
<1>8. /\ files' = NoFiles /\ files'.result = "none" /\ files'.transcript = mem[c].evidence
      /\ files'.metadata.status \notin Final /\ ~SomeInterrupted' /\ ~SomeCompleted'
      /\ ~mem[c].evidence /\ ~mem[c].pending /\ ~mem[c].completed
  <2>1. ~mem[c].evidence /\ ~mem[c].pending /\ ~mem[c].completed /\ files' = NoFiles
        /\ mem[c].evidence \in BOOLEAN
    BY <1>1, <1>2, <1>3 DEF BodyKeeps, Memory, Unanswered, Early
  <2> QED BY <1>2, <1>7, <2>1 DEF Steady, NoFiles, NoMetadata, Final, Results
<1>9. CASE Reaches(c, n, "handle") \/ Ends(c)
  <2>1. /\ n.known = mem[c].known /\ n.session = mem[c].session /\ n.started = mem[c].started
        /\ n.pending = mem[c].pending /\ n.completed = mem[c].completed
        /\ n.evidence = mem[c].evidence /\ n.meta = mem[c].meta /\ n.error = "other"
    BY <1>2, <1>5, NotedFields
  <2> HIDE DEF n
  <2>2. pc'[c] = "handle" => VariablesAgree(c)'
    <3>1. pc'[c] = "handle" => mem'[c] = n /\ worker' = worker
      BY <1>9 DEF Ends, Vanishes, Reaches
    <3> QED BY <1>2, <1>3, <1>7, <2>1, <3>1, VariablesStay DEF Steady, remote, Answered
  <2> QED BY <1>1, <1>2, <1>5, <1>7, <1>8, <1>9, <2>2, BodyRaises DEF Steady, n
<1>10. CASE Reaches(c, mem[c], next)
  <2>1. BodyKeeps(c)'
    BY <1>8, <1>10
       DEF BodyKeeps, Reaches, Unanswered, Answered, Early, Unsent
  <2>2. HandlersKeep(c)'
    BY <1>10 DEF HandlersKeep, Reaches, Closing
  <2>3. VariablesAgree(c)'
    BY <1>2, <1>3, <1>7, <1>10, VariablesStay DEF Reaches, Steady, remote, Answered
  <2>4. EndsKeep(c)'
    BY <1>7, <1>8 DEF EndsKeep
  <2> QED BY <1>2, <1>7, <1>10, <2>1, <2>2, <2>3, <2>4, OwnerKeeps DEF Keeps, Reaches, Steady
<1> QED BY <1>6, <1>9, <1>10

\* Steps of the body that write a file: what they have to show is that the files
\* stay true, that an error keeps what was installed, and that success is Keeps.
LEMMA BodyWriteKeeps ==
    ASSUME IInv, RInv, NEW c \in Controllers, pc[c] \in Body \ {"initial", "finish"},
           UNCHANGED <<pair, remote, signalled>>, NEW a, NEW v, Fits(a, v), NEW m \in Memory,
           NEW done \in Memory, NEW next \in Steps,
           WriteFile(c, a, v, m, done, next, "handle"),
           m.known = mem[c].known, SameInvocation(m, mem[c]), m.evidence = mem[c].evidence,
           m.started => m.meta.session = m.session,
           m.exit = mem[c].exit, done.exit = mem[c].exit,
           Touched(a, v) => RecordsTruthful',
           Touched(a, v) /\ (a \in Immutable => files'[a] = files[a]) =>
               m.pending \/ (files'.result = "none" /\ files'.transcript = m.evidence),
           a \in Immutable => worker[c].step = "answered",
           Steady /\ Touched(a, v) /\ files'[a] = v /\ Reaches(c, done, next) => Keeps(c)'
    PROVE  RInv' /\ Frozen
<1>1. pc[c] \in Body \ {"initial"} /\ pc[c] # "finish"
  OBVIOUS
<1>2. /\ TypeOK /\ mem[c] \in Memory /\ Active(c) /\ Kept /\ VariablesAgree(c) /\ mem[c].known
      /\ log # << >> /\ ~SomeInterrupted /\ ~SomeCompleted /\ st.state \notin Terminal
  BY <1>1, BodyIsOpen
<1>3. "handle" \in Steps /\ {"other", "installed"} \subseteq Errors \ {"unexpected"}
  BY DEF Steps, Handlers, Errors
<1>4. /\ Touched(a, v)
      /\ \/ files'[a] = v /\ Reaches(c, done, next)
         \/ Ends(c)
         \/ \E error \in {"other", "installed"} :
               /\ Reaches(c, Noted(m, error, "handle"), "handle")
               /\ error = "installed" => a \in Immutable
               /\ error = "other" /\ a \in Immutable => files'[a] = files[a]
  BY <1>2, <1>3, WriteReach
<1>5. Steady /\ ~SomeInterrupted' /\ ~SomeCompleted' /\ st'.state \notin Terminal
  <2>1. UNCHANGED <<log, st, remote>> /\ RecordsTruthful'
    BY <1>4 DEF pair
  <2>2. Steady
    BY <1>2, <2>1, SteadyWrite
  <2> QED BY <1>2, <2>1, <2>2 DEF Steady
<1>6. CASE files'[a] = v /\ Reaches(c, done, next)
  <2>1. Keeps(c)' /\ Alone(c) /\ mem'[c] = done
    BY <1>4, <1>5, <1>6 DEF Reaches
  <2> QED BY <1>2, <1>5, <2>1, OwnerKeeps DEF Steady
<1>7. CASE Ends(c)
  BY <1>2, <1>5, <1>7, OwnerEnds DEF Steady
<1>8. ASSUME NEW error \in {"other", "installed"},
             Reaches(c, Noted(m, error, "handle"), "handle"),
             error = "installed" => a \in Immutable,
             error = "other" /\ a \in Immutable => files'[a] = files[a]
      PROVE  RInv' /\ Frozen
  <2> DEFINE n == Noted(m, error, "handle")
  <2>1. /\ n.known = m.known /\ n.session = m.session /\ n.started = m.started
        /\ n.pending = m.pending /\ n.completed = m.completed
        /\ n.evidence = m.evidence /\ n.meta = m.meta /\ n.error = error
    BY <1>3, NotedFields
  <2>2. mem'[c] = n /\ worker' = worker /\ pc'[c] = "handle"
    BY <1>8 DEF Reaches
  <2> HIDE DEF n
  <2>3. VariablesAgree(c)'
    BY <1>2, <1>5, <1>8, <2>1, <2>2 DEF VariablesAgree, SameInvocation, Steady, remote, Answered
  <2>4. m.pending \/ error = "installed" \/ (files'.result = "none" /\ files'.transcript = m.evidence)
    BY <1>4, <1>8
  <2> QED BY <1>1, <1>2, <1>3, <1>5, <1>8, <2>3, <2>4, BodyRaises DEF Steady
<1> QED BY <1>4, <1>6, <1>7, <1>8

LEMMA RecordKeeps ==
    ASSUME IInv, RInv, NEW c \in Controllers, Allocate(c) \/ WritePrompt(c)
    PROVE  RInv' /\ Frozen
<1> DEFINE m == [mem[c] EXCEPT !.meta = Planned]
           n == Noted(mem[c], "other", "handle")
<1>1. pc[c] \in {"allocate", "prompt"} /\ pc[c] \in Body \ {"initial"}
      /\ pc[c] \in Body \ {"initial", "finish"}
  BY DEF Allocate, WritePrompt, Body
<1>2. /\ TypeOK /\ mem[c] \in Memory /\ Active(c) /\ Busy(c) /\ Kept /\ BodyKeeps(c)
      /\ VariablesAgree(c) /\ mem[c].known /\ log # << >> /\ ~SomeInterrupted /\ ~SomeCompleted
      /\ st.state \notin Terminal
  BY <1>1, BodyIsOpen
<1>3. UNCHANGED <<pair, remote, signalled>>
  BY DEF Allocate, WritePrompt
<1>4. {"prompt", "look", "handle"} \subseteq Steps /\ "other" \in Errors /\ Planned \in Metadata
      /\ Planned.status \notin Final
  BY DEF Steps, Body, Handlers, Errors, Planned, NoMetadata, Metadata, Final, Results
<1>5. /\ m \in Memory /\ m.known = mem[c].known /\ SameInvocation(m, mem[c])
      /\ m.evidence = mem[c].evidence /\ m.exit = mem[c].exit /\ m.error = mem[c].error
      /\ SameInvocation(mem[c], mem[c])
  BY <1>2, <1>4 DEF Memory, SameInvocation
<1>6. /\ files.result = "none" /\ ~files.transcript /\ files.metadata.status \notin Final
      /\ ~mem[c].evidence /\ ~mem[c].pending /\ ~mem[c].completed
      /\ ~mem[c].started /\ worker[c].step = "none" /\ mem[c].evidence = files.transcript
      /\ mem[c].session = None
  <2>1. files.transcript \in BOOLEAN /\ mem[c].evidence \in BOOLEAN
    BY <1>2 DEF TypeOK, FilesSet, Memory
  <2> QED BY <1>1, <1>2, <2>1 DEF BodyKeeps, Busy, Quiet, Unanswered, Early
<1> HIDE DEF m
<1>7. ASSUME NEW a \in {"metadata", "prompt"}, NEW v, a = "metadata" => v = Planned, Touched(a, v)
      PROVE  /\ RecordsTruthful' /\ files'.result = "none" /\ files'.transcript = mem[c].evidence
             /\ ~files'.transcript /\ files'.metadata.status \notin Final
  <2>1. files'.result = files.result /\ files'.transcript = files.transcript
        /\ files'.metadata \in {files.metadata, Planned}
    BY <1>7 DEF Touched, Artifacts, Immutable
  <2> QED BY <1>4, <1>6, <2>1 DEF RecordsTruthful
<1>8. ASSUME NEW next \in {"prompt", "look"}, NEW done, Steady,
             done.known = mem[c].known, SameInvocation(done, mem[c]),
             done.evidence = mem[c].evidence, done.error = mem[c].error,
             files'.result = "none", ~files'.transcript, files'.metadata.status \notin Final,
             Reaches(c, done, next)
      PROVE  Keeps(c)'
  <2>1. BodyKeeps(c)'
    BY <1>6, <1>8
       DEF BodyKeeps, Reaches, SameInvocation, Unanswered, Answered, Early, Unsent
  <2>2. HandlersKeep(c)'
    BY <1>8 DEF HandlersKeep, Reaches, Closing
  <2>3. VariablesAgree(c)'
    BY <1>2, <1>6, <1>8 DEF VariablesAgree, Reaches, Steady, Answered, SameInvocation
  <2>4. EndsKeep(c)'
    BY <1>2, <1>3, <1>8 DEF EndsKeep, Steady, pair
  <2> QED BY <2>1, <2>2, <2>3, <2>4 DEF Keeps
<1>9. CASE Allocate(c) /\ files.dir
  <2>1. UNCHANGED files /\ Raises(c, mem[c], "other", "handle")
    BY <1>9 DEF Allocate
  <2>2. Reaches(c, n, "handle")
    BY <1>2, <1>4, <2>1, ErrorReach
  <2>3. Steady
    BY <1>2, <1>3, <2>1, SteadyUnchanged DEF pair, remote
  <2>4. VariablesAgree(c)'
    <3>1. /\ n.known = mem[c].known /\ n.session = mem[c].session /\ n.started = mem[c].started
          /\ n.pending = mem[c].pending /\ n.completed = mem[c].completed
          /\ n.evidence = mem[c].evidence /\ n.meta = mem[c].meta /\ n.error = "other"
      BY <1>2, <1>4, NotedFields
    <3> HIDE DEF n
    <3> QED BY <1>2, <1>3, <2>2, <2>3, <3>1, VariablesStay DEF Reaches, Steady, remote, Answered
  <2>5. /\ files'.result = "none" /\ files'.transcript = mem[c].evidence
        /\ ~SomeInterrupted' /\ ~SomeCompleted' /\ st'.state \notin Terminal
    BY <1>2, <1>3, <1>6, <2>1, <2>3 DEF Steady, pair
  <2> QED BY <1>1, <1>2, <1>4, <2>2, <2>3, <2>4, <2>5, BodyRaises DEF Steady
<1>10. CASE Allocate(c) /\ ~files.dir
  <2>1. WriteFile(c, "metadata", Planned, m, m, "prompt", "handle")
    BY <1>10 DEF Allocate, m
  <2>2. ~m.started
    BY <1>5, <1>6 DEF SameInvocation
  <2>3. "metadata" \notin Immutable /\ Fits("metadata", Planned)
    BY <1>4 DEF Immutable, Fits
  <2>4. Touched("metadata", Planned) =>
            /\ RecordsTruthful' /\ files'.result = "none" /\ files'.transcript = m.evidence
            /\ ~files'.transcript /\ files'.metadata.status \notin Final
    BY <1>5, <1>7
  <2>5. Steady /\ Touched("metadata", Planned) /\ Reaches(c, m, "prompt") => Keeps(c)'
    BY <1>5, <1>8, <2>4
  <2> QED BY <1>1, <1>3, <1>4, <1>5, <2>1, <2>2, <2>3, <2>4, <2>5, BodyWriteKeeps
<1>11. CASE WritePrompt(c)
  <2>1. WriteFile(c, "prompt", TRUE, mem[c], mem[c], "look", "handle")
    BY <1>11 DEF WritePrompt
  <2>2. "prompt" \notin Immutable /\ Fits("prompt", TRUE)
    BY DEF Immutable, Fits
  <2>3. Touched("prompt", TRUE) =>
            /\ RecordsTruthful' /\ files'.result = "none" /\ files'.transcript = mem[c].evidence
            /\ ~files'.transcript /\ files'.metadata.status \notin Final
    BY <1>7
  <2>4. Steady /\ Touched("prompt", TRUE) /\ Reaches(c, mem[c], "look") => Keeps(c)'
    BY <1>5, <1>8, <2>3
  <2> QED BY <1>1, <1>2, <1>3, <1>4, <1>5, <1>6, <2>1, <2>2, <2>3, <2>4, BodyWriteKeeps
<1> QED BY <1>9, <1>10, <1>11

LEMMA RunningKeeps ==
    ASSUME IInv, RInv, NEW c \in Controllers, Running(c)
    PROVE  RInv' /\ Frozen
<1> DEFINE m == [mem[c] EXCEPT !.meta.status = "running"]
<1>1. pc[c] = "running" /\ pc[c] \in Body \ {"initial"} /\ pc[c] \in Body \ {"initial", "finish"}
  BY DEF Running, Body
<1>2. /\ TypeOK /\ mem[c] \in Memory /\ Busy(c) /\ BodyKeeps(c)
      /\ VariablesAgree(c) /\ mem[c].known /\ log # << >> /\ ~SomeInterrupted /\ ~SomeCompleted
      /\ st.state \notin Terminal
  BY <1>1, BodyIsOpen
<1>3. /\ UNCHANGED <<pair, remote, signalled>>
      /\ WriteFile(c, "metadata", m.meta, m, m, "submit", "handle")
  BY DEF Running
<1>4. /\ m \in Memory /\ m.meta \in Metadata /\ m.known = mem[c].known
      /\ SameInvocation(m, mem[c]) /\ m.meta.session = mem[c].meta.session
      /\ m.evidence = mem[c].evidence /\ m.exit = mem[c].exit /\ m.error = mem[c].error
      /\ m.meta.status = "running"
  BY <1>2 DEF Memory, Metadata, SameInvocation
<1> HIDE DEF m
<1>5. /\ files.result = "none" /\ ~files.transcript /\ files.metadata.status \notin Final
      /\ ~mem[c].evidence /\ ~mem[c].pending /\ ~mem[c].completed
      /\ mem[c].evidence = files.transcript /\ mem[c].started
      /\ mem[c].meta.session = mem[c].session /\ worker[c].step = "none"
  <2>1. files.transcript \in BOOLEAN /\ mem[c].evidence \in BOOLEAN
    BY <1>2 DEF TypeOK, FilesSet, Memory
  <2> QED BY <1>1, <1>2, <2>1 DEF BodyKeeps, Busy, VariablesAgree, Unanswered, Unsent, Early,
             Body
<1>6. Touched("metadata", m.meta) =>
          /\ RecordsTruthful' /\ files'.result = "none" /\ files'.transcript = m.evidence
          /\ ~files'.transcript /\ files'.metadata.status \notin Final
  BY <1>4, <1>5 DEF Touched, Artifacts, Immutable, RecordsTruthful, Final, Results
<1>7. ASSUME Steady, Touched("metadata", m.meta), Reaches(c, m, "submit")
      PROVE  Keeps(c)'
  <2>1. BodyKeeps(c)'
    BY <1>4, <1>5, <1>6, <1>7
       DEF BodyKeeps, Reaches, SameInvocation, Unanswered, Answered, Early, Unsent
  <2>2. HandlersKeep(c)'
    BY <1>7 DEF HandlersKeep, Reaches, Closing
  <2>3. VariablesAgree(c)'
    BY <1>2, <1>4, <1>5, <1>7 DEF VariablesAgree, Reaches, Steady, Answered, SameInvocation
  <2>4. EndsKeep(c)'
    BY <1>2, <1>3, <1>7 DEF EndsKeep, Steady, pair
  <2> QED BY <2>1, <2>2, <2>3, <2>4 DEF Keeps
<1>8. "submit" \in Steps /\ "metadata" \notin Immutable /\ Fits("metadata", m.meta)
      /\ (m.started => m.meta.session = m.session)
  BY <1>4, <1>5 DEF Steps, Body, Immutable, Fits, SameInvocation
<1> QED BY <1>1, <1>3, <1>4, <1>6, <1>7, <1>8, BodyWriteKeeps

\* Evidence of a violating answer: an error that follows says so.
LEMMA EvidenceKeeps ==
    ASSUME IInv, RInv, NEW c \in Controllers, KeepEvidence(c)
    PROVE  RInv' /\ Frozen
<1> DEFINE n == [mem[c] EXCEPT !.evidence = TRUE, !.error = "other"]
<1>1. pc[c] = "evidence" /\ pc[c] \in Body \ {"initial"} /\ pc[c] \in Body \ {"initial", "finish"}
  BY DEF KeepEvidence, Body
<1>2. /\ TypeOK /\ mem[c] \in Memory /\ Busy(c) /\ BodyKeeps(c)
      /\ VariablesAgree(c) /\ mem[c].known /\ log # << >> /\ ~SomeInterrupted /\ ~SomeCompleted
      /\ st.state \notin Terminal
  BY <1>1, BodyIsOpen
<1>3. /\ UNCHANGED <<pair, remote, signalled>>
      /\ WriteFile(c, "transcript", TRUE, mem[c], n, "handle", "handle")
  BY DEF KeepEvidence
<1>4. /\ n \in Memory /\ n.known = mem[c].known /\ SameInvocation(n, mem[c])
      /\ n.meta = mem[c].meta /\ n.evidence = TRUE /\ n.exit = mem[c].exit /\ n.error = "other"
      /\ SameInvocation(mem[c], mem[c])
  BY <1>2 DEF Memory, SameInvocation, Errors
<1> HIDE DEF n
<1>5. /\ files.result = "none" /\ ~files.transcript /\ files.metadata.status \notin Final
      /\ mem[c].evidence = files.transcript /\ mem[c].started /\ worker[c].step = "answered"
      /\ mem[c].meta.session = mem[c].session /\ ~mem[c].pending /\ ~mem[c].completed
  <2>1. files.transcript \in BOOLEAN /\ mem[c].evidence \in BOOLEAN
    BY <1>2 DEF TypeOK, FilesSet, Memory
  <2> QED BY <1>1, <1>2, <2>1
          DEF BodyKeeps, Busy, VariablesAgree, Unanswered, Unsent, Early, Body
<1>6. Touched("transcript", TRUE) =>
          RecordsTruthful' /\ files'.result = "none" /\ files'.metadata.status \notin Final
  BY <1>5 DEF Touched, Artifacts, Immutable, RecordsTruthful
<1>7. ASSUME Steady, Touched("transcript", TRUE), files'["transcript"] = TRUE,
             Reaches(c, n, "handle")
      PROVE  Keeps(c)'
  <2>1. BodyKeeps(c)'
    BY <1>7 DEF BodyKeeps, Reaches, Unanswered, Answered, Early, Unsent
  <2>2. HandlersKeep(c)'
    BY <1>4, <1>6, <1>7 DEF HandlersKeep, Reaches, Closing
  <2>3. VariablesAgree(c)'
    BY <1>2, <1>3, <1>4, <1>5, <1>7
       DEF VariablesAgree, Reaches, Steady, Answered, SameInvocation, remote
  <2>4. EndsKeep(c)'
    BY <1>2, <1>3, <1>7 DEF EndsKeep, Steady, pair
  <2> QED BY <2>1, <2>2, <2>3, <2>4 DEF Keeps
<1>8. "handle" \in Steps /\ Fits("transcript", TRUE) /\ "transcript" \in Immutable
  BY DEF Steps, Handlers, Fits, Immutable
<1>9. Touched("transcript", TRUE) /\ files'["transcript"] = files["transcript"] =>
          files'.result = "none" /\ files'.transcript = mem[c].evidence
  BY <1>5, <1>6
<1> QED BY <1>1, <1>2, <1>3, <1>4, <1>5, <1>6, <1>7, <1>8, <1>9, BodyWriteKeeps

LEMMA ResultKeeps ==
    ASSUME IInv, RInv, NEW c \in Controllers, WriteResult(c)
    PROVE  RInv' /\ Frozen
<1> DEFINE n == [mem[c] EXCEPT !.pending = TRUE]
           v == mem[c].answer
<1>1. pc[c] = "result" /\ pc[c] \in Body \ {"initial"} /\ pc[c] \in Body \ {"initial", "finish"}
  BY DEF WriteResult, Body
<1>2. /\ TypeOK /\ mem[c] \in Memory /\ Busy(c) /\ BodyKeeps(c)
      /\ VariablesAgree(c) /\ mem[c].known /\ log # << >> /\ ~SomeInterrupted /\ ~SomeCompleted
      /\ st.state \notin Terminal
  BY <1>1, BodyIsOpen
<1>3. /\ UNCHANGED <<pair, remote, signalled>>
      /\ WriteFile(c, "result", v, mem[c], n, "transcript", "handle")
  BY DEF WriteResult
<1>4. /\ n \in Memory /\ n.known = mem[c].known /\ n.session = mem[c].session
      /\ n.started = mem[c].started /\ n.completed = mem[c].completed /\ n.pending = TRUE
      /\ n.meta = mem[c].meta /\ n.evidence = mem[c].evidence /\ n.exit = mem[c].exit
      /\ n.error = mem[c].error /\ n.answer = v /\ SameInvocation(mem[c], mem[c])
  BY <1>2 DEF Memory, SameInvocation
<1> HIDE DEF n
<1>5. /\ files.result = "none" /\ ~files.transcript /\ files.metadata.status \notin Final
      /\ mem[c].evidence = files.transcript /\ mem[c].started /\ worker[c].step = "answered"
      /\ mem[c].meta.session = mem[c].session /\ ~mem[c].completed
      /\ v \in Results /\ prompts[mem[c].session] = 1
  <2>1. files.transcript \in BOOLEAN /\ mem[c].evidence \in BOOLEAN
    BY <1>2 DEF TypeOK, FilesSet, Memory
  <2> QED BY <1>1, <1>2, <2>1
          DEF BodyKeeps, Busy, VariablesAgree, Unanswered, Answered, Unsent, Early, Body
<1>6. Touched("result", v) =>
          RecordsTruthful' /\ files'.transcript = mem[c].evidence /\ ~files'.transcript
          /\ files'.metadata.status \notin Final
  BY <1>5 DEF Touched, Artifacts, Immutable, RecordsTruthful
<1>7. ASSUME Steady, Touched("result", v), files'["result"] = v, Reaches(c, n, "transcript")
      PROVE  Keeps(c)'
  <2>1. BodyKeeps(c)'
    BY <1>3, <1>4, <1>5, <1>6, <1>7
       DEF BodyKeeps, Reaches, Unanswered, Answered, Early, Unsent, remote
  <2>2. HandlersKeep(c)'
    BY <1>7 DEF HandlersKeep, Reaches, Closing
  <2>3. VariablesAgree(c)'
    BY <1>2, <1>3, <1>4, <1>5, <1>7 DEF VariablesAgree, Reaches, Steady, Answered, remote
  <2>4. EndsKeep(c)'
    BY <1>2, <1>3, <1>7 DEF EndsKeep, Steady, pair
  <2> QED BY <2>1, <2>2, <2>3, <2>4 DEF Keeps
<1>8. "transcript" \in Steps /\ Fits("result", v) /\ "result" \in Immutable
  BY <1>5 DEF Steps, Body, Fits, Immutable
<1>9. Touched("result", v) /\ files'["result"] = files["result"] =>
          files'.result = "none" /\ files'.transcript = mem[c].evidence
  BY <1>5, <1>6
<1> HIDE DEF v
<1> QED BY <1>1, <1>2, <1>3, <1>4, <1>5, <1>6, <1>7, <1>8, <1>9, BodyWriteKeeps

LEMMA TranscriptKeeps ==
    ASSUME IInv, RInv, NEW c \in Controllers, WriteTranscript(c)
    PROVE  RInv' /\ Frozen
<1>1. /\ pc[c] = "transcript" /\ pc[c] \in Body \ {"initial"}
      /\ pc[c] \in Body \ {"initial", "finish"}
  BY DEF WriteTranscript, Body
<1>2. /\ TypeOK /\ mem[c] \in Memory /\ Busy(c) /\ BodyKeeps(c)
      /\ VariablesAgree(c) /\ mem[c].known /\ log # << >> /\ ~SomeInterrupted /\ ~SomeCompleted
      /\ st.state \notin Terminal
  BY <1>1, BodyIsOpen
<1>3. /\ UNCHANGED <<pair, remote, signalled>>
      /\ WriteFile(c, "transcript", TRUE, mem[c], mem[c], "terminal", "handle")
  BY DEF WriteTranscript
<1>4. /\ files.result = mem[c].answer /\ ~files.transcript /\ files.metadata.status \notin Final
      /\ mem[c].started /\ worker[c].step = "answered" /\ mem[c].pending
      /\ mem[c].meta.session = mem[c].session
      /\ mem[c].answer \in Results /\ prompts[mem[c].session] = 1
  BY <1>1, <1>2 DEF BodyKeeps, Busy, VariablesAgree, Answered, Unsent, Early, Body
<1>5. Touched("transcript", TRUE) =>
          RecordsTruthful' /\ files'.result = files.result /\ files'.metadata.status \notin Final
  BY <1>4 DEF Touched, Artifacts, Immutable, RecordsTruthful
<1>6. ASSUME Steady, Touched("transcript", TRUE), files'["transcript"] = TRUE,
             Reaches(c, mem[c], "terminal")
      PROVE  Keeps(c)'
  <2>1. BodyKeeps(c)'
    BY <1>3, <1>4, <1>5, <1>6
       DEF BodyKeeps, Reaches, Unanswered, Answered, Early, Unsent, remote
  <2>2. HandlersKeep(c)'
    BY <1>6 DEF HandlersKeep, Reaches, Closing
  <2>3. VariablesAgree(c)'
    BY <1>2, <1>3, <1>4, <1>6, VariablesStay DEF Reaches, Steady, Answered, remote
  <2>4. EndsKeep(c)'
    BY <1>2, <1>3, <1>6 DEF EndsKeep, Steady, pair
  <2> QED BY <2>1, <2>2, <2>3, <2>4 DEF Keeps
<1>7. "terminal" \in Steps /\ Fits("transcript", TRUE) /\ SameInvocation(mem[c], mem[c])
  BY DEF Steps, Body, Fits, SameInvocation
<1> QED BY <1>1, <1>2, <1>3, <1>4, <1>5, <1>6, <1>7, BodyWriteKeeps

\* Terminal metadata is written when the result and the transcript are there.
LEMMA CloseCompletedKeeps ==
    ASSUME IInv, RInv, NEW c \in Controllers, CloseCompleted(c)
    PROVE  RInv' /\ Frozen
<1> DEFINE n == [mem[c] EXCEPT !.meta.status = mem[c].answer, !.meta.result = mem[c].answer,
                               !.meta.transcript = "kept"]
<1>1. /\ pc[c] = "terminal" /\ pc[c] \in Body \ {"initial"}
      /\ pc[c] \in Body \ {"initial", "finish"}
  BY DEF CloseCompleted, Body
<1>2. /\ TypeOK /\ mem[c] \in Memory /\ Busy(c) /\ BodyKeeps(c)
      /\ VariablesAgree(c) /\ mem[c].known /\ log # << >> /\ ~SomeInterrupted /\ ~SomeCompleted
      /\ st.state \notin Terminal
  BY <1>1, BodyIsOpen
<1>3. /\ UNCHANGED <<pair, remote, signalled>>
      /\ WriteFile(c, "metadata", n.meta, n, n, "completed", "handle")
  BY DEF CloseCompleted
<1>4. /\ files.result = mem[c].answer /\ files.transcript /\ files.metadata.status \notin Final
      /\ mem[c].started /\ worker[c].step = "answered" /\ mem[c].pending
      /\ mem[c].meta.session = mem[c].session
      /\ mem[c].answer \in Results /\ prompts[mem[c].session] = 1
      /\ files.transcript = TRUE
  <2>1. files.transcript \in BOOLEAN
    BY <1>2 DEF TypeOK, FilesSet
  <2> QED BY <1>1, <1>2, <2>1 DEF BodyKeeps, Busy, VariablesAgree, Answered, Unsent, Early, Body
<1>5. /\ n \in Memory /\ n.meta \in Metadata /\ n.known = mem[c].known
      /\ n.session = mem[c].session /\ n.started = mem[c].started
      /\ n.pending = mem[c].pending /\ n.completed = mem[c].completed
      /\ n.meta.session = mem[c].meta.session /\ n.meta.status = mem[c].answer
      /\ n.meta.result = mem[c].answer /\ n.meta.transcript = "kept" /\ n.answer = mem[c].answer
      /\ n.evidence = mem[c].evidence /\ n.exit = mem[c].exit /\ n.error = mem[c].error
  BY <1>2, <1>4 DEF Memory, Metadata, Final
<1> HIDE DEF n
<1>6. Touched("metadata", n.meta) =>
          RecordsTruthful' /\ files'.result = files.result /\ files'.transcript = files.transcript
  BY <1>4, <1>5 DEF Touched, Artifacts, Immutable, RecordsTruthful
<1>7. ASSUME Steady, Touched("metadata", n.meta), files'["metadata"] = n.meta,
             Reaches(c, n, "completed")
      PROVE  Keeps(c)'
  <2>1. BodyKeeps(c)'
    BY <1>3, <1>4, <1>5, <1>6, <1>7
       DEF BodyKeeps, Reaches, Unanswered, Answered, Early, Unsent, remote
  <2>2. HandlersKeep(c)'
    BY <1>7 DEF HandlersKeep, Reaches, Closing
  <2>3. VariablesAgree(c)'
    BY <1>2, <1>3, <1>4, <1>5, <1>7 DEF VariablesAgree, Reaches, Steady, Answered, remote
  <2>4. EndsKeep(c)'
    BY <1>2, <1>3, <1>7 DEF EndsKeep, Steady, pair
  <2> QED BY <2>1, <2>2, <2>3, <2>4 DEF Keeps
<1>8. "completed" \in Steps /\ Fits("metadata", n.meta) /\ SameInvocation(n, mem[c])
      /\ n.meta.session = n.session
  BY <1>4, <1>5 DEF Steps, Body, Fits, SameInvocation
<1> QED BY <1>1, <1>3, <1>4, <1>5, <1>6, <1>7, <1>8, BodyWriteKeeps

\* Steps of the body that touch neither the log nor a file, when they fail.
LEMMA MoveRaises ==
    ASSUME IInv, RInv, NEW c \in Controllers, pc[c] \in Body \ {"initial"},
           UNCHANGED <<log, st, files, prompts, aborts>>, NEW m \in Memory,
           m.known = mem[c].known, m.started = mem[c].started, m.pending = mem[c].pending,
           m.completed = mem[c].completed, m.evidence = mem[c].evidence, m.meta = mem[c].meta,
           m.exit = mem[c].exit,
           \/ m.session = mem[c].session
           \/ ~mem[c].started /\ worker[c].step = "none",
           NEW error \in Errors \ {"unexpected", "installed"},
           Reaches(c, Noted(m, error, "handle"), "handle")
    PROVE  RInv' /\ Frozen
<1> DEFINE n == Noted(m, error, "handle")
<1>1. /\ TypeOK /\ mem[c] \in Memory /\ Busy(c) /\ Kept /\ BodyKeeps(c) /\ pc[c] \in Body
      /\ VariablesAgree(c) /\ EndsKeep(c) /\ mem[c].known /\ log # << >> /\ ~SomeInterrupted
      /\ st.state \notin Terminal /\ (pc[c] # "finish" => ~SomeCompleted)
  BY BodyIsOpen
<1>2. Steady
  BY <1>1, SteadyUnchanged
<1>3. /\ n.known = m.known /\ n.session = m.session /\ n.started = m.started
      /\ n.pending = m.pending /\ n.completed = m.completed
      /\ n.evidence = m.evidence /\ n.meta = m.meta /\ n.error = error
  BY NotedFields
<1>4. mem'[c] = n /\ worker' = worker /\ pc'[c] = "handle"
  BY DEF Reaches
<1> HIDE DEF n
<1>5. VariablesAgree(c)'
  BY <1>1, <1>2, <1>3, <1>4 DEF VariablesAgree, Steady, Answered
<1>6. m.completed \/ m.pending \/ (files'.result = "none" /\ files'.transcript = m.evidence)
  <2>1. files.transcript \in BOOLEAN /\ mem[c].evidence \in BOOLEAN
    BY <1>1 DEF TypeOK, FilesSet, Memory
  <2>2. CASE pc[c] \in Unanswered
    BY <1>1, <2>1, <2>2 DEF BodyKeeps
  <2>3. CASE pc[c] \notin Unanswered
    BY <1>1, <2>3 DEF Busy, Unanswered, Early, Unsent, Body
  <2> QED BY <2>2, <2>3
<1>7. (SomeCompleted' => m.pending \/ m.completed) /\ ~SomeInterrupted' /\ st'.state \notin Terminal
  BY <1>1, <1>2 DEF EndsKeep, Steady
<1> QED BY <1>1, <1>2, <1>4, <1>5, <1>6, <1>7, BodyRaises DEF Steady, n

LEMMA LookKeeps ==
    ASSUME IInv, RInv, NEW c \in Controllers, Look(c)
    PROVE  RInv' /\ Frozen
<1> DEFINE m == [mem[c] EXCEPT !.others = opened]
<1>1. pc[c] = "look" /\ pc[c] \in Body \ {"initial"}
  BY DEF Look, Body
<1>2. /\ TypeOK /\ mem[c] \in Memory /\ Active(c) /\ Busy(c) /\ Kept /\ BodyKeeps(c)
      /\ VariablesAgree(c) /\ mem[c].known /\ ~SomeInterrupted /\ ~SomeCompleted
      /\ st.state \notin Terminal
  BY <1>1, BodyIsOpen
<1>3. {"create", "handle"} \subseteq Steps /\ {"other", "signal"} \subseteq Errors
  BY DEF Steps, Body, Handlers, Errors
<1>4. UNCHANGED <<log, st, files, prompts, aborts>>
  BY DEF Look, pair, remote
<1>5. \/ \E error \in {"other", "signal"} :
            Fails(c, mem[c], error, "handle") \/ Raises(c, mem[c], error, "handle")
      \/ Returns(c, m, "create")
  BY DEF Look
<1>6. ASSUME NEW error \in {"other", "signal"},
             Fails(c, mem[c], error, "handle") \/ Raises(c, mem[c], error, "handle")
      PROVE  RInv' /\ Frozen
  <2>1. Reaches(c, Noted(mem[c], error, "handle"), "handle")
    BY <1>2, <1>3, <1>6, ErrorReach
  <2> QED BY <1>1, <1>2, <1>3, <1>4, <2>1, MoveRaises
<1>7. CASE Returns(c, m, "create")
  <2>1. /\ m \in Memory /\ m.known = mem[c].known /\ m.session = mem[c].session
        /\ m.started = mem[c].started /\ m.pending = mem[c].pending
        /\ m.completed = mem[c].completed /\ m.evidence = mem[c].evidence /\ m.meta = mem[c].meta
        /\ m.exit = mem[c].exit /\ m.error = mem[c].error
    BY <1>2 DEF Memory, TypeOK
  <2> HIDE DEF m
  <2>2. Reaches(c, m, "create")
    BY <1>2, <1>3, <1>7, <2>1, ReturnsReach
  <2>3. Steady
    BY <1>2, <1>4, SteadyUnchanged
  <2>4. BodyKeeps(c)'
    BY <1>1, <1>2, <1>4, <2>1, <2>2
       DEF BodyKeeps, Reaches, Unanswered, Answered, Early, Unsent
  <2>5. HandlersKeep(c)'
    BY <2>2 DEF HandlersKeep, Reaches, Closing
  <2>6. VariablesAgree(c)'
    BY <1>2, <1>4, <2>1, <2>2, <2>3 DEF VariablesAgree, Reaches, Steady, Answered
  <2>7. EndsKeep(c)'
    BY <1>2, <1>4, <2>3 DEF EndsKeep, Steady
  <2> QED BY <1>2, <2>1, <2>2, <2>3, <2>4, <2>5, <2>6, <2>7, OwnerKeeps
             DEF Keeps, Reaches, Steady
<1> QED BY <1>5, <1>6, <1>7

LEMMA CreateKeeps ==
    ASSUME IInv, RInv, NEW c \in Controllers, Create(c)
    PROVE  RInv' /\ Frozen
<1> DEFINE trying == [mem[c] EXCEPT !.creating = TRUE]
           named(s) == [mem[c] EXCEPT !.session = s]
<1>1. pc[c] = "create" /\ pc[c] \in Body \ {"initial"}
  BY DEF Create, Body
<1>2. /\ TypeOK /\ mem[c] \in Memory /\ Active(c) /\ Busy(c) /\ Kept /\ BodyKeeps(c)
      /\ VariablesAgree(c) /\ mem[c].known /\ ~SomeInterrupted /\ ~SomeCompleted
      /\ st.state \notin Terminal
  BY <1>1, BodyIsOpen
<1>3. ~mem[c].started /\ worker[c].step = "none" /\ mem[c].others \subseteq Sessions
  BY <1>1, <1>2 DEF Busy, Quiet, Early, Memory
<1>4. {"started", "handle"} \subseteq Steps
      /\ {"other", "ambiguous"} \subseteq Errors \ {"unexpected", "installed"}
  BY DEF Steps, Body, Handlers, Errors
<1>5. UNCHANGED <<log, st, files, prompts, aborts>>
  BY DEF Create, pair
<1>6. \/ \E s \in Sessions : Returns(c, named(s), "started")
      \/ \E error \in {"other", "ambiguous"} : Fails(c, trying, error, "handle")
      \/ \E s \in mem[c].others : Fails(c, named(s), "other", "handle")
  BY DEF Create
<1>7. CASE \E error \in {"other", "ambiguous"} : Fails(c, trying, error, "handle")
  <2>1. PICK error \in {"other", "ambiguous"} : Fails(c, trying, error, "handle")
    BY <1>7
  <2>2. /\ trying \in Memory /\ trying.known = mem[c].known /\ trying.session = mem[c].session
        /\ trying.started = mem[c].started /\ trying.pending = mem[c].pending
        /\ trying.completed = mem[c].completed /\ trying.evidence = mem[c].evidence
        /\ trying.meta = mem[c].meta /\ trying.exit = mem[c].exit
    BY <1>2 DEF Memory
  <2> HIDE DEF trying
  <2>3. Reaches(c, Noted(trying, error, "handle"), "handle")
    BY <1>2, <1>4, <2>1, <2>2, ErrorReach
  <2> QED BY <1>1, <1>4, <1>5, <2>2, <2>3, MoveRaises
<1>8. ASSUME NEW s \in Sessions
      PROVE  /\ named(s) \in Memory /\ named(s).known = mem[c].known /\ named(s).session = s
             /\ named(s).started = mem[c].started /\ named(s).pending = mem[c].pending
             /\ named(s).completed = mem[c].completed /\ named(s).evidence = mem[c].evidence
             /\ named(s).meta = mem[c].meta /\ named(s).exit = mem[c].exit
             /\ named(s).error = mem[c].error
  BY <1>2 DEF Memory
<1>9. CASE \E s \in mem[c].others : Fails(c, named(s), "other", "handle")
  <2>1. PICK s \in Sessions : Fails(c, named(s), "other", "handle")
    BY <1>3, <1>9
  <2>2. named(s) \in Memory
    BY <1>8
  <2>3. Reaches(c, Noted(named(s), "other", "handle"), "handle")
    <3> HIDE DEF named
    <3> QED BY <1>2, <1>4, <2>1, <2>2, ErrorReach
  <2> HIDE DEF named
  <2> QED BY <1>1, <1>3, <1>4, <1>5, <1>8, <2>3, MoveRaises
<1>10. CASE \E s \in Sessions : Returns(c, named(s), "started")
  <2>1. PICK s \in Sessions : Returns(c, named(s), "started")
    BY <1>10
  <2> DEFINE m == named(s)
  <2>2. /\ m \in Memory /\ m.known = mem[c].known /\ m.session = s
        /\ m.started = mem[c].started /\ m.pending = mem[c].pending
        /\ m.completed = mem[c].completed /\ m.evidence = mem[c].evidence /\ m.meta = mem[c].meta
        /\ m.exit = mem[c].exit /\ m.error = mem[c].error /\ Returns(c, m, "started")
    BY <1>8, <2>1
  <2> HIDE DEF m
  <2>3. Reaches(c, m, "started")
    BY <1>2, <1>4, <2>2, ReturnsReach
  <2>4. Steady
    BY <1>2, <1>5, SteadyUnchanged
  <2>5. BodyKeeps(c)'
    BY <1>1, <1>2, <1>5, <2>2, <2>3
       DEF BodyKeeps, Reaches, Unanswered, Answered, Early, Unsent
  <2>6. HandlersKeep(c)'
    BY <2>3 DEF HandlersKeep, Reaches, Closing
  <2>7. VariablesAgree(c)'
    BY <1>2, <1>3, <1>5, <2>2, <2>3, <2>4 DEF VariablesAgree, Reaches, Steady, Answered
  <2>8. EndsKeep(c)'
    BY <1>2, <1>5, <2>4 DEF EndsKeep, Steady
  <2> QED BY <1>2, <2>2, <2>3, <2>4, <2>5, <2>6, <2>7, <2>8, OwnerKeeps
             DEF Keeps, Reaches, Steady
<1> QED BY <1>6, <1>7, <1>9, <1>10

LEMMA SubmitKeeps ==
    ASSUME IInv, RInv, NEW c \in Controllers, Submit(c)
    PROVE  RInv' /\ Frozen
<1>1. pc[c] = "submit" /\ pc[c] \in Body \ {"initial"}
  BY DEF Submit, Body
<1>2. /\ TypeOK /\ mem[c] \in Memory /\ Active(c) /\ Busy(c) /\ Kept /\ BodyKeeps(c)
      /\ VariablesAgree(c) /\ mem[c].known /\ ~SomeInterrupted /\ ~SomeCompleted
      /\ st.state \notin Terminal
  BY <1>1, BodyIsOpen
<1>3. {"wait", "handle"} \subseteq Steps /\ "signal" \in Errors \ {"unexpected", "installed"}
  BY DEF Steps, Body, Handlers, Errors
<1>4. UNCHANGED <<log, st, files, prompts, aborts>>
  BY DEF Submit, pair, remote
<1>5. CASE Raises(c, mem[c], "signal", "handle")
  <2>1. Reaches(c, Noted(mem[c], "signal", "handle"), "handle")
    BY <1>2, <1>3, <1>5, ErrorReach
  <2> QED BY <1>1, <1>2, <1>3, <1>4, <2>1, MoveRaises
<1>6. CASE /\ worker' = [worker EXCEPT ![c].step = "connecting"]
           /\ Continue(c, mem[c], "wait")
  <2>1. /\ pc'[c] = "wait" /\ mem'[c] = mem[c]
        /\ \A d \in Controllers \ {c} : pc'[d] = pc[d] /\ mem'[d] = mem[d]
    BY <1>2, <1>3, <1>6, ContinueEffect
  <2>2. worker'[c].step = "connecting" /\ \A d \in Controllers \ {c} : worker'[d] = worker[d]
    BY <1>2, <1>6 DEF TypeOK
  <2>3. Steady /\ Alone(c)
    BY <1>2, <1>4, <2>1, <2>2, SteadyUnchanged DEF Alone
  <2>4. BodyKeeps(c)'
    BY <1>1, <1>2, <1>4, <2>1 DEF BodyKeeps, Unanswered, Answered, Early, Unsent
  <2>5. HandlersKeep(c)'
    BY <2>1 DEF HandlersKeep, Closing
  <2>6. VariablesAgree(c)'
    <3>1. worker[c].step = "none"
      BY <1>1, <1>2 DEF Busy
    <3> QED BY <1>1, <1>2, <1>4, <2>1, <2>2, <2>3, <3>1 DEF VariablesAgree, Steady, Answered
  <2>7. EndsKeep(c)'
    BY <1>2, <1>4, <2>3 DEF EndsKeep, Steady
  <2> QED BY <1>2, <2>1, <2>3, <2>4, <2>5, <2>6, <2>7, OwnerKeeps DEF Keeps, Steady
<1> QED BY <1>5, <1>6 DEF Submit

LEMMA WaitKeeps ==
    ASSUME IInv, RInv, NEW c \in Controllers, Receive(c) \/ GiveUp(c)
    PROVE  RInv' /\ Frozen
<1> DEFINE m == [mem[c] EXCEPT !.answer = worker[c].answer]
<1>1. pc[c] = "wait" /\ pc[c] \in Body \ {"initial"}
  BY DEF Receive, GiveUp, Body
<1>2. /\ TypeOK /\ mem[c] \in Memory /\ Active(c) /\ Busy(c) /\ Kept /\ BodyKeeps(c)
      /\ VariablesAgree(c) /\ mem[c].known /\ ~SomeInterrupted /\ ~SomeCompleted
      /\ st.state \notin Terminal
  BY <1>1, BodyIsOpen
<1>3. {"evidence", "result", "handle"} \subseteq Steps
      /\ {"other", "signal", "timed_out"} \subseteq Errors \ {"unexpected", "installed"}
  BY DEF Steps, Body, Handlers, Errors
<1>4. UNCHANGED <<log, st, files, prompts, aborts>>
  BY DEF Receive, GiveUp, pair, remote
<1>5. \/ \E error \in {"other", "signal", "timed_out"} : Raises(c, mem[c], error, "handle")
      \/ worker[c].step = "answered" /\ Returns(c, mem[c], "evidence")
      \/ /\ worker[c].step = "answered" /\ worker[c].answer \notin {"error", "violation"}
         /\ Returns(c, m, "result")
  BY DEF Receive, GiveUp
<1>6. ASSUME NEW error \in {"other", "signal", "timed_out"}, Raises(c, mem[c], error, "handle")
      PROVE  RInv' /\ Frozen
  <2>1. Reaches(c, Noted(mem[c], error, "handle"), "handle")
    BY <1>2, <1>3, <1>6, ErrorReach
  <2> QED BY <1>1, <1>2, <1>3, <1>4, <2>1, MoveRaises
<1>7. ASSUME NEW n \in Memory, n.known = mem[c].known, n.session = mem[c].session,
             n.started = mem[c].started, n.pending = mem[c].pending,
             n.completed = mem[c].completed, n.evidence = mem[c].evidence, n.meta = mem[c].meta,
             n.exit = mem[c].exit, n.error = mem[c].error,
             NEW next \in {"evidence", "result"}, Returns(c, n, next),
             worker[c].step = "answered",
             next = "result" => n.answer \in Results /\ prompts[n.session] = 1
      PROVE  RInv' /\ Frozen
  <2>1. Reaches(c, n, next)
    BY <1>2, <1>3, <1>7, ReturnsReach
  <2>2. Steady
    BY <1>2, <1>4, SteadyUnchanged
  <2>3. BodyKeeps(c)'
    BY <1>1, <1>2, <1>4, <1>7, <2>1
       DEF BodyKeeps, Reaches, Unanswered, Answered, Early, Unsent
  <2>4. HandlersKeep(c)'
    BY <2>1, <1>7 DEF HandlersKeep, Reaches, Closing
  <2>5. VariablesAgree(c)'
    BY <1>2, <1>4, <1>7, <2>1, <2>2 DEF VariablesAgree, Reaches, Steady, Answered
  <2>6. EndsKeep(c)'
    BY <1>2, <1>4, <2>2 DEF EndsKeep, Steady
  <2> QED BY <1>2, <1>7, <2>1, <2>2, <2>3, <2>4, <2>5, <2>6, OwnerKeeps
             DEF Keeps, Reaches, Steady
<1>8. CASE worker[c].step = "answered" /\ Returns(c, mem[c], "evidence")
  BY <1>2, <1>7, <1>8
<1>9. CASE /\ worker[c].step = "answered" /\ worker[c].answer \notin {"error", "violation"}
           /\ Returns(c, m, "result")
  <2>1. worker[c].answer \in Results /\ prompts[mem[c].session] = 1
    BY <1>2, <1>9 DEF VariablesAgree, Answers
  <2>2. /\ m \in Memory /\ m.known = mem[c].known /\ m.session = mem[c].session
        /\ m.started = mem[c].started /\ m.pending = mem[c].pending
        /\ m.completed = mem[c].completed /\ m.evidence = mem[c].evidence /\ m.meta = mem[c].meta
        /\ m.exit = mem[c].exit /\ m.error = mem[c].error /\ m.answer = worker[c].answer
    BY <1>2, <2>1 DEF Memory
  <2> HIDE DEF m
  <2> QED BY <1>7, <1>9, <2>1, <2>2
<1> QED BY <1>5, <1>6, <1>8, <1>9

\* The session is in the memory copy before it is in the log.
LEMMA StartedKeeps ==
    ASSUME IInv, RInv, NEW c \in Controllers, Started(c)
    PROVE  RInv' /\ Frozen
<1>0. PICK s : s = mem[c].session
  OBVIOUS
<1> DEFINE m == [mem[c] EXCEPT !.meta.session = mem[c].session,
                               !.meta.status = "session_created"]
           done == [m EXCEPT !.started = TRUE]
           r == Observation("agent.started", s)
           n == Noted(m, "other", "handle")
<1>1. pc[c] = "started" /\ pc[c] \in Body \ {"initial"}
  BY DEF Started, Body
<1>2. /\ TypeOK /\ mem[c] \in Memory /\ Active(c) /\ Busy(c) /\ Kept /\ BodyKeeps(c)
      /\ VariablesAgree(c) /\ mem[c].known /\ log # << >> /\ ~SomeInterrupted /\ ~SomeCompleted
      /\ st.state \notin Terminal
  BY <1>1, BodyIsOpen
<1>3. s \in Sessions
  BY <1>0, <1>1, <1>2 DEF Busy
<1>4. /\ m \in Memory /\ m.known = mem[c].known /\ m.session = mem[c].session
      /\ m.started = mem[c].started /\ m.pending = mem[c].pending
      /\ m.completed = mem[c].completed /\ m.evidence = mem[c].evidence
      /\ m.meta.session = mem[c].session /\ m.exit = mem[c].exit /\ m.error = mem[c].error
  BY <1>2 DEF Memory, Metadata
<1>5. /\ done \in Memory /\ done.known = mem[c].known /\ done.session = mem[c].session
      /\ done.started = TRUE /\ done.pending = mem[c].pending
      /\ done.completed = mem[c].completed /\ done.evidence = mem[c].evidence
      /\ done.meta.session = mem[c].session /\ done.exit = mem[c].exit
      /\ done.error = mem[c].error
  <2> HIDE DEF m
  <2> QED BY <1>4 DEF Memory
<1>6. /\ r \in Asked /\ r.kind = "observe" /\ r.type \notin EndTypes
      /\ {"running", "handle"} \subseteq Steps /\ "other" \in Errors /\ "other" # "unexpected"
  BY <1>3 DEF Asked, Observation, Observations, Steps, Body, Handlers, Errors, EndTypes
<1>7. Durable(c, r, m, done, "running", "handle") /\ UNCHANGED <<files, remote, signalled>>
  BY <1>0, <1>4 DEF Started
<1> HIDE DEF m, done, r
<1>8. \/ Grows(r) /\ Reaches(c, done, "running")
      \/ /\ (log' = log /\ st' = st) \/ Grows(r)
         /\ Reaches(c, n, "handle") \/ Ends(c)
  BY <1>2, <1>4, <1>5, <1>6, <1>7, DurableReach
<1>9. Steady /\ st'.state \notin Terminal
  <2>1. (log' = log /\ st' = st) \/ Grows(r)
    BY <1>8
  <2> QED BY <1>2, <1>6, <1>7, <2>1, SteadyPair
<1>10. /\ ~SomeInterrupted' /\ ~SomeCompleted' /\ files' = files
       /\ files.result = "none" /\ ~files.transcript /\ files.metadata.status \notin Final
       /\ ~mem[c].evidence /\ ~mem[c].pending /\ ~mem[c].completed /\ ~mem[c].started
       /\ files.transcript = mem[c].evidence /\ worker[c].step = "none"
  <2>1. files.transcript \in BOOLEAN /\ mem[c].evidence \in BOOLEAN
    BY <1>2 DEF TypeOK, FilesSet, Memory
  <2> QED BY <1>1, <1>2, <1>7, <1>9, <2>1 DEF Steady, BodyKeeps, Busy, Unanswered, Unsent
<1>11. CASE Reaches(c, n, "handle") \/ Ends(c)
  <2>1. /\ n.known = m.known /\ n.session = m.session /\ n.started = m.started
        /\ n.pending = m.pending /\ n.completed = m.completed
        /\ n.evidence = m.evidence /\ n.meta = m.meta /\ n.error = "other"
    BY <1>4, <1>6, NotedFields
  <2> HIDE DEF n
  <2>2. pc'[c] = "handle" => VariablesAgree(c)'
    <3>1. pc'[c] = "handle" => mem'[c] = n /\ worker' = worker
      BY <1>11 DEF Ends, Vanishes, Reaches
    <3> QED BY <1>2, <1>4, <1>7, <1>9, <1>10, <2>1, <3>1
            DEF VariablesAgree, Steady, remote, Answered
  <2>3. files'.result = "none" /\ files'.transcript = m.evidence
    BY <1>4, <1>10
  <2> QED BY <1>1, <1>2, <1>4, <1>6, <1>9, <1>10, <1>11, <2>2, <2>3, BodyRaises DEF Steady, n
<1>12. CASE Reaches(c, done, "running")
  <2>1. BodyKeeps(c)'
    BY <1>5, <1>10, <1>12
       DEF BodyKeeps, Reaches, Unanswered, Answered, Early, Unsent
  <2>2. HandlersKeep(c)'
    BY <1>12 DEF HandlersKeep, Reaches, Closing
  <2>3. VariablesAgree(c)'
    BY <1>2, <1>5, <1>7, <1>9, <1>10, <1>12
       DEF VariablesAgree, Reaches, Steady, remote, Answered
  <2>4. EndsKeep(c)'
    BY <1>9, <1>10 DEF EndsKeep
  <2> QED BY <1>2, <1>5, <1>9, <1>12, <2>1, <2>2, <2>3, <2>4, OwnerKeeps
             DEF Keeps, Reaches, Steady
<1> QED BY <1>8, <1>11, <1>12

\* The completion is written when the metadata has it.
LEMMA CompletedKeeps ==
    ASSUME IInv, RInv, NEW c \in Controllers, Completed(c)
    PROVE  RInv' /\ Frozen
<1>0. PICK s : s = mem[c].session
  OBVIOUS
<1> DEFINE done == [mem[c] EXCEPT !.pending = FALSE, !.completed = TRUE]
           r == Observation("agent.completed", s)
           n == Noted(mem[c], "other", "handle")
<1>1. pc[c] = "completed" /\ pc[c] \in Body \ {"initial"}
  BY DEF Completed, Body
<1>2. /\ TypeOK /\ mem[c] \in Memory /\ Active(c) /\ Busy(c) /\ Kept /\ BodyKeeps(c)
      /\ VariablesAgree(c) /\ mem[c].known /\ log # << >> /\ ~SomeInterrupted /\ ~SomeCompleted
      /\ st.state \notin Terminal
  BY <1>1, BodyIsOpen
<1>3. /\ s \in Sessions /\ mem[c].started /\ mem[c].pending /\ mem[c].meta.session = mem[c].session
      /\ mem[c].answer \in Results /\ prompts[s] = 1
      /\ files.metadata.status = mem[c].answer /\ files.metadata.session = s
      /\ files.result = mem[c].answer /\ files.transcript /\ worker[c].step = "answered"
  BY <1>0, <1>1, <1>2 DEF Busy, BodyKeeps, VariablesAgree, Early, Body, Answered
<1>4. /\ done \in Memory /\ done.known = mem[c].known /\ done.session = mem[c].session
      /\ done.started = mem[c].started /\ done.pending = FALSE /\ done.completed = TRUE
      /\ done.evidence = mem[c].evidence /\ done.meta = mem[c].meta /\ done.exit = mem[c].exit
      /\ done.error = mem[c].error /\ done.answer = mem[c].answer
  BY <1>2 DEF Memory
<1>5. /\ r \in Asked /\ r.kind = "observe" /\ r.type = "agent.completed" /\ r.session = s
      /\ {"finish", "handle"} \subseteq Steps /\ "other" \in Errors /\ "other" # "unexpected"
  BY <1>3 DEF Asked, Observation, Observations, Steps, Body, Handlers, Errors
<1>6. Durable(c, r, mem[c], done, "finish", "handle") /\ UNCHANGED <<files, remote, signalled>>
  BY <1>0 DEF Completed
<1> HIDE DEF done, r
<1>7. \/ Grows(r) /\ Reaches(c, done, "finish")
      \/ /\ (log' = log /\ st' = st) \/ Grows(r)
         /\ Reaches(c, n, "handle") \/ Ends(c)
  BY <1>2, <1>4, <1>5, <1>6, DurableReach
<1>8. /\ Kept' /\ Frozen /\ log' # << >> /\ ~SomeInterrupted' /\ st'.state \notin Terminal
      /\ Grows(r) => CompletedFor(s)'
  <2>1. CASE log' = log /\ st' = st /\ ~Grows(r)
    <3>1. Steady
      BY <1>2, <1>6, <2>1, SteadyUnchanged DEF remote
    <3> QED BY <1>2, <2>1, <3>1 DEF Steady
  <2>2. CASE Grows(r)
    <3>1. PICK e \in Events : log' = Append(log, e) /\ e.type = "agent.completed" /\ e.session = s
      BY <1>5, <2>2 DEF Grows, Appended
    <3>2. EventsFollowRecords'
      BY <1>2, <1>3, <1>6, <3>1, LogKeeps DEF Kept, remote
    <3>3. log' # << >> /\ ~SomeInterrupted' /\ CompletedFor(s)'
      BY <1>2, <3>1, LogKeeps
    <3>4. st'.state \notin Terminal /\ st'.reason # Placeholder
      BY <1>2, <1>5, <2>2 DEF Grows, Kept, PlaceholderIsBacked, Terminal, Placeholder
    <3>5. RecordsTruthful'
      BY <1>2, <1>6 DEF Kept, RecordsTruthful
    <3> QED BY <1>2, <3>2, <3>3, <3>4, <3>5 DEF Kept, Frozen, PlaceholderIsBacked
  <2> QED BY <1>7, <2>1, <2>2
<1>9. CASE Reaches(c, n, "handle") \/ Ends(c)
  <2>1. /\ n.known = mem[c].known /\ n.session = mem[c].session /\ n.started = mem[c].started
        /\ n.pending = mem[c].pending /\ n.completed = mem[c].completed
        /\ n.evidence = mem[c].evidence /\ n.meta = mem[c].meta /\ n.error = "other"
    BY <1>2, <1>5, NotedFields
  <2> HIDE DEF n
  <2>2. pc'[c] = "handle" => VariablesAgree(c)'
    <3>1. pc'[c] = "handle" => mem'[c] = n /\ worker' = worker
      BY <1>9 DEF Ends, Vanishes, Reaches
    <3> QED BY <1>2, <1>6, <1>8, <2>1, <3>1, VariablesStay DEF remote, Answered
  <2> QED BY <1>1, <1>2, <1>3, <1>5, <1>8, <1>9, <2>2, BodyRaises DEF n
<1>10. CASE Grows(r) /\ Reaches(c, done, "finish")
  <2>0. files' = files /\ prompts' = prompts
    BY <1>6 DEF remote
  <2>1. BodyKeeps(c)'
    BY <1>0, <1>3, <1>4, <1>8, <1>10, <2>0
       DEF BodyKeeps, Reaches, Unanswered, Answered, Early, Unsent
  <2>2. HandlersKeep(c)'
    BY <1>10 DEF HandlersKeep, Reaches, Closing
  <2>3. VariablesAgree(c)'
    BY <1>2, <1>3, <1>4, <1>8, <1>10, <2>0 DEF VariablesAgree, Reaches, Answered
  <2>4. EndsKeep(c)'
    BY <1>4, <1>8, <1>10 DEF EndsKeep, Reaches
  <2> QED BY <1>2, <1>4, <1>8, <1>10, <2>1, <2>2, <2>3, <2>4, OwnerKeeps DEF Keeps, Reaches
<1> QED BY <1>7, <1>9, <1>10

\* The placeholder is the reason of a run whose records are all in place.
LEMMA FinishKeeps ==
    ASSUME IInv, RInv, NEW c \in Controllers, Finish(c)
    PROVE  RInv' /\ Frozen
<1>0. PICK s : s = mem[c].session
  OBVIOUS
<1> DEFINE done == [mem[c] EXCEPT !.exit = "placeholder"]
           r == Transition("blocked", Placeholder)
           n == Noted(mem[c], "other", "handle")
<1>1. pc[c] = "finish" /\ pc[c] \in Body \ {"initial"}
  BY DEF Finish, Body
<1>2. /\ TypeOK /\ mem[c] \in Memory /\ Active(c) /\ Busy(c) /\ Kept /\ BodyKeeps(c)
      /\ VariablesAgree(c) /\ mem[c].known /\ log # << >> /\ ~SomeInterrupted
      /\ st.state \notin Terminal
  BY <1>1, BodyIsOpen
<1>3. /\ mem[c].completed /\ s \in Sessions /\ CompletedFor(s)
      /\ prompts[s] = 1 /\ worker[c].step = "answered"
      /\ files.metadata.status = mem[c].answer /\ files.result = mem[c].answer /\ files.transcript
  BY <1>0, <1>1, <1>2 DEF Busy, BodyKeeps, VariablesAgree, Early, Body, Answered
<1>4. /\ done \in Memory /\ done.known = mem[c].known /\ done.session = mem[c].session
      /\ done.started = mem[c].started /\ done.pending = mem[c].pending
      /\ done.completed = mem[c].completed /\ done.evidence = mem[c].evidence
      /\ done.meta = mem[c].meta /\ done.error = mem[c].error
  BY <1>2 DEF Memory, Exits
<1>5. /\ r \in Asked /\ r.kind = "transition" /\ r.to = "blocked" /\ r.reason = Placeholder
      /\ {"exit", "handle"} \subseteq Steps
      /\ "other" \in Errors \ {"unexpected", "installed"}
  BY DEF Asked, Transition, Reasons, Steps, Body, Handlers, Errors
<1>6. UNCHANGED <<files, remote, signalled>>
  BY DEF Finish
<1>7. \/ UNCHANGED pair /\ Raises(c, mem[c], "other", "handle")
      \/ mem[c].answer = "completed" /\ Durable(c, r, mem[c], done, "exit", "handle")
  BY DEF Finish
<1> HIDE DEF done, r
<1>8. CASE UNCHANGED pair /\ Raises(c, mem[c], "other", "handle")
  <2>1. Reaches(c, n, "handle")
    BY <1>2, <1>5, <1>8, ErrorReach
  <2> QED BY <1>1, <1>2, <1>5, <1>6, <1>8, <2>1, MoveRaises DEF pair, remote
<1>9. CASE mem[c].answer = "completed" /\ Durable(c, r, mem[c], done, "exit", "handle")
  <2>1. \/ Grows(r) /\ Reaches(c, done, "exit") /\ st'.reason = Placeholder
        \/ /\ (log' = log /\ st' = st) \/ Grows(r)
           /\ Reaches(c, n, "handle") \/ Ends(c)
    BY <1>2, <1>4, <1>5, <1>9, DurableReach
  <2>2. /\ Kept' /\ Frozen /\ log' # << >> /\ ~SomeInterrupted'
    <3>1. CASE log' = log /\ st' = st
      <4>1. Steady
        BY <1>2, <1>6, <3>1, SteadyUnchanged DEF remote
      <4> QED BY <1>2, <4>1 DEF Steady
    <3>2. CASE Grows(r)
      <4>1. PICK e \in Events : log' = Append(log, e) /\ e.type \notin EndTypes
        BY <1>5, <3>2 DEF Grows, Appended, EndTypes, Observations
      <4>2. /\ EventsFollowRecords' /\ log' # << >> /\ ~SomeInterrupted'
            /\ CompletedFor(s)'
        BY <1>2, <1>3, <1>6, <4>1, LogKeeps DEF Kept, remote, EndTypes
      <4>3. st'.reason = Placeholder => st'.state = "blocked"
        BY <1>2, <1>5, <3>2 DEF Grows, Kept, PlaceholderIsBacked, Terminal
      <4>4. PlaceholderIsBacked'
        <5>1. files' = files /\ prompts'[s] = 1 /\ files.metadata.status = "completed"
              /\ files.result = "completed" /\ files.transcript
          BY <1>3, <1>6, <1>9 DEF remote
        <5> QED BY <1>3, <4>2, <4>3, <5>1 DEF PlaceholderIsBacked
      <4>5. RecordsTruthful'
        BY <1>2, <1>6 DEF Kept, RecordsTruthful
      <4> QED BY <1>2, <4>2, <4>4, <4>5 DEF Kept, Frozen
    <3> QED BY <2>1, <3>1, <3>2
  <2>3. CASE Reaches(c, n, "handle") \/ Ends(c)
    <3>1. /\ n.known = mem[c].known /\ n.session = mem[c].session /\ n.started = mem[c].started
          /\ n.pending = mem[c].pending /\ n.completed = mem[c].completed
          /\ n.evidence = mem[c].evidence /\ n.meta = mem[c].meta /\ n.error = "other"
      BY <1>2, <1>5, NotedFields
    <3> HIDE DEF n
    <3>2. pc'[c] = "handle" => VariablesAgree(c)'
      <4>1. pc'[c] = "handle" => mem'[c] = n /\ worker' = worker
        BY <2>3 DEF Ends, Vanishes, Reaches
      <4> QED BY <1>2, <1>6, <2>2, <3>1, <4>1, VariablesStay DEF remote, Answered
    <3> QED BY <1>1, <1>2, <1>3, <1>5, <2>2, <2>3, <3>2, BodyRaises DEF n
  <2>4. CASE Reaches(c, done, "exit") /\ st'.reason = Placeholder
    <3>0. files' = files /\ prompts' = prompts
      BY <1>6 DEF remote
    <3>1. BodyKeeps(c)'
      BY <2>4 DEF BodyKeeps, Reaches, Unanswered, Answered, Early, Unsent
    <3>2. HandlersKeep(c)'
      BY <1>3, <1>4, <2>4 DEF HandlersKeep, Reaches, Closing
    <3>3. VariablesAgree(c)'
      BY <1>2, <1>3, <1>4, <2>2, <2>4, <3>0, VariablesStay DEF Reaches, Answered
    <3>4. EndsKeep(c)'
      BY <1>3, <1>4, <2>2, <2>4 DEF EndsKeep, Reaches
    <3> QED BY <1>2, <2>2, <2>4, <3>1, <3>2, <3>3, <3>4, OwnerKeeps DEF Keeps, Reaches
  <2> QED BY <2>1, <2>3, <2>4
<1> QED BY <1>7, <1>8, <1>9

-----------------------------------------------------------------------------
(* The handlers *)

\* A step that ends in a handler or behind all of them.
LEMMA HandlersReach ==
    ASSUME IInv, RInv, NEW c \in Controllers, Active(c), Kept', Frozen,
           NEW m \in Memory, m.exit \in {mem[c].exit, "error", "signal"},
           NEW next \in Handlers \cup {"exit"}, Reaches(c, m, next),
           HandlersKeep(c)', VariablesAgree(c)', EndsKeep(c)'
    PROVE  RInv'
<1>1. pc'[c] = next /\ mem'[c] = m /\ Alone(c)
  BY DEF Reaches
<1>2. BodyKeeps(c)'
  BY <1>1 DEF BodyKeeps, Unanswered, Answered, Early, Unsent, Handlers
<1> QED BY <1>1, <1>2, OwnerKeeps DEF Keeps

\* What the handlers close has not ended.
LEMMA ClosingIsOpen ==
    ASSUME IInv, RInv, NEW c \in Controllers, pc[c] \in Closing
    PROVE  /\ TypeOK /\ mem[c] \in Memory /\ Active(c) /\ Busy(c) /\ Kept
           /\ HandlersKeep(c) /\ VariablesAgree(c) /\ EndsKeep(c) /\ mem[c].known
           /\ log # << >> /\ ~mem[c].pending /\ ~mem[c].completed /\ files.result = "none"
           /\ ~SomeCompleted /\ ~SomeInterrupted /\ st.state \notin Terminal
<1>1. pc[c] \in Handlers
  BY DEF Closing, Handlers
<1>2. /\ TypeOK /\ mem[c] \in Memory /\ Active(c) /\ Busy(c) /\ Kept
      /\ HandlersKeep(c) /\ VariablesAgree(c) /\ EndsKeep(c)
  BY <1>1, OwnerFacts
<1>3. mem[c].known
  BY <1>2 DEF VariablesAgree, Closing
<1>4. log # << >> /\ ~mem[c].pending /\ ~mem[c].completed /\ files.result = "none"
  BY <1>2 DEF HandlersKeep
<1> QED BY <1>2, <1>3, <1>4 DEF EndsKeep, Closing

\* Nothing is closed that has its result, and nothing is left behind.
LEMMA HandleKeeps ==
    ASSUME IInv, RInv, NEW c \in Controllers, Handle(c)
    PROVE  RInv' /\ Frozen
<1> DEFINE closing == ClosingStatus(c)
           exit == IF Cancelled(c) THEN "signal" ELSE "error"
           m == [mem[c] EXCEPT !.closing = closing, !.exit = exit]
           next == Cleanup(mem[c])
<1>1. /\ TypeOK /\ mem[c] \in Memory /\ pc[c] = "handle" /\ Active(c) /\ Busy(c) /\ Kept
      /\ HandlersKeep(c) /\ VariablesAgree(c) /\ EndsKeep(c)
      /\ mem[c].session # None => log # << >>
  BY OwnerFacts DEF Handle, Handlers
<1>2. /\ closing \in Final /\ exit \in {"error", "signal"} /\ exit \in Exits
      /\ mem[c].started /\ ~mem[c].completed => closing \in {"timed_out", "interrupted"}
  BY DEF ClosingStatus, Final, Results, Exits
<1>3. /\ next \in {"exit", "abort", "close", "block"}
      /\ next # "exit" => mem[c].known /\ ~EvidenceInstalled(mem[c])
      /\ next = "exit" => ~mem[c].known \/ EvidenceInstalled(mem[c])
      /\ next \in {"abort", "close"} => ~mem[c].completed
      /\ next = "abort" => mem[c].session # None
      /\ next = "close" => mem[c].session = None /\ mem[c].meta.status # "none"
      /\ next = "block" => mem[c].completed \/ mem[c].session = None
  <2>1. {mem[c].known, mem[c].completed, mem[c].pending} \subseteq BOOLEAN
    BY <1>1 DEF Memory
  <2> QED BY <2>1 DEF Cleanup, EvidenceInstalled
<1>4. Returns(c, m, next) /\ UNCHANGED <<log, st, files, remote, signalled>>
  BY DEF Handle, pair
<1> HIDE DEF closing, exit, next
<1>5. /\ m \in Memory /\ m.known = mem[c].known /\ m.session = mem[c].session
      /\ m.started = mem[c].started /\ m.pending = mem[c].pending
      /\ m.completed = mem[c].completed /\ m.evidence = mem[c].evidence /\ m.meta = mem[c].meta
      /\ m.error = mem[c].error /\ m.exit = exit /\ m.closing = closing
  BY <1>1, <1>2 DEF Memory
<1> HIDE DEF m
<1>6. next \in Steps /\ next \in Handlers \cup {"exit"}
  BY <1>3 DEF Steps, Handlers
<1>7. Reaches(c, m, next)
  BY <1>1, <1>4, <1>5, <1>6, ReturnsReach
<1>8. Steady
  BY <1>1, <1>4, SteadyUnchanged DEF remote
<1>9. /\ pc'[c] = next /\ mem'[c] = m /\ worker' = worker /\ files' = files /\ aborts' = aborts
      /\ prompts' = prompts /\ st' = st
  BY <1>4, <1>7 DEF Reaches, remote
<1>10. HandlersKeep(c)'
  <2>1. next \in {"abort", "close"} =>
            /\ log' # << >> /\ ~m.pending /\ ~m.completed /\ files.result = "none"
            /\ files.transcript = m.evidence
            /\ m.started => m.closing \in {"timed_out", "interrupted"}
    BY <1>1, <1>2, <1>3, <1>5, <1>8 DEF HandlersKeep, VariablesAgree, EvidenceInstalled, Steady
  <2>2. next \in {"block", "exit"} /\ m.session # None => worker[c].step = "answered"
    BY <1>1, <1>3, <1>5 DEF VariablesAgree, EvidenceInstalled
  <2> QED BY <1>3, <1>5, <1>9, <2>1, <2>2 DEF HandlersKeep, Closing
<1>11. VariablesAgree(c)'
  BY <1>1, <1>3, <1>5, <1>8, <1>9, VariablesStay DEF Steady, Answered
<1>12. EndsKeep(c)'
  BY <1>1, <1>3, <1>5, <1>8, <1>9 DEF EndsKeep, Steady, EvidenceInstalled
<1> QED BY <1>1, <1>2, <1>5, <1>6, <1>7, <1>8, <1>10, <1>11, <1>12, HandlersReach DEF Steady

LEMMA AbortKeeps ==
    ASSUME IInv, RInv, NEW c \in Controllers, Abort(c)
    PROVE  RInv' /\ Frozen
<1>0. PICK s : s = mem[c].session
  OBVIOUS
<1>1. pc[c] = "abort" /\ pc[c] \in Closing
  BY DEF Abort, Closing
<1>2. /\ TypeOK /\ mem[c] \in Memory /\ Active(c) /\ Busy(c) /\ Kept
      /\ HandlersKeep(c) /\ VariablesAgree(c) /\ EndsKeep(c) /\ mem[c].known
      /\ log # << >> /\ ~mem[c].pending /\ ~mem[c].completed /\ files.result = "none"
      /\ ~SomeCompleted /\ ~SomeInterrupted /\ st.state \notin Terminal
  BY <1>1, ClosingIsOpen
<1>3. s \in Sessions /\ Requested(aborts) = {}
  BY <1>0, <1>1, <1>2 DEF Busy, Memory
<1>4. /\ Returns(c, mem[c], "close") /\ aborts' = [aborts EXCEPT ![s] = @ + 1]
      /\ UNCHANGED <<log, st, files, prompts>> /\ {"close"} \subseteq Steps \cap Handlers
  BY <1>0 DEF Abort, pair, Steps, Handlers
<1>5. Reaches(c, mem[c], "close")
  BY <1>2, <1>4, ReturnsReach
<1>6. aborts'[s] = 1
  <2>1. aborts \in [Sessions -> Nat] /\ aborts[s] = 0
    BY <1>2, <1>3 DEF TypeOK, Requested
  <2> QED BY <1>3, <1>4, <2>1
<1>7. Kept' /\ Frozen /\ ~SomeCompleted' /\ ~SomeInterrupted'
  <2>1. ~SomeCompleted' /\ ~SomeInterrupted'
    BY <1>2, <1>4 DEF SomeCompleted, SomeInterrupted, Of
  <2>2. EventsFollowRecords'
    BY <2>1 DEF EventsFollowRecords, SomeCompleted, SomeInterrupted
  <2>3. RecordsTruthful' /\ (log' = << >> => files' = NoFiles)
    BY <1>2, <1>4 DEF Kept, RecordsTruthful
  <2>4. PlaceholderIsBacked'
    BY <1>2, <1>4 DEF Kept, PlaceholderIsBacked, Terminal
  <2> QED BY <1>4, <2>1, <2>2, <2>3, <2>4 DEF Kept, Frozen
<1>8. /\ pc'[c] = "close" /\ mem'[c] = mem[c] /\ worker' = worker
  BY <1>5 DEF Reaches
<1>9. HandlersKeep(c)'
  BY <1>0, <1>1, <1>2, <1>4, <1>6, <1>8 DEF HandlersKeep, Closing
<1>10. VariablesAgree(c)'
  BY <1>2, <1>4, <1>8, VariablesStay DEF Answered
<1>11. EndsKeep(c)'
  BY <1>2, <1>4, <1>7 DEF EndsKeep
<1> QED BY <1>2, <1>4, <1>5, <1>7, <1>9, <1>10, <1>11, HandlersReach

\* The closing metadata says what the other files say.
LEMMA CloseKeeps ==
    ASSUME IInv, RInv, NEW c \in Controllers, CloseMetadata(c)
    PROVE  RInv' /\ Frozen
<1> DEFINE transcript == IF mem[c].started /\ mem[c].evidence THEN "kept" ELSE "unavailable"
           v == Closed(mem[c].meta, mem[c].closing, transcript)
           next == IF mem[c].started THEN "interrupted" ELSE "block"
<1>1. pc[c] = "close" /\ pc[c] \in Closing
  BY DEF CloseMetadata, Closing
<1>2. /\ TypeOK /\ mem[c] \in Memory /\ Active(c) /\ Busy(c) /\ Kept
      /\ HandlersKeep(c) /\ VariablesAgree(c) /\ EndsKeep(c) /\ mem[c].known
      /\ log # << >> /\ ~mem[c].pending /\ ~mem[c].completed /\ files.result = "none"
      /\ ~SomeCompleted /\ ~SomeInterrupted /\ st.state \notin Terminal
  BY <1>1, ClosingIsOpen
<1>3. /\ v \in Metadata /\ v.status = mem[c].closing /\ v.result = "none"
      /\ v.transcript = transcript
  BY <1>2 DEF Closed, Memory, Metadata
<1>4. /\ {files.transcript, mem[c].evidence, mem[c].started} \subseteq BOOLEAN
      /\ files.transcript = (transcript = "kept")
  <2>1. {files.transcript, mem[c].evidence, mem[c].started} \subseteq BOOLEAN
    BY <1>2 DEF TypeOK, FilesSet, Memory
  <2>2. files.transcript = mem[c].evidence /\ (mem[c].evidence => mem[c].started)
    BY <1>1, <1>2 DEF HandlersKeep, VariablesAgree
  <2> QED BY <2>1, <2>2
<1>5. WriteFile(c, "metadata", v, mem[c], mem[c], next, "block")
      /\ UNCHANGED <<log, st, remote, signalled>>
  BY DEF CloseMetadata, pair
<1>6. /\ next \in {"interrupted", "block"} /\ {"interrupted", "block"} \subseteq Steps \cap Handlers
      /\ {"other", "installed"} \subseteq Errors
  BY DEF Steps, Handlers, Errors
<1>7. next = "interrupted" <=> mem[c].started
  OBVIOUS
<1> HIDE DEF v, next, transcript
<1>8. Fits("metadata", v) /\ "metadata" \notin Immutable
  BY <1>3 DEF Fits, Immutable
<1>9. /\ Touched("metadata", v)
      /\ \/ files'["metadata"] = v /\ Reaches(c, mem[c], next)
         \/ Ends(c)
         \/ Reaches(c, mem[c], "block")
  <2>1. \A error : Noted(mem[c], error, "block") = mem[c]
    BY DEF Noted
  <2> QED BY <1>2, <1>5, <1>6, <1>8, <2>1, WriteReach
<1>10. /\ files'.metadata \in {files.metadata, v} /\ files'.result = "none"
       /\ files'.transcript = files.transcript
  BY <1>2, <1>9 DEF Touched, Artifacts, Immutable
<1>11. RecordsTruthful'
  BY <1>2, <1>3, <1>4, <1>10 DEF Kept, RecordsTruthful
<1>12. Steady
  BY <1>2, <1>5, <1>11, SteadyWrite
<1>13. CASE Ends(c)
  BY <1>2, <1>12, <1>13, OwnerEnds DEF Steady
<1>14. ASSUME NEW to \in {"interrupted", "block"}, Reaches(c, mem[c], to),
              to = "interrupted" => mem[c].started /\ files'.metadata.status = mem[c].closing
       PROVE  RInv' /\ Frozen
  <2>1. /\ pc'[c] = to /\ mem'[c] = mem[c] /\ worker' = worker /\ aborts' = aborts
        /\ prompts' = prompts
    BY <1>5, <1>14 DEF Reaches, remote
  <2>2. HandlersKeep(c)'
    BY <1>1, <1>2, <1>10, <1>12, <1>14, <2>1 DEF HandlersKeep, Closing, Steady
  <2>3. VariablesAgree(c)'
    BY <1>2, <1>12, <2>1, VariablesStay DEF Answered, Steady
  <2>4. EndsKeep(c)'
    BY <1>2, <1>5, <1>12 DEF EndsKeep, Steady
  <2> QED BY <1>2, <1>6, <1>12, <1>14, <2>2, <2>3, <2>4, HandlersReach DEF Steady
<1>15. files'["metadata"] = files'.metadata
  OBVIOUS
<1> QED BY <1>3, <1>6, <1>7, <1>9, <1>13, <1>14, <1>15

\* The interruption is recorded when the metadata says it and the abort is sent.
LEMMA InterruptedKeeps ==
    ASSUME IInv, RInv, NEW c \in Controllers, Interrupted(c)
    PROVE  RInv' /\ Frozen
<1>0. PICK s : s = mem[c].session
  OBVIOUS
<1> DEFINE r == Observation("agent.interrupted", s)
<1>1. pc[c] = "interrupted" /\ pc[c] \in Closing
  BY DEF Interrupted, Closing
<1>2. /\ TypeOK /\ mem[c] \in Memory /\ Active(c) /\ Busy(c) /\ Kept
      /\ HandlersKeep(c) /\ VariablesAgree(c) /\ EndsKeep(c) /\ mem[c].known
      /\ log # << >> /\ ~mem[c].pending /\ ~mem[c].completed /\ files.result = "none"
      /\ ~SomeCompleted /\ ~SomeInterrupted /\ st.state \notin Terminal
  BY <1>1, ClosingIsOpen
<1>3. s \in Sessions /\ aborts[s] = 1 /\ files.metadata.status \in {"timed_out", "interrupted"}
  <2>1. mem[c].started
    BY <1>1, <1>2 DEF HandlersKeep
  <2>2. s \in Sessions /\ s # None
    BY <1>0, <1>2, <2>1, HistoryAssumption DEF Busy
  <2> QED BY <1>0, <1>1, <1>2, <2>2 DEF HandlersKeep
<1>4. /\ r \in Asked /\ r.kind = "observe" /\ r.type = "agent.interrupted" /\ r.session = s
      /\ "block" \in Steps \cap Handlers
  BY <1>3 DEF Asked, Observation, Observations, Steps, Handlers
<1>5. Durable(c, r, mem[c], mem[c], "block", "block") /\ UNCHANGED <<files, remote, signalled>>
  BY <1>0 DEF Interrupted
<1> HIDE DEF r
<1>6. /\ (log' = log /\ st' = st) \/ Grows(r)
      /\ Reaches(c, mem[c], "block") \/ Ends(c)
  <2>1. Noted(mem[c], "other", "block") = mem[c]
    BY DEF Noted
  <2> QED BY <1>2, <1>4, <1>5, <2>1, DurableReach
<1>7. Kept' /\ Frozen /\ log' # << >> /\ ~SomeCompleted' /\ st'.state \notin Terminal
  <2>1. CASE log' = log /\ st' = st
    <3>1. Steady
      BY <1>2, <1>5, <2>1, SteadyUnchanged DEF remote
    <3> QED BY <1>2, <2>1, <3>1 DEF Steady
  <2>2. CASE Grows(r)
    <3>1. PICK e \in Events : log' = Append(log, e) /\ e.type = "agent.interrupted" /\ e.session = s
      BY <1>4, <2>2 DEF Grows, Appended
    <3>2. EventsFollowRecords'
      BY <1>2, <1>3, <1>5, <3>1, LogKeeps DEF Kept, remote
    <3>3. log' # << >> /\ ~SomeCompleted'
      BY <1>2, <3>1, LogKeeps
    <3>4. st'.state \notin Terminal /\ st'.reason # Placeholder
      BY <1>2, <1>4, <2>2 DEF Grows, Kept, PlaceholderIsBacked, Terminal, Placeholder
    <3>5. RecordsTruthful'
      BY <1>2, <1>5 DEF Kept, RecordsTruthful
    <3> QED BY <1>2, <3>2, <3>3, <3>4, <3>5 DEF Kept, Frozen, PlaceholderIsBacked
  <2> QED BY <1>6, <2>1, <2>2
<1>8. CASE Ends(c)
  BY <1>2, <1>7, <1>8, OwnerEnds
<1>9. CASE Reaches(c, mem[c], "block")
  <2>1. /\ pc'[c] = "block" /\ mem'[c] = mem[c] /\ worker' = worker /\ aborts' = aborts
        /\ prompts' = prompts
    BY <1>5, <1>9 DEF Reaches, remote
  <2>2. HandlersKeep(c)'
    BY <1>1, <1>2, <2>1 DEF HandlersKeep, Closing
  <2>3. VariablesAgree(c)'
    BY <1>2, <1>7, <2>1, VariablesStay DEF Answered
  <2>4. EndsKeep(c)'
    BY <1>2, <1>7, <2>1 DEF EndsKeep
  <2> QED BY <1>2, <1>4, <1>7, <1>9, <2>2, <2>3, <2>4, HandlersReach
<1> QED BY <1>6, <1>8, <1>9

\* The last transition is none of the placeholder's.
LEMMA BlockKeeps ==
    ASSUME IInv, RInv, NEW c \in Controllers, Block(c) \/ Fallback(c)
    PROVE  RInv' /\ Frozen
<1>1. pc[c] \in {"block", "fallback"} /\ pc[c] \in Handlers
  BY DEF Block, Fallback, Handlers
<1>2. /\ TypeOK /\ mem[c] \in Memory /\ Active(c) /\ Kept
      /\ HandlersKeep(c) /\ VariablesAgree(c) /\ EndsKeep(c)
  BY <1>1, OwnerFacts
<1>3. UNCHANGED <<files, remote, signalled>> /\ "exit" \in Steps
  BY DEF Block, Fallback, Steps
<1>4. \/ UNCHANGED <<log, st>> /\ Returns(c, mem[c], "exit")
      \/ \E to \in {"blocked", "failed"} :
            Durable(c, Transition(to, "other"), mem[c], mem[c], "exit", "exit")
  BY DEF Block, Fallback, pair
<1>5. Steady /\ (Reaches(c, mem[c], "exit") \/ Ends(c))
  <2>1. CASE UNCHANGED <<log, st>> /\ Returns(c, mem[c], "exit")
    <3>1. Steady
      BY <1>2, <1>3, <2>1, SteadyUnchanged DEF remote
    <3>2. Reaches(c, mem[c], "exit")
      BY <1>2, <1>3, <2>1, ReturnsReach
    <3> QED BY <3>1, <3>2
  <2>2. CASE \E to \in {"blocked", "failed"} :
                Durable(c, Transition(to, "other"), mem[c], mem[c], "exit", "exit")
    <3>1. PICK to \in {"blocked", "failed"} :
             Durable(c, Transition(to, "other"), mem[c], mem[c], "exit", "exit")
      BY <2>2
    <3> DEFINE r == Transition(to, "other")
    <3>2. r \in Asked /\ r.kind = "transition" /\ r.reason # Placeholder
      BY DEF Transition, Asked, Reasons, Placeholder
    <3>3. Durable(c, r, mem[c], mem[c], "exit", "exit")
      BY <3>1
    <3> HIDE DEF r
    <3>4. Noted(mem[c], "other", "exit") = mem[c]
      BY DEF Noted
    <3>5. /\ (log' = log /\ st' = st) \/ Grows(r)
          /\ Reaches(c, mem[c], "exit") \/ Ends(c)
      BY <1>2, <1>3, <3>2, <3>3, <3>4, DurableReach
    <3>6. (log' = log /\ st' = st) \/ Grows(r)
      BY <3>5
    <3>7. Steady
      BY <1>2, <1>3, <3>2, <3>6, SteadyPair
    <3> QED BY <3>5, <3>7
  <2> QED BY <1>4, <2>1, <2>2
<1>6. CASE Ends(c)
  BY <1>2, <1>5, <1>6, OwnerEnds DEF Steady
<1>7. CASE Reaches(c, mem[c], "exit")
  <2>1. /\ pc'[c] = "exit" /\ mem'[c] = mem[c] /\ worker' = worker /\ aborts' = aborts
        /\ prompts' = prompts
    BY <1>3, <1>7 DEF Reaches, remote
  <2>2. HandlersKeep(c)'
    BY <1>1, <1>2, <2>1 DEF HandlersKeep, Closing
  <2>3. VariablesAgree(c)'
    BY <1>2, <1>5, <2>1, VariablesStay DEF Answered, Steady
  <2>4. EndsKeep(c)'
    BY <1>2, <1>5, <2>1 DEF EndsKeep, Steady
  <2> QED BY <1>2, <1>5, <1>7, <2>2, <2>3, <2>4, HandlersReach DEF Steady
<1> QED BY <1>5, <1>6, <1>7

LEMMA ExitKeeps ==
    ASSUME IInv, RInv, NEW c \in Controllers, Exit(c)
    PROVE  RInv' /\ Frozen
<1> DEFINE m == [NoMemory EXCEPT !.exit = mem[c].exit]
<1>1. TypeOK /\ mem[c] \in Memory /\ pc[c] = "exit" /\ Active(c) /\ Kept
  BY OwnerFacts DEF Exit
<1>2. m \in Memory /\ m.exit = mem[c].exit
  <2>1. mem[c].exit \in Exits
    BY <1>1 DEF Memory
  <2> QED BY <1>1, <2>1, MemoryTypes DEF NoMemory
<1>3. /\ Continue(c, m, "done") /\ worker' = [worker EXCEPT ![c] = Idle]
      /\ UNCHANGED <<log, st, files, prompts, aborts>> /\ "done" \in Steps
  BY DEF Exit, Steps, pair, remote
<1> HIDE DEF m
<1>4. pc'[c] = "done" /\ mem'[c] = m /\ \A d \in Controllers \ {c} : pc'[d] = pc[d] /\ mem'[d] = mem[d]
  BY <1>1, <1>2, <1>3, ContinueEffect
<1>5. Alone(c) /\ ~Active(c)'
  BY <1>1, <1>3, <1>4 DEF TypeOK, Alone, Active
<1>6. Steady
  BY <1>1, <1>3, SteadyUnchanged
<1> QED BY <1>1, <1>2, <1>4, <1>5, <1>6, OwnerKeeps DEF Steady

LEMMA UnexpectedKeeps ==
    ASSUME IInv, RInv, NEW c \in Controllers, Unexpected(c)
    PROVE  RInv' /\ Frozen
<1> DEFINE m == [mem[c] EXCEPT !.error = "unexpected", !.exit = "error"]
           next == IF pc[c] \in Body THEN "fallback" ELSE "exit"
<1>1. /\ TypeOK /\ mem[c] \in Memory /\ pc[c] \in Body \cup Handlers /\ Active(c) /\ Kept
      /\ HandlersKeep(c) /\ VariablesAgree(c) /\ EndsKeep(c)
  BY OwnerFacts DEF Unexpected
<1>2. /\ m \in Memory /\ m.known = mem[c].known /\ m.session = mem[c].session
      /\ m.started = mem[c].started /\ m.pending = mem[c].pending
      /\ m.completed = mem[c].completed /\ m.evidence = mem[c].evidence /\ m.meta = mem[c].meta
      /\ m.error = "unexpected" /\ m.exit = "error"
  BY <1>1 DEF Memory, Errors, Exits
<1>3. /\ Continue(c, m, next) /\ UNCHANGED <<log, st, files, worker, prompts, aborts>>
      /\ next \in Steps /\ next \in Handlers \cup {"exit"} /\ next \in {"fallback", "exit"}
      /\ next = "fallback" => pc[c] \in Body
  BY DEF Unexpected, pair, remote, Steps, Handlers
<1> HIDE DEF m, next
<1>4. Reaches(c, m, next)
  BY <1>1, <1>2, <1>3, ContinueEffect DEF Reaches, Alone
<1>5. Steady
  BY <1>1, <1>3, SteadyUnchanged
<1>6. pc'[c] = next /\ mem'[c] = m
  BY <1>4 DEF Reaches
<1>7. HandlersKeep(c)'
  BY <1>2, <1>3, <1>6 DEF HandlersKeep, Closing
<1>8. VariablesAgree(c)'
  BY <1>1, <1>2, <1>3, <1>5, <1>6, VariablesStay DEF Steady, Answered
<1>9. EndsKeep(c)'
  BY <1>1, <1>2, <1>3, <1>5, <1>6 DEF EndsKeep, Steady, Body
<1> QED BY <1>1, <1>2, <1>3, <1>4, <1>5, <1>7, <1>8, <1>9, HandlersReach DEF Steady

-----------------------------------------------------------------------------
(* Invocations outside the lock, and the world around *)

\* Whoever does not own the lock leaves everything as it is.
LEMMA OutsideKeeps ==
    ASSUME IInv, RInv, NEW c \in Controllers, ~Active(c), Alone(c),
           UNCHANGED <<log, st, files, remote>>, mem'[c].exit # "placeholder",
           Active(c)' => pc'[c] = "initial" /\ mem'[c] = NoMemory /\ worker'[c].step = "none"
    PROVE  RInv' /\ Frozen
<1>1. UNCHANGED <<prompts, aborts>>
  BY DEF remote
<1>2. Steady
  BY <1>1, SteadyUnchanged DEF RInv
<1>3. ExitsAreTrue'
  BY DEF RInv, ExitsAreTrue, Alone
<1>4. SomeCompleted' = SomeCompleted /\ SomeInterrupted' = SomeInterrupted
      /\ \A s : CompletedFor(s)' = CompletedFor(s)
  BY DEF SomeCompleted, SomeInterrupted, CompletedFor, Of
<1>5. ASSUME NEW d \in Controllers \ {c}, Active(d)'
      PROVE  Keeps(d)'
  <2>1. pc'[d] = pc[d] /\ mem'[d] = mem[d] /\ worker'[d] = worker[d]
    BY DEF Alone
  <2>2. Keeps(d)
    BY <1>5, <2>1 DEF RInv, Active
  <2>3. BodyKeeps(d)'
    BY <1>1, <1>4, <2>1, <2>2 DEF Keeps, BodyKeeps
  <2>4. HandlersKeep(d)'
    BY <1>1, <2>1, <2>2 DEF Keeps, HandlersKeep, EvidenceInstalled
  <2>5. VariablesAgree(d)'
    BY <1>1, <2>1, <2>2 DEF Keeps, VariablesAgree
  <2>6. EndsKeep(d)'
    BY <1>4, <2>1, <2>2 DEF Keeps, EndsKeep
  <2> QED BY <2>3, <2>4, <2>5, <2>6 DEF Keeps
<1>6. ASSUME Active(c)'
      PROVE  Keeps(c)'
  <2>1. pc'[c] = "initial" /\ mem'[c] = NoMemory /\ worker'[c].step = "none"
    BY <1>6
  <2>2. BodyKeeps(c)' /\ HandlersKeep(c)'
    BY <2>1 DEF BodyKeeps, HandlersKeep, Unanswered, Answered, Early, Unsent, Closing
  <2>3. VariablesAgree(c)' /\ EndsKeep(c)'
    BY <2>1 DEF VariablesAgree, EndsKeep, NoMemory, NoMetadata, Answered
  <2> QED BY <2>2, <2>3 DEF Keeps
<1> QED BY <1>2, <1>3, <1>5, <1>6 DEF RInv, Steady

LEMMA BeforeKeeps ==
    ASSUME IInv, RInv, NEW c \in Controllers, Begin(c) \/ Preflight(c) \/ Own(c)
    PROVE  RInv' /\ Frozen
<1>1. TypeOK /\ mem[c] \in Memory /\ ~Active(c) /\ Quiet(c)
  BY DEF IInv, TypeOK, Local, Begin, Preflight, Own, Active
<1>2. UNCHANGED <<log, st, files, remote>>
  BY DEF Begin, Preflight, Own, pair
<1>3. /\ NoMemory \in Memory /\ NoMemory.exit # "placeholder"
      /\ \A why \in {"error", "signal"} :
            LET m == [NoMemory EXCEPT !.exit = why] IN m \in Memory /\ m.exit # "placeholder"
  <2>1. {"error", "signal"} \subseteq Exits
    BY DEF Exits
  <2>2. \A why : [NoMemory EXCEPT !.exit = why].exit = why
    BY DEF NoMemory
  <2> QED BY <1>1, <2>1, <2>2, MemoryTypes DEF NoMemory
<1>4. ASSUME NEW m \in Memory, m.exit # "placeholder",
             NEW next \in {"preflight", "own", "done", "initial"},
             next = "initial" => m = NoMemory, Continue(c, m, next), worker' = worker
      PROVE  RInv' /\ Frozen
  <2>1. next \in Steps
    BY DEF Steps, Body
  <2>2. /\ pc'[c] = next /\ mem'[c] = m
        /\ \A d \in Controllers \ {c} : pc'[d] = pc[d] /\ mem'[d] = mem[d]
    BY <1>1, <1>4, <2>1, ContinueEffect
  <2>3. Alone(c) /\ worker'[c].step = "none"
    BY <1>1, <1>4, <2>2 DEF Alone, Quiet
  <2>4. mem'[c].exit # "placeholder"
        /\ (Active(c)' => pc'[c] = "initial" /\ mem'[c] = NoMemory)
    BY <1>4, <2>2 DEF Active
  <2> QED BY <1>1, <1>2, <2>3, <2>4, OutsideKeeps
<1>5. \/ \E why \in {"error", "signal"} : Returns(c, [NoMemory EXCEPT !.exit = why], "done")
      \/ Returns(c, NoMemory, "preflight") \/ Returns(c, NoMemory, "own")
      \/ Continue(c, NoMemory, "initial") /\ worker' = worker
  BY DEF Begin, Preflight, Own, Stop
<1>6. CASE \E why \in {"error", "signal"} : Returns(c, [NoMemory EXCEPT !.exit = why], "done")
  <2>1. PICK why \in {"error", "signal"} : Returns(c, [NoMemory EXCEPT !.exit = why], "done")
    BY <1>6
  <2> DEFINE m == [NoMemory EXCEPT !.exit = why]
  <2>2. m \in Memory /\ m.exit # "placeholder"
    BY <1>3
  <2>3. Continue(c, m, "done") /\ worker' = worker
    BY <2>1 DEF Returns
  <2> HIDE DEF m
  <2> QED BY <1>4, <2>2, <2>3
<1>7. CASE Returns(c, NoMemory, "preflight") \/ Returns(c, NoMemory, "own")
  BY <1>3, <1>4, <1>7 DEF Returns
<1>8. CASE Continue(c, NoMemory, "initial") /\ worker' = worker
  BY <1>3, <1>4, <1>8
<1> QED BY <1>5, <1>6, <1>7, <1>8

\* The files of a process that has died are nobody's.
LEMMA CrashKeeps ==
    ASSUME IInv, RInv, NEW c \in Controllers, Crash(c)
    PROVE  RInv' /\ Frozen
<1>1. TypeOK /\ Dies(c) /\ UNCHANGED <<log, st, files, remote, prompts, aborts>>
  BY DEF IInv, Crash, pair, remote
<1>2. Ends(c) /\ Alone(c) /\ mem'[c].exit = "none" /\ ~Active(c)'
  <2>1. Ends(c)
    BY <1>1, DeathEnds
  <2> QED BY <2>1 DEF Ends, Vanishes, NoMemory, Active
<1>3. CASE Active(c)
  <2>1. Steady
    BY <1>1, SteadyUnchanged DEF RInv
  <2> QED BY <1>2, <1>3, <2>1, OwnerEnds DEF Steady
<1>4. CASE ~Active(c)
  BY <1>1, <1>2, <1>4, OutsideKeeps
<1> QED BY <1>3, <1>4

\* What the worker does changes only what it has heard or sent.
LEMMA WorkerKeeps ==
    ASSUME IInv, RInv, NEW c \in Controllers, worker[c].step \in {"connecting", "posted"},
           UNCHANGED <<log, st, files, pc, mem, aborts>>,
           \A d \in Controllers \ {c} : worker'[d] = worker[d],
           \A s \in Sessions : prompts[s] = 1 => prompts'[s] = 1,
           worker'[c].step \in {"posted", "answered"},
           worker'[c].step = "posted" => prompts'[mem[c].session] = 1,
           worker'[c].step = "answered" =>
               /\ worker'[c].answer \in Answers
               /\ worker'[c].answer # "error" => prompts'[mem[c].session] = 1
    PROVE  RInv' /\ Frozen
<1>1. Active(c)
  BY DEF IInv, Local, Quiet
<1>2. Kept /\ BodyKeeps(c) /\ HandlersKeep(c) /\ VariablesAgree(c) /\ EndsKeep(c)
  BY <1>1 DEF RInv, Keeps
<1>3. Steady
  BY <1>2, SteadyUnchanged
<1>4. /\ pc[c] \notin Answered \cup {"evidence"} /\ ~mem[c].pending /\ ~mem[c].completed
      /\ mem[c].error # "installed"
  BY <1>2 DEF VariablesAgree
<1>5. BodyKeeps(c)'
  BY <1>2, <1>4 DEF BodyKeeps, Answered
<1>6. HandlersKeep(c)'
  BY <1>2 DEF HandlersKeep, EvidenceInstalled
<1>7. VariablesAgree(c)'
  BY <1>2, <1>4 DEF VariablesAgree
<1>8. EndsKeep(c)'
  BY <1>2, <1>3 DEF EndsKeep, Steady
<1>9. Alone(c)
  BY DEF Alone
<1> QED BY <1>1, <1>3, <1>5, <1>6, <1>7, <1>8, <1>9, OwnerKeeps DEF Keeps, Steady

LEMMA PostKeeps ==
    ASSUME IInv, RInv, NEW c \in Controllers, Post(c)
    PROVE  RInv' /\ Frozen
<1>0. PICK s : s = mem[c].session
  OBVIOUS
<1>1. /\ TypeOK /\ mem[c] \in Memory /\ worker[c].step = "connecting" /\ Busy(c)
  BY DEF IInv, TypeOK, Post, Local, Quiet
<1>2. s \in Sessions /\ \A t \in Sessions : prompts[t] = 0
  BY <1>0, <1>1 DEF Busy
<1>3. /\ prompts' = [prompts EXCEPT ![s] = @ + 1]
      /\ worker' = [worker EXCEPT ![c].step = "posted"]
      /\ UNCHANGED <<log, st, files, pc, mem, aborts>>
  BY <1>0 DEF Post, pair
<1>4. prompts'[s] = 1
  BY <1>1, <1>2, <1>3 DEF TypeOK
<1>5. worker'[c] = [worker[c] EXCEPT !.step = "posted"]
      /\ \A d \in Controllers \ {c} : worker'[d] = worker[d]
  BY <1>1, <1>3 DEF TypeOK
<1>6. worker'[c].step = "posted"
  BY <1>1, <1>5 DEF TypeOK
<1>7. \A t \in Sessions : prompts[t] = 1 => prompts'[t] = 1
  BY <1>2
<1> QED BY <1>0, <1>1, <1>3, <1>4, <1>5, <1>6, <1>7, WorkerKeeps

LEMMA AnswerKeeps ==
    ASSUME IInv, RInv, NEW c \in Controllers, Answer(c)
    PROVE  RInv' /\ Frozen
<1>1. PICK answer \in Answers :
         /\ worker[c].step = "posted" \/ (worker[c].step = "connecting" /\ answer = "error")
         /\ worker' = [worker EXCEPT ![c] = [step |-> "answered", answer |-> answer,
                                             late |-> signalled[c]]]
  BY DEF Answer
<1>2. UNCHANGED <<log, st, files, pc, mem, prompts, aborts>>
  BY DEF Answer, pair, remote
<1>3. TypeOK /\ Active(c) /\ VariablesAgree(c)
  BY <1>1 DEF IInv, RInv, Local, Quiet, Keeps
<1>4. /\ worker'[c].step = "answered" /\ worker'[c].answer = answer
      /\ \A d \in Controllers \ {c} : worker'[d] = worker[d]
  BY <1>1, <1>3 DEF TypeOK
<1>5. answer # "error" => prompts'[mem[c].session] = 1
  BY <1>1, <1>2, <1>3 DEF VariablesAgree
<1>6. worker[c].step \in {"connecting", "posted"}
  BY <1>1
<1> QED BY <1>2, <1>4, <1>5, <1>6, WorkerKeeps

LEMMA SignalKeeps ==
    ASSUME IInv, RInv, UNCHANGED <<log, st, files, pc, mem, worker, prompts, aborts>>
    PROVE  RInv' /\ Frozen
<1>1. Kept' /\ Frozen /\ ExitsAreTrue'
  <2>1. Steady
    BY SteadyUnchanged DEF RInv
  <2> QED BY <2>1 DEF Steady, RInv, ExitsAreTrue
<1>2. SomeCompleted' = SomeCompleted /\ SomeInterrupted' = SomeInterrupted
      /\ \A s : CompletedFor(s)' = CompletedFor(s)
  BY DEF SomeCompleted, SomeInterrupted, CompletedFor, Of
<1>3. ASSUME NEW d \in Controllers, Active(d)'
      PROVE  Keeps(d)'
  <2>1. Keeps(d)
    BY <1>3 DEF RInv, Active
  <2>2. BodyKeeps(d)' /\ HandlersKeep(d)'
    BY <1>2, <2>1 DEF Keeps, BodyKeeps, HandlersKeep, EvidenceInstalled
  <2>3. VariablesAgree(d)' /\ EndsKeep(d)'
    BY <1>2, <2>1 DEF Keeps, VariablesAgree, EndsKeep
  <2> QED BY <2>2, <2>3 DEF Keeps
<1> QED BY <1>1, <1>3 DEF RInv

-----------------------------------------------------------------------------
(* The theorems *)

LEMMA InitRInv == Init => RInv
<1> SUFFICES ASSUME Init PROVE RInv
  OBVIOUS
<1>1. log = << >> /\ files = NoFiles /\ st.reason = "none"
  BY DEF Init, NoState
<1>2. Kept
  <2>1. RecordsTruthful
    BY <1>1 DEF RecordsTruthful, NoFiles, NoMetadata, Final, Results
  <2>2. \A type : Of(type) = {}
    BY <1>1 DEF Of, Positions
  <2>3. EventsFollowRecords /\ PlaceholderIsBacked
    BY <1>1, <2>2 DEF EventsFollowRecords, PlaceholderIsBacked, Placeholder
  <2> QED BY <1>1, <2>1, <2>3 DEF Kept
<1>3. ExitsAreTrue /\ \A c \in Controllers : ~Active(c)
  BY DEF Init, ExitsAreTrue, Active, NoMemory
<1> QED BY <1>2, <1>3 DEF RInv

LEMMA NextRInv == IInv /\ RInv /\ [Next]_vars => RInv' /\ Frozen
<1> SUFFICES ASSUME IInv, RInv, [Next]_vars PROVE RInv' /\ Frozen
  OBVIOUS
<1>1. CASE UNCHANGED vars
  BY <1>1, SignalKeeps DEF vars
<1>2. CASE Next
  <2>1. PICK c \in Controllers :
           \/ Begin(c) \/ Proceed(c) \/ Unexpected(c) \/ Crash(c) \/ Signal(c)
           \/ Post(c) \/ Answer(c)
    BY <1>2 DEF Next
  <2>2. CASE Signal(c)
    BY <2>2, SignalKeeps DEF Signal, pair, remote
  <2>3. CASE Proceed(c)
    BY <2>3, BeforeKeeps, InitialKeeps, ValidatingKeeps, RecordKeeps, LookKeeps, CreateKeeps,
       StartedKeeps, RunningKeeps, SubmitKeeps, WaitKeeps, EvidenceKeeps, ResultKeeps,
       TranscriptKeeps, CloseCompletedKeeps, CompletedKeeps, FinishKeeps, HandleKeeps,
       AbortKeeps, CloseKeeps, InterruptedKeeps, BlockKeeps, ExitKeeps DEF Proceed
  <2> QED BY <2>1, <2>2, <2>3, BeforeKeeps, UnexpectedKeeps, CrashKeeps, PostKeeps, AnswerKeeps
<1> QED BY <1>1, <1>2

THEOREM RecordsInvariance == Spec => [](IInv /\ RInv)
<1>1. IInv /\ RInv /\ [Next]_vars => (IInv /\ RInv)'
  BY NextIInv, NextRInv
<1> QED BY <1>1, InitIInv, InitRInv, PTL DEF Spec

\* The metadata of an ended invocation never denies a result or a transcript
\* that was installed, nor claims one that was not.
THEOREM RecordsTellTheTruth == Spec => []RecordsTruthful
<1>1. RInv => RecordsTruthful
  BY DEF RInv, Kept
<1> QED BY <1>1, RecordsInvariance, PTL

\* Completion and interruption are in the log only when the metadata says the
\* same, and an interruption only of a session that was aborted.
THEOREM EventsComeSecond == Spec => []EventsFollowRecords
<1>1. RInv => EventsFollowRecords
  BY DEF RInv, Kept
<1> QED BY <1>1, RecordsInvariance, PTL

\* execution_not_implemented, and the exit status that goes with it, are said
\* only of a prompt that was answered and whose records are all in place.
THEOREM PlaceholderIsEarned == Spec => []PlaceholderMeansCompleted
<1>1. ASSUME RInv PROVE PlaceholderMeansCompleted
  <2> SUFFICES ASSUME st.reason = Placeholder \/ \E c \in Controllers : mem[c].exit = "placeholder"
               PROVE  /\ st.state = "blocked"
                      /\ files.metadata.status = "completed" /\ files.result = "completed"
                      /\ files.transcript
                      /\ \E i \in Of("agent.completed") : prompts[log[i].session] = 1
    BY DEF PlaceholderMeansCompleted
  <2>1. st.reason = Placeholder
    BY <1>1 DEF RInv, ExitsAreTrue
  <2> QED BY <1>1, <2>1 DEF RInv, Kept, PlaceholderIsBacked, CompletedFor
<1> QED BY <1>1, RecordsInvariance, PTL

\* An invocation that ends by one of its handlers has aborted its session or
\* has an answer of it.
THEOREM NoSessionIsLeft == Spec => []NoSessionAbandoned
<1>1. ASSUME RInv PROVE NoSessionAbandoned
  <2> SUFFICES ASSUME NEW c \in Controllers, pc[c] = "exit", mem[c].session # None,
                      mem[c].error # "unexpected"
               PROVE  aborts[mem[c].session] = 1 \/ worker[c].step = "answered"
    BY DEF NoSessionAbandoned
  <2>1. HandlersKeep(c)
    BY <1>1 DEF RInv, Keeps, Active
  <2> QED BY <2>1 DEF HandlersKeep
<1> QED BY <1>1, RecordsInvariance, PTL

\* Nothing touches a run that has ended, nor the records of its invocation.
THEOREM EndedRunsAreLeftAlone == Spec => TerminalIsFinal
<1>1. IInv /\ RInv /\ [Next]_vars => [st.state \in Terminal => UNCHANGED <<log, st,
                                                                           files>>]_<<log, st,
                                                                           files>>
  BY NextRInv DEF Frozen
<1> QED BY <1>1, RecordsInvariance, PTL DEF Spec, TerminalIsFinal

(***************************************************************************)
(* What an invocation leaves that nothing has disturbed, and what one that *)
(* was disturbed once leaves of its session.                               *)
(*                                                                         *)
(* Without a fault there is one course only, up to signals and answers:    *)
(* Suits says at each step of _run exactly what the pair and the records   *)
(* then are, so that every guard of the next write is met.  A fault ends   *)
(* that; what remains of the session then is Held.                         *)
(***************************************************************************)

-----------------------------------------------------------------------------
(* A history that grows *)

LEMMA AppendedHistory ==
    ASSUME NEW h \in Seq(Events), NEW e \in Events
    PROVE  /\ Append(h, e) \in Seq(Events) /\ Len(Append(h, e)) = Len(h) + 1
           /\ DOMAIN Append(h, e) = DOMAIN h \cup {Len(h) + 1}
           /\ Len(h) + 1 \notin DOMAIN h /\ DOMAIN h = 1..Len(h) /\ Len(h) \in Nat
           /\ Append(h, e)[Len(h) + 1] = e
           /\ \A i \in DOMAIN h : Append(h, e)[i] = h[i]
OBVIOUS

LEMMA EarlierEvents ==
    ASSUME NEW h \in Seq(Events), NEW e \in Events, NEW types
    PROVE  /\ \A i \in DOMAIN h : Before(Append(h, e), i, types) = Before(h, i, types)
           /\ Before(Append(h, e), Len(h) + 1, types) = Positions(h, types)
<1> DEFINE g == Append(h, e)
<1>1. /\ DOMAIN g = DOMAIN h \cup {Len(h) + 1} /\ DOMAIN h = 1..Len(h) /\ Len(h) \in Nat
      /\ \A i \in DOMAIN h : g[i] = h[i]
  BY AppendedHistory
<1> HIDE DEF g
<1>2. ASSUME NEW i \in DOMAIN h PROVE Before(g, i, types) = Before(h, i, types)
  BY <1>1, <1>2 DEF Before
<1>3. Before(g, Len(h) + 1, types) = Positions(h, types)
  BY <1>1 DEF Before, Positions
<1> QED BY <1>2, <1>3 DEF g

LEMMA EarlierVerdicts ==
    ASSUME NEW h \in Seq(Events), NEW e \in Events, NEW i \in DOMAIN h, EventIsValid(h, i)
    PROVE  EventIsValid(Append(h, e), i)
<1> DEFINE g == Append(h, e)
<1>1. DOMAIN h = 1..Len(h) /\ Len(h) \in Nat /\ \A j \in DOMAIN h : g[j] = h[j]
  BY AppendedHistory
<1>2. \A types : Before(g, i, types) = Before(h, i, types)
  BY EarlierEvents
<1>3. ProbeRunning(g, i) <=> ProbeRunning(h, i)
  BY <1>2 DEF ProbeRunning
<1>4. g[i] = h[i] /\ (i # 1 => g[i - 1] = h[i - 1])
  BY <1>1
<1>5. \A j \in Before(h, i, {"agent.started"}) : g[j] = h[j]
  BY <1>1 DEF Before
<1> HIDE DEF g
<1>6. ASSUME i = 1 PROVE EventIsValid(g, i)
  BY <1>4, <1>6 DEF EventIsValid
<1>7. ASSUME i # 1 PROVE EventIsValid(g, i)
  <2>1. ObservationIsValid(g, i) <=> ObservationIsValid(h, i)
    BY <1>2, <1>3, <1>4, <1>5 DEF ObservationIsValid
  <2>2. TransitionIsValid(g, i) <=> TransitionIsValid(h, i)
    BY <1>2, <1>3, <1>4, <1>7 DEF TransitionIsValid
  <2> QED BY <1>4, <1>7, <2>1, <2>2 DEF EventIsValid
<1> QED BY <1>6, <1>7 DEF g

LEMMA LongerHistory ==
    ASSUME NEW h \in Seq(Events), NEW e \in Events, ValidHistory(h),
           EventIsValid(Append(h, e), Len(h) + 1)
    PROVE  ValidHistory(Append(h, e))
<1>1. DOMAIN Append(h, e) = DOMAIN h \cup {Len(h) + 1} /\ Append(h, e) # << >>
  BY AppendedHistory
<1>2. \A i \in DOMAIN h : EventIsValid(Append(h, e), i)
  BY EarlierVerdicts DEF ValidHistory
<1> QED BY <1>1, <1>2 DEF ValidHistory

\* The rules for the next event, in terms of the kinds of the events before it.
LEMMA NextEventRules ==
    ASSUME NEW h \in Seq(Events), NEW e \in Events, h # << >>
    PROVE  LET started == Positions(h, {"agent.started"})
               running == started # {} /\ Positions(h, EndTypes) = {}
               observation ==
                   /\ e.type = "server.validated" =>
                          Positions(h, {"server.validated"}) = {} /\ started = {}
                   /\ e.type = "agent.started" =>
                          Positions(h, {"server.validated"}) # {} /\ started = {}
                   /\ e.type \in EndTypes =>
                          running /\ \A j \in started : h[j].session = e.session
               transition ==
                   /\ e.type = Allowed(h[Len(h)].to, e.to)
                   /\ e.to \in Terminal => e.reason # "none"
                   /\ e.reason = Placeholder /\ Positions(h, {"server.validated"}) # {} =>
                          Positions(h, {"agent.completed"}) # {}
                   /\ ~running
           IN
           /\ h[Len(h)].to = "validating" /\ e.to = "validating" /\ e.type \in Observations =>
                  (EventIsValid(Append(h, e), Len(h) + 1) <=> observation)
           /\ h[Len(h)].to # "validating" \/ e.to # "validating" =>
                  (EventIsValid(Append(h, e), Len(h) + 1) <=> transition)
<1> DEFINE started == Positions(h, {"agent.started"})
<1> DEFINE running == started # {} /\ Positions(h, EndTypes) = {}
<1> DEFINE g == Append(h, e)
<1> DEFINE n == Len(h)
<1>1. /\ n \in Nat /\ n \in DOMAIN h /\ n + 1 # 1 /\ (n + 1) - 1 = n
      /\ g[n + 1] = e /\ \A j \in DOMAIN h : g[j] = h[j]
  BY AppendedHistory
<1>2. \A types : Before(g, n + 1, types) = Positions(h, types)
  BY EarlierEvents
<1>3. \A j \in Positions(h, {"agent.started"}) : g[j] = h[j]
  BY <1>1 DEF Positions
<1>4. g[(n + 1) - 1] = h[n]
  BY <1>1
<1> HIDE DEF g, n
<1>5. ProbeRunning(g, n + 1) <=>
          Positions(h, {"agent.started"}) # {} /\ Positions(h, EndTypes) = {}
  BY <1>2 DEF ProbeRunning
<1>6. EventIsValid(g, n + 1) <=>
          IF h[n].to = "validating" /\ e.to = "validating"
            THEN ObservationIsValid(g, n + 1) ELSE TransitionIsValid(g, n + 1)
  BY <1>1, <1>4 DEF EventIsValid, n
<1>7. ASSUME e.type \in Observations
      PROVE  ObservationIsValid(g, n + 1) <=>
                 /\ e.type = "server.validated" =>
                        Positions(h, {"server.validated"}) = {} /\ started = {}
                 /\ e.type = "agent.started" =>
                        Positions(h, {"server.validated"}) # {} /\ started = {}
                 /\ e.type \in EndTypes =>
                        running /\ \A j \in started : h[j].session = e.session
  BY <1>1, <1>2, <1>3, <1>5, <1>7 DEF ObservationIsValid, Observations, EndTypes
<1>8. TransitionIsValid(g, n + 1) <=>
          /\ e.type = Allowed(h[n].to, e.to)
          /\ e.to \in Terminal => e.reason # "none"
          /\ e.reason = Placeholder /\ Positions(h, {"server.validated"}) # {} =>
                 Positions(h, {"agent.completed"}) # {}
          /\ ~running
  BY <1>1, <1>2, <1>4, <1>5 DEF TransitionIsValid
<1> QED BY <1>6, <1>7, <1>8 DEF g, n

\* A pair that readers accept, and one that a writer makes of it.
LEMMA StaysReadable ==
    ASSUME TypeOK, ReaderAccepts(st, log), NEW r \in Asked, r.kind # "initial",
           MayWrite(st, log, log # << >>, r), NEW e, e = NextEvent(st, r),
           st.reason = "none", st.session = None \/ e.type \in EndTypes
    PROVE  ReaderAccepts(Apply(st, e), Append(log, e))
<1> DEFINE g == Append(log, e)
<1> DEFINE s == Apply(st, e)
<1> DEFINE n == Len(log)
<1>1. /\ log \in Seq(Events) /\ st \in States /\ e \in Events
      /\ r.kind = "observe" => e.type = r.type /\ e.session = r.session
      /\ r.kind # "observe" => e.type \notin Observations
  BY WrittenEvent DEF TypeOK
<1>2. /\ g # << >> /\ Len(g) = n + 1 /\ n \in Nat /\ g[n + 1] = e
      /\ DOMAIN g = DOMAIN log \cup {n + 1} /\ n + 1 \notin DOMAIN log /\ n + 1 \in DOMAIN g
      /\ \A i \in DOMAIN log : g[i] = log[i]
  BY <1>1, AppendedHistory
<1>3. ValidHistory(g) /\ PairAgrees(st, log) /\ log # << >> /\ n \in DOMAIN log
  <2>1. ValidHistory(g) BY DEF MayWrite, Asked
  <2>2. PairAgrees(st, log) BY DEF ReaderAccepts
  <2>3. log # << >> BY <2>2 DEF PairAgrees, ValidHistory
  <2> QED BY <1>1, <2>1, <2>2, <2>3
<1>4. e.run = st.run
  BY DEF NextEvent, Asked
<1>5. st.run = log[n].run /\ n = st.seq /\ SingleRun(log)
  BY <1>3 DEF PairAgrees
<1>6. SingleRun(g)
  BY <1>2, <1>3, <1>4, <1>5 DEF SingleRun
<1>7. /\ s.run = e.run /\ s.state = e.to /\ s.seq = n + 1 /\ s # NoState
      /\ s.server = (st.server \/ e.type = "server.validated")
      /\ s.session = IF e.type = "agent.started" THEN e.session
                     ELSE IF e.type \in EndTypes THEN None ELSE st.session
  BY <1>1, <1>2, <1>5 DEF Apply, NoState, EndTypes
<1>8. s.reason = e.reason
  <2>1. CASE e.type \in Observations
    <3>1. r.kind = "observe" BY <1>1, <2>1
    <3>2. e.reason = "none" BY <3>1 DEF NextEvent
    <3> QED BY <2>1, <3>2 DEF Apply
  <2>2. CASE e.type \notin Observations
    BY <2>2 DEF Apply
  <2> QED BY <2>1, <2>2
<1>9. s.server = (\E i \in DOMAIN g : g[i].type = "server.validated")
  <2>1. st.server = (\E i \in DOMAIN log : log[i].type = "server.validated")
    BY DEF ReaderAccepts
  <2> HIDE DEF g, s, n
  <2> QED BY <1>2, <1>7, <2>1
<1>10. ASSUME e.type = "agent.started"
       PROVE  s.session # None /\ s.server /\ s.state = "validating" /\ s.session = e.session
  <2>1. r.kind = "observe" /\ r.type = "agent.started" /\ r.session # None /\ st.state = "validating"
    <3>1. r.kind = "observe" /\ r.type = "agent.started"
      BY <1>1, <1>10 DEF Observations
    <3> QED BY <3>1 DEF MayWrite, ObserveAllowed
  <2>2. e.to = "validating" /\ e.session # None
    BY <1>1, <2>1 DEF NextEvent
  <2>3. log[n].to = "validating"
    BY <1>3, <2>1 DEF PairAgrees
  <2>4. Positions(log, {"server.validated"}) # {}
    <3>1. EventIsValid(g, n + 1)
      BY <1>2, <1>3 DEF ValidHistory
    <3>2. e.type # "server.validated" /\ e.to = "validating"
      BY <1>10, <2>2
    <3>3. log[n].to = "validating" /\ e.to = "validating" /\ e.type = "agent.started"
          => (EventIsValid(g, n + 1) => Positions(log, {"server.validated"}) # {})
      BY <1>1, <1>3, NextEventRules DEF Observations
    <3> QED BY <1>10, <2>3, <3>1, <3>2, <3>3
  <2>5. st.server
    BY <2>4 DEF ReaderAccepts, Positions
  <2> HIDE DEF g, s, n
  <2> QED BY <1>7, <1>10, <2>2, <2>5
<1>11. (s.session # None) <=> e.type = "agent.started"
  <2> HIDE DEF g, s, n
  <2> QED BY <1>7, <1>10 DEF EndTypes
<1> HIDE DEF g, s, n
<1>12. PairAgrees(s, g)
  BY <1>2, <1>3, <1>6, <1>7, <1>8 DEF PairAgrees
<1>13. ReaderAccepts(s, g)
  BY <1>2, <1>9, <1>10, <1>11, <1>12 DEF ReaderAccepts
<1> QED BY <1>13 DEF g, s

-----------------------------------------------------------------------------
(* The stages of a run *)

Has(type) == Of(type) # {}

\* The pair is readable, and this is how far it has come.
Reads(state, active) ==
    ReaderAccepts(st, log) /\ st.state = state /\ st.session = active /\ st.reason = "none"

Unstarted == ~Has("agent.started") /\ ~SomeCompleted /\ ~SomeInterrupted
StartedWith(s) == Has("agent.started") /\ \A i \in Of("agent.started") : log[i].session = s
Over == SomeCompleted \/ SomeInterrupted

New == Reads("initializing", None) /\ ~Has("server.validated") /\ Unstarted
Entered == Reads("validating", None) /\ ~Has("server.validated") /\ Unstarted
Validated == Reads("validating", None) /\ Has("server.validated") /\ Unstarted
Begun(s) ==
    Reads("validating", s) /\ Has("server.validated") /\ StartedWith(s) /\ ~Over
Closable == Reads("validating", None) /\ (Has("agent.started") => Over)

\* The pair is what a request makes of it that does not fail.
Grew(r) == log' = Append(log, NextEvent(st, r)) /\ st' = Apply(st, NextEvent(st, r))
May(r) == MayWrite(st, log, log # << >>, r)

LEMMA KindsGrow ==
    ASSUME TypeOK, NEW e \in Events, log' = Append(log, e)
    PROVE  /\ \A type : Has(type)' <=> Has(type) \/ e.type = type
           /\ SomeCompleted' <=> SomeCompleted \/ e.type = "agent.completed"
           /\ SomeInterrupted' <=> SomeInterrupted \/ e.type = "agent.interrupted"
           /\ \A s : e.type # "agent.started" /\ StartedWith(s) => StartedWith(s)'
           /\ ~Has("agent.started") /\ e.type = "agent.started" => StartedWith(e.session)'
<1>1. /\ DOMAIN log' = DOMAIN log \cup {Len(log) + 1} /\ Len(log) + 1 \notin DOMAIN log
      /\ log'[Len(log) + 1] = e /\ \A i \in DOMAIN log : log'[i] = log[i]
  BY AppendedHistory DEF TypeOK
<1>2. ASSUME NEW type
      PROVE  Of(type)' = IF e.type = type THEN Of(type) \cup {Len(log) + 1} ELSE Of(type)
  BY <1>1 DEF Of, Positions
<1>3. ASSUME NEW type PROVE Has(type)' <=> Has(type) \/ e.type = type
  BY <1>2 DEF Has
<1>4. /\ SomeCompleted' <=> SomeCompleted \/ e.type = "agent.completed"
      /\ SomeInterrupted' <=> SomeInterrupted \/ e.type = "agent.interrupted"
  BY <1>2 DEF SomeCompleted, SomeInterrupted
<1>5. ASSUME NEW s, e.type # "agent.started", StartedWith(s) PROVE StartedWith(s)'
  <2>1. Of("agent.started")' = Of("agent.started") BY <1>2, <1>5
  <2>2. Of("agent.started") \subseteq DOMAIN log BY DEF Of, Positions
  <2> QED BY <1>1, <1>5, <2>1, <2>2 DEF StartedWith, Has
<1>6. ASSUME ~Has("agent.started"), e.type = "agent.started" PROVE StartedWith(e.session)'
  <2>1. Of("agent.started")' = {Len(log) + 1} BY <1>2, <1>6 DEF Has
  <2> QED BY <1>1, <2>1 DEF StartedWith, Has
<1> QED BY <1>3, <1>4, <1>5, <1>6

\* What the readable pair says of its last event, and what the kinds of events
\* say to the rules for the next one.
LEMMA LastEvent ==
    ASSUME TypeOK, ReaderAccepts(st, log)
    PROVE  /\ PairAgrees(st, log) /\ ValidHistory(log) /\ log # << >> /\ log \in Seq(Events)
           /\ log[Len(log)].to = st.state /\ st.run \in Runs
           /\ st.server <=> Has("server.validated")
           /\ Over <=> Positions(log, EndTypes) # {}
<1>1. PairAgrees(st, log) /\ ValidHistory(log) /\ log # << >> /\ log \in Seq(Events)
  BY DEF TypeOK, ReaderAccepts, PairAgrees, ValidHistory
<1>2. log[Len(log)].to = st.state /\ log[Len(log)].run = st.run /\ log[Len(log)] \in Events
  BY <1>1 DEF PairAgrees
<1>3. st.run \in Runs
  BY <1>2 DEF Events
<1>4. st.server <=> Has("server.validated")
  BY DEF ReaderAccepts, Has, Of, Positions
<1>5. Over <=> Positions(log, EndTypes) # {}
  BY DEF Over, SomeCompleted, SomeInterrupted, Of, Positions, EndTypes
<1> QED BY <1>1, <1>2, <1>3, <1>4, <1>5

\* The one step each stage lets its writer make.
LEMMA RunEnters ==
    ASSUME TypeOK, New, NEW r, r = Transition("validating", "none")
    PROVE  r \in Asked /\ May(r) /\ (Grew(r) => Entered')
<1> DEFINE e == NextEvent(st, r)
<1>1. /\ PairAgrees(st, log) /\ ValidHistory(log) /\ log # << >> /\ log \in Seq(Events)
      /\ log[Len(log)].to = "initializing" /\ st.run \in Runs /\ st.state = "initializing"
      /\ ReaderAccepts(st, log)
  BY LastEvent DEF New, Reads
<1>2. r \in Asked /\ r.kind = "transition" /\ r.to = "validating" /\ r.reason = "none"
  BY DEF Asked, Transition, Reasons
<1>3. e = [type |-> "state.entered", to |-> "validating", run |-> st.run,
           session |-> None, reason |-> "none"]
  BY <1>1, <1>2 DEF NextEvent, Allowed
<1>4. e \in Events /\ e.type = "state.entered" /\ e.to = "validating" /\ e.reason = "none"
  BY <1>1, <1>3 DEF Events, EventTypes, WorkflowStates, Reasons
<1>5. May(r)
  <2>1. EventIsValid(Append(log, e), Len(log) + 1)
    <3>1. Positions(log, {"agent.started"}) = {}
      BY DEF New, Unstarted, Has, Of
    <3>2. e.type = Allowed(log[Len(log)].to, e.to)
      BY <1>1, <1>4 DEF Allowed
    <3> HIDE DEF e
    <3> QED BY <1>1, <1>4, <3>1, <3>2, NextEventRules DEF Terminal, Placeholder
  <2>2. ValidHistory(Append(log, e))
    BY <1>1, <1>4, <2>1, LongerHistory
  <2>3. Allowed(st.state, r.to) # "none" /\ r.to \notin Terminal
    BY <1>1, <1>2 DEF Allowed, Terminal
  <2> QED BY <1>1, <1>2, <2>2, <2>3 DEF May, MayWrite
<1>6. ASSUME Grew(r) PROVE Entered'
  <2>1. ReaderAccepts(Apply(st, e), Append(log, e))
    BY <1>1, <1>2, <1>5, StaysReadable DEF New, Reads, May
  <2>2. log' = Append(log, e) /\ st' = Apply(st, e)
    BY <1>6 DEF Grew
  <2> HIDE DEF e
  <2>3. st'.state = "validating" /\ st'.session = None /\ st'.reason = "none"
    BY <1>4, <2>2 DEF New, Reads, Apply, Observations
  <2>4. Unstarted' /\ ~Has("server.validated")'
    BY <1>4, <2>2, KindsGrow DEF New, Unstarted
  <2> QED BY <2>1, <2>2, <2>3, <2>4 DEF Entered, Reads
<1> QED BY <1>2, <1>5, <1>6

LEMMA ServerIsNoted ==
    ASSUME TypeOK, Entered, NEW r, r = Observation("server.validated", None)
    PROVE  r \in Asked /\ May(r) /\ (Grew(r) => Validated')
<1> DEFINE e == NextEvent(st, r)
<1>1. /\ PairAgrees(st, log) /\ ValidHistory(log) /\ log # << >> /\ log \in Seq(Events)
      /\ log[Len(log)].to = "validating" /\ st.run \in Runs /\ st.state = "validating"
      /\ ReaderAccepts(st, log) /\ ~st.server
  BY LastEvent DEF Entered, Reads
<1>2. /\ r \in Asked /\ r.kind = "observe" /\ r.type = "server.validated" /\ r.session = None
  BY DEF Asked, Observation, Observations
<1>3. e = [type |-> "server.validated", to |-> "validating", run |-> st.run,
           session |-> None, reason |-> "none"]
  BY <1>1, <1>2 DEF NextEvent
<1>4. e \in Events /\ e.type = "server.validated" /\ e.to = "validating" /\ e.reason = "none"
  BY <1>1, <1>3 DEF Events, EventTypes, Observations, WorkflowStates, Reasons
<1>5. May(r)
  <2>1. EventIsValid(Append(log, e), Len(log) + 1)
    <3>1. Positions(log, {"agent.started"}) = {} /\ Positions(log, {"server.validated"}) = {}
      BY DEF Entered, Unstarted, Has, Of
    <3> HIDE DEF e
    <3> QED BY <1>1, <1>4, <3>1, NextEventRules DEF Observations, EndTypes
  <2>2. ValidHistory(Append(log, e))
    BY <1>1, <1>4, <2>1, LongerHistory
  <2> QED BY <1>1, <1>2, <2>2 DEF May, MayWrite, ObserveAllowed
<1>6. ASSUME Grew(r) PROVE Validated'
  <2>1. ReaderAccepts(Apply(st, e), Append(log, e))
    BY <1>1, <1>2, <1>5, StaysReadable DEF Entered, Reads, May
  <2>2. log' = Append(log, e) /\ st' = Apply(st, e)
    BY <1>6 DEF Grew
  <2> HIDE DEF e
  <2>3. st'.state = "validating" /\ st'.session = None /\ st'.reason = "none"
    BY <1>4, <2>2 DEF Entered, Reads, Apply, Observations
  <2>4. Unstarted' /\ Has("server.validated")'
    BY <1>4, <2>2, KindsGrow DEF Entered, Unstarted
  <2> QED BY <2>1, <2>2, <2>3, <2>4 DEF Validated, Reads
<1> QED BY <1>2, <1>5, <1>6

LEMMA AgentStarts ==
    ASSUME TypeOK, Validated, NEW s \in Sessions, NEW r, r = Observation("agent.started", s)
    PROVE  r \in Asked /\ May(r) /\ (Grew(r) => Begun(s)')
<1> DEFINE e == NextEvent(st, r)
<1>1. /\ PairAgrees(st, log) /\ ValidHistory(log) /\ log # << >> /\ log \in Seq(Events)
      /\ log[Len(log)].to = "validating" /\ st.run \in Runs /\ st.state = "validating"
      /\ ReaderAccepts(st, log)
  BY LastEvent DEF Validated, Reads
<1>2. /\ r \in Asked /\ r.kind = "observe" /\ r.type = "agent.started" /\ r.session = s
      /\ s # None
  BY HistoryAssumption DEF Asked, Observation, Observations
<1>3. e = [type |-> "agent.started", to |-> "validating", run |-> st.run,
           session |-> s, reason |-> "none"]
  BY <1>1, <1>2 DEF NextEvent
<1>4. /\ e \in Events /\ e.type = "agent.started" /\ e.to = "validating" /\ e.reason = "none"
      /\ e.session = s
  BY <1>1, <1>3 DEF Events, EventTypes, Observations, WorkflowStates, Reasons
<1>5. May(r)
  <2>1. EventIsValid(Append(log, e), Len(log) + 1)
    <3>1. Positions(log, {"agent.started"}) = {} /\ Positions(log, {"server.validated"}) # {}
      BY DEF Validated, Unstarted, Has, Of
    <3> HIDE DEF e
    <3> QED BY <1>1, <1>4, <3>1, NextEventRules DEF Observations, EndTypes
  <2>2. ValidHistory(Append(log, e))
    BY <1>1, <1>4, <2>1, LongerHistory
  <2> QED BY <1>1, <1>2, <2>2 DEF Validated, Reads, May, MayWrite, ObserveAllowed
<1>6. ASSUME Grew(r) PROVE Begun(s)'
  <2>1. ReaderAccepts(Apply(st, e), Append(log, e))
    BY <1>1, <1>2, <1>5, StaysReadable DEF Validated, Reads, May
  <2>2. log' = Append(log, e) /\ st' = Apply(st, e)
    BY <1>6 DEF Grew
  <2> HIDE DEF e
  <2>3. st'.state = "validating" /\ st'.session = s /\ st'.reason = "none"
    BY <1>4, <2>2 DEF Validated, Reads, Apply, Observations
  <2>4. StartedWith(s)' /\ Has("server.validated")' /\ ~Over'
    BY <1>4, <2>2, KindsGrow DEF Validated, Unstarted, Over
  <2> QED BY <2>1, <2>2, <2>3, <2>4 DEF Begun, Reads
<1> QED BY <1>2, <1>5, <1>6

LEMMA AgentEnds ==
    ASSUME TypeOK, NEW s \in Sessions, Begun(s), NEW type \in EndTypes,
           NEW r, r = Observation(type, s)
    PROVE  /\ r \in Asked /\ May(r)
           /\ Grew(r) => /\ Closable' /\ StartedWith(s)' /\ Has("server.validated")'
                         /\ SomeCompleted' <=> type = "agent.completed"
                         /\ SomeInterrupted' <=> type = "agent.interrupted"
<1> DEFINE e == NextEvent(st, r)
<1>1. /\ PairAgrees(st, log) /\ ValidHistory(log) /\ log # << >> /\ log \in Seq(Events)
      /\ log[Len(log)].to = "validating" /\ st.run \in Runs /\ st.state = "validating"
      /\ ReaderAccepts(st, log) /\ Positions(log, EndTypes) = {}
  BY LastEvent DEF Begun, Reads
<1>2. /\ r \in Asked /\ r.kind = "observe" /\ r.type = type /\ r.session = s
      /\ s # None /\ type \in {"agent.completed", "agent.interrupted"}
  BY HistoryAssumption DEF Asked, Observation, Observations, EndTypes
<1>3. e = [type |-> type, to |-> "validating", run |-> st.run,
           session |-> s, reason |-> "none"]
  BY <1>1, <1>2 DEF NextEvent
<1>4. /\ e \in Events /\ e.type = type /\ e.to = "validating" /\ e.reason = "none"
      /\ e.session = s
  BY <1>1, <1>2, <1>3 DEF Events, EventTypes, Observations, WorkflowStates, Reasons
<1>5. May(r)
  <2>1. EventIsValid(Append(log, e), Len(log) + 1)
    <3>1. /\ Positions(log, {"agent.started"}) # {}
          /\ \A j \in Positions(log, {"agent.started"}) : log[j].session = s
      BY DEF Begun, StartedWith, Has, Of
    <3> HIDE DEF e
    <3> QED BY <1>1, <1>4, <3>1, NextEventRules DEF Observations, EndTypes
  <2>2. ValidHistory(Append(log, e))
    BY <1>1, <1>4, <2>1, LongerHistory
  <2>3. st.session = s
    BY DEF Begun, Reads
  <2> QED BY <1>1, <1>2, <2>2, <2>3 DEF May, MayWrite, ObserveAllowed
<1>6. ASSUME Grew(r)
      PROVE  /\ Closable' /\ StartedWith(s)' /\ Has("server.validated")'
             /\ SomeCompleted' <=> type = "agent.completed"
             /\ SomeInterrupted' <=> type = "agent.interrupted"
  <2>1. ReaderAccepts(Apply(st, e), Append(log, e))
    BY <1>1, <1>2, <1>4, <1>5, StaysReadable DEF Begun, Reads, May
  <2>2. log' = Append(log, e) /\ st' = Apply(st, e)
    BY <1>6 DEF Grew
  <2> HIDE DEF e
  <2>3. st'.state = "validating" /\ st'.session = None /\ st'.reason = "none"
    BY <1>2, <1>4, <2>2 DEF Begun, Reads, Apply, Observations
  <2>4. /\ StartedWith(s)' /\ Has("server.validated")'
        /\ SomeCompleted' <=> type = "agent.completed"
        /\ SomeInterrupted' <=> type = "agent.interrupted"
    BY <1>2, <1>4, <2>2, KindsGrow DEF Begun, Over
  <2> QED BY <1>2, <2>1, <2>2, <2>3, <2>4 DEF Closable, Reads, Over
<1> QED BY <1>2, <1>5, <1>6

\* A run that has no active invocation can be blocked, with the placeholder only
\* after a completion.
LEMMA RunBlocks ==
    ASSUME TypeOK, Closable, NEW reason \in {"other", Placeholder},
           reason = Placeholder => SomeCompleted,
           NEW r, r = Transition("blocked", reason)
    PROVE  /\ r \in Asked /\ May(r)
           /\ Grew(r) => /\ ReaderAccepts(st, log)' /\ st'.state = "blocked"
                         /\ st'.session = None /\ st'.reason = reason /\ log' # << >>
                         /\ \A types : "run.blocked" \notin types => Positions(log', types) = Positions(log, types)
                         /\ \A i \in DOMAIN log : log'[i] = log[i]
<1> DEFINE e == NextEvent(st, r)
<1>1. /\ PairAgrees(st, log) /\ ValidHistory(log) /\ log # << >> /\ log \in Seq(Events)
      /\ log[Len(log)].to = "validating" /\ st.run \in Runs /\ st.state = "validating"
      /\ ReaderAccepts(st, log) /\ (Over <=> Positions(log, EndTypes) # {})
  BY LastEvent DEF Closable, Reads
<1>2. /\ r \in Asked /\ r.kind = "transition" /\ r.to = "blocked" /\ r.reason = reason
      /\ reason # "none"
  BY DEF Asked, Transition, Reasons, Placeholder
<1>3. e = [type |-> "run.blocked", to |-> "blocked", run |-> st.run,
           session |-> None, reason |-> reason]
  BY <1>1, <1>2 DEF NextEvent, Allowed
<1>4. /\ e \in Events /\ e.type = "run.blocked" /\ e.to = "blocked" /\ e.reason = reason
  BY <1>1, <1>3 DEF Events, EventTypes, WorkflowStates, Reasons
<1>5. May(r)
  <2>1. EventIsValid(Append(log, e), Len(log) + 1)
    <3>1. /\ Positions(log, {"agent.started"}) # {} => Positions(log, EndTypes) # {}
          /\ SomeCompleted => Positions(log, {"agent.completed"}) # {}
      BY <1>1 DEF Closable, Has, Of, SomeCompleted
    <3>2. e.type = Allowed(log[Len(log)].to, e.to)
      BY <1>1, <1>4 DEF Allowed
    <3> HIDE DEF e
    <3> QED BY <1>1, <1>2, <1>4, <3>1, <3>2, NextEventRules DEF SomeCompleted, Of
  <2>2. ValidHistory(Append(log, e))
    BY <1>1, <1>4, <2>1, LongerHistory
  <2>3. Allowed(st.state, r.to) # "none"
    BY <1>1, <1>2 DEF Allowed
  <2> QED BY <1>1, <1>2, <2>2, <2>3 DEF May, MayWrite
<1>6. ASSUME Grew(r)
      PROVE  /\ ReaderAccepts(st, log)' /\ st'.state = "blocked"
             /\ st'.session = None /\ st'.reason = reason /\ log' # << >>
             /\ \A types : "run.blocked" \notin types => Positions(log', types) = Positions(log, types)
             /\ \A i \in DOMAIN log : log'[i] = log[i]
  <2>1. ReaderAccepts(Apply(st, e), Append(log, e))
    BY <1>1, <1>2, <1>5, StaysReadable DEF Closable, Reads, May
  <2>2. log' = Append(log, e) /\ st' = Apply(st, e)
    BY <1>6 DEF Grew
  <2> HIDE DEF e
  <2>3. st'.state = "blocked" /\ st'.session = None /\ st'.reason = reason
    BY <1>4, <2>2 DEF Closable, Reads, Apply, Observations, EndTypes
  <2>4. /\ DOMAIN log' = DOMAIN log \cup {Len(log) + 1} /\ log'[Len(log) + 1] = e
        /\ \A i \in DOMAIN log : log'[i] = log[i]
        /\ log' # << >>
    BY <1>1, <1>4, <2>2, AppendedHistory
  <2>5. \A types : "run.blocked" \notin types => Positions(log', types) = Positions(log, types)
    BY <1>4, <2>4 DEF Positions
  <2> QED BY <2>1, <2>2, <2>3, <2>4, <2>5
<1> QED BY <1>2, <1>5, <1>6

-----------------------------------------------------------------------------
(* The records at each stage *)

\* Metadata before and after the answer, and a directory without temporary names.
OpenMetadata(status, s) == [NoMetadata EXCEPT !.status = status, !.session = s]
DoneMetadata(answer, s) ==
    [status |-> answer, session |-> s, result |-> answer, transcript |-> "kept"]
StoppedMetadata(m, status, evidence) ==
    Closed(m, status, IF evidence THEN "kept" ELSE "unavailable")
Filled(meta, prompt, result, transcript) ==
    /\ files.dir /\ files.metadata = meta /\ files.prompt = prompt
    /\ files.result = result /\ files.transcript = transcript
    /\ files.linked = {} /\ ~files.stray

Blockable == Accepted /\ Closable /\ files.linked = {}

Settled ==
    \/ NothingThere /\ files = NoFiles
    \/ Accepted /\ st.state = "blocked" /\ st.session = None

LEMMA PlannedMetadata ==
    /\ NoMetadata \in Metadata /\ Planned \in Metadata /\ LifecycleValid(Planned)
    /\ LET m == StoppedMetadata(Planned, "interrupted", FALSE) IN
       /\ m \in Metadata /\ LifecycleValid(m)
       /\ m.status = "interrupted" /\ m.session = None /\ m.result = "none"
       /\ m.transcript = "unavailable"
<1> DEFINE m == StoppedMetadata(Planned, "interrupted", FALSE)
<1>1. NoMetadata \in Metadata
  BY DEF Metadata, NoMetadata
<1>2. Planned \in Metadata /\ Planned.session = None
  BY <1>1 DEF Planned, NoMetadata, Metadata
<1>3. LifecycleValid(Planned)
  BY DEF LifecycleValid, Planned, NoMetadata
<1>4. /\ m \in Metadata /\ m.status = "interrupted" /\ m.session = None /\ m.result = "none"
      /\ m.transcript = "unavailable"
  BY <1>2 DEF StoppedMetadata, Closed, Metadata, Final
<1> HIDE DEF m
<1>5. LifecycleValid(m)
  BY <1>4 DEF LifecycleValid
<1> QED BY <1>1, <1>2, <1>3, <1>4, <1>5 DEF m

LEMMA StartedMetadata ==
    ASSUME NEW s \in Sessions, NEW status \in {"session_created", "running"},
           NEW closing \in {"interrupted", "timed_out", "failed"}, NEW evidence \in BOOLEAN
    PROVE  /\ OpenMetadata(status, s) \in Metadata /\ LifecycleValid(OpenMetadata(status, s))
           /\ LET m == StoppedMetadata(OpenMetadata(status, s), closing, evidence) IN
              /\ m \in Metadata /\ LifecycleValid(m)
              /\ m.status = closing /\ m.session = s /\ m.result = "none"
              /\ m.transcript = IF evidence THEN "kept" ELSE "unavailable"
<1> DEFINE o == OpenMetadata(status, s)
           m == StoppedMetadata(o, closing, evidence)
<1>1. o \in Metadata /\ o.status = status /\ o.session = s /\ o.result = "none"
      /\ o.transcript = "pending"
  BY PlannedMetadata DEF OpenMetadata, NoMetadata, Metadata
<1> HIDE DEF o
<1>2. /\ m \in Metadata /\ m.status = closing /\ m.session = s /\ m.result = "none"
      /\ m.transcript = IF evidence THEN "kept" ELSE "unavailable"
  BY <1>1 DEF StoppedMetadata, Closed, Metadata, Final, Results
<1> HIDE DEF m
<1>3. LifecycleValid(o) /\ LifecycleValid(m)
  BY <1>1, <1>2, HistoryAssumption DEF LifecycleValid
<1> QED BY <1>1, <1>2, <1>3 DEF o, m

LEMMA AnsweredMetadata ==
    ASSUME NEW s \in Sessions, NEW answer \in Results
    PROVE  DoneMetadata(answer, s) \in Metadata /\ LifecycleValid(DoneMetadata(answer, s))
BY HistoryAssumption DEF DoneMetadata, Metadata, Final, Results, LifecycleValid

\* What the readers make of the records once the pair has no active invocation:
\* of f, snapshot x and log l.
LEMMA StoppedRecords ==
    ASSUME NEW f, NEW x, NEW l, x.session = None, x.reason = "none",
           NEW m, m = StoppedMetadata(Planned, "interrupted", FALSE),
           f.dir, f.metadata = m, f.prompt, f.result = "none", f.transcript = FALSE,
           f.linked = {}, ~f.stray,
           \A type \in {"agent.started"} \cup EndTypes : Positions(l, {type}) = {}
    PROVE  RecordsAccepted(f, x, l)
<1>1. /\ LifecycleValid(m) /\ m.status = "interrupted" /\ m.session = None /\ m.result = "none"
      /\ m.transcript = "unavailable"
  BY PlannedMetadata
<1>2. /\ Positions(l, {"agent.started"}) = {} /\ Positions(l, {"agent.completed"}) = {}
      /\ Positions(l, {"agent.interrupted"}) = {}
  BY DEF EndTypes
<1>3. MetadataAgrees(m, x, l)
  BY <1>1, <1>2 DEF MetadataAgrees
<1>4. TemporaryNamesAccepted(f, x, l)
  BY DEF TemporaryNamesAccepted
<1>5. ArtifactsAgree(m, f.result, f.transcript, x, l)
  BY <1>1 DEF ArtifactsAgree, Placeholder
<1> QED BY <1>3, <1>4, <1>5 DEF RecordsAccepted

LEMMA EndedRecords ==
    ASSUME NEW f, NEW x, NEW l, x.session = None, x.reason = "none",
           NEW s \in Sessions, NEW m, LifecycleValid(m), m.session = s, m.status \in Final,
           f.dir, f.metadata = m, f.prompt, f.result = m.result,
           f.transcript = (m.transcript = "kept"), f.linked = {}, ~f.stray,
           \A i \in Positions(l, {"agent.started"}) : l[i].session = s,
           Positions(l, {"agent.completed"}) # {} => m.status \in Results,
           Positions(l, {"agent.interrupted"}) # {} => m.status \in {"timed_out", "interrupted"}
    PROVE  RecordsAccepted(f, x, l)
<1>1. m.status # "none" /\ m.status # "planned" /\ s # None
  BY HistoryAssumption DEF Final, Results
<1>2. MetadataAgrees(m, x, l)
  BY <1>1 DEF MetadataAgrees
<1>3. TemporaryNamesAccepted(f, x, l)
  BY DEF TemporaryNamesAccepted
<1>4. ArtifactsAgree(m, f.result, f.transcript, x, l)
  BY <1>1 DEF ArtifactsAgree, Placeholder
<1> QED BY <1>2, <1>3, <1>4 DEF RecordsAccepted

\* Blocking the run keeps it acceptable.
LEMMA BlockedAccepts ==
    ASSUME TypeOK, Blockable, NEW reason \in {"other", Placeholder},
           NEW r, r = Transition("blocked", reason),
           reason = Placeholder =>
               /\ SomeCompleted /\ files.dir
               /\ files.metadata.status = "completed" /\ files.metadata.transcript = "kept"
    PROVE  r \in Asked /\ May(r) /\ (Grew(r) /\ UNCHANGED files => Settled')
<1>1. Closable /\ files.linked = {} /\ RecordsAccepted(files, st, log)
  BY DEF Blockable, Accepted
<1>2. r \in Asked /\ May(r)
  BY <1>1, RunBlocks
<1>3. ASSUME Grew(r), files' = files PROVE Settled'
  <2>1. /\ ReaderAccepts(st, log)' /\ st'.state = "blocked"
        /\ st'.session = None /\ st'.reason = reason /\ log' # << >>
        /\ \A types : "run.blocked" \notin types => Positions(log', types) = Positions(log, types)
        /\ \A i \in DOMAIN log : log'[i] = log[i]
    BY <1>1, <1>3, RunBlocks
  <2>2. /\ Positions(log', {"agent.started"} \cup EndTypes) = Positions(log, {"agent.started"} \cup EndTypes)
        /\ \A t \in {"agent.started", "agent.completed", "agent.interrupted"} :
              Positions(log', {t}) = Positions(log, {t})
    BY <2>1 DEF EndTypes
  <2>3. \A i \in Positions(log, {"agent.started"}) : log'[i] = log[i]
    BY <2>1 DEF Positions
  <2>4. RecordsAccepted(files, st', log')
    <3>1. CASE ~files.dir
      BY <1>1, <2>2, <3>1 DEF RecordsAccepted
    <3>2. CASE files.dir
      <4>1. MetadataAgrees(files.metadata, st', log')
        BY <1>1, <2>1, <2>2, <2>3, <3>2 DEF RecordsAccepted, MetadataAgrees
      <4>2. TemporaryNamesAccepted(files, st', log')
        BY <1>1, <3>2 DEF RecordsAccepted, TemporaryNamesAccepted
      <4>3. SomeCompleted => Positions(log', {"agent.completed"}) # {}
        BY <2>2 DEF SomeCompleted, Of
      <4>4. ArtifactsAgree(files.metadata, files.result, files.transcript, st', log')
        BY <1>1, <2>1, <3>2, <4>3 DEF RecordsAccepted, ArtifactsAgree, Placeholder
      <4> QED BY <1>1, <3>2, <4>1, <4>2, <4>4 DEF RecordsAccepted
    <3> QED BY <3>1, <3>2
  <2> QED BY <1>3, <2>1, <2>4 DEF Settled, Accepted
<1> QED BY <1>2, <1>3

-----------------------------------------------------------------------------
(* The durable steps, with what they cost *)

\* Whatever fails or dies is counted.
Count == faults + crashes

LEMMA CountIsNatural ==
    ASSUME TypeOK
    PROVE  Count \in Nat /\ faults \in Nat /\ crashes \in Nat
BY ControllerAssumption DEF TypeOK, Count

LEMMA HowItCounts ==
    ASSUME TypeOK, NEW c, NEW m, NEW error, NEW next
    PROVE  /\ Returns(c, m, next) \/ Raises(c, m, error, next) => Count' = Count
           /\ Fails(c, m, error, next) \/ Dies(c) => Count' = Count + 1
BY CountIsNatural DEF Returns, Raises, Fails, Dies, Count

LEMMA DurableCounts ==
    ASSUME TypeOK, NEW c \in Controllers, NEW r \in Asked, NEW m \in Memory,
           NEW done \in Memory, NEW next \in Steps, NEW target \in Steps,
           Durable(c, r, m, done, next, target)
    PROVE  /\ Count' \in {Count, Count + 1}
           /\ Count' = Count => \/ Reaches(c, done, next)
                               \/ Reaches(c, Noted(m, "other", target), target)
           /\ May(r) => \/ Grew(r) /\ Reaches(c, done, next) /\ Count' = Count
                        \/ /\ Count' = Count + 1
                           /\ Reaches(c, Noted(m, "other", target), target) \/ Ends(c)
<1> DEFINE e == NextEvent(st, r)
<1>1. "other" \in Errors
  BY DEF Errors
<1>2. CASE ~May(r)
  <2>1. Raises(c, m, "other", target)
    BY <1>2 DEF Durable, May
  <2>2. Reaches(c, Noted(m, "other", target), target)
    BY <1>1, <2>1, ErrorReach
  <2> QED BY <1>2, <2>1, <2>2, HowItCounts
<1>3. CASE May(r)
  <2>1. \/ Grew(r) /\ Returns(c, done, next)
        \/ Fails(c, m, "other", target) \/ Dies(c)
    BY <1>3 DEF Durable, May, Grew
  <2>2. CASE Grew(r) /\ Returns(c, done, next)
    BY <2>2, ReturnsReach, HowItCounts
  <2>3. CASE Fails(c, m, "other", target) \/ Dies(c)
    BY <1>1, <2>3, ErrorReach, DeathEnds, HowItCounts, CountIsNatural
  <2> QED BY <2>1, <2>2, <2>3
<1> QED BY <1>2, <1>3

LEMMA WriteCounts ==
    ASSUME TypeOK, NEW c \in Controllers, NEW a, NEW v, Fits(a, v), NEW m \in Memory,
           NEW done \in Memory, NEW next \in Steps, NEW target \in Steps,
           WriteFile(c, a, v, m, done, next, target)
    PROVE  /\ Count' \in {Count, Count + 1}
           /\ Count' = Count => \/ Reaches(c, done, next)
                               \/ Reaches(c, Noted(m, "other", target), target)
           /\ MayInstall(files, a, v) =>
                  \/ files' = Put(files, a, v) /\ Reaches(c, done, next) /\ Count' = Count
                  \/ /\ Count' = Count + 1
                     /\ files' \in Prefixes(files, a, v)
                     /\ \/ Ends(c)
                        \/ \E error \in {"other", "installed"} :
                              /\ Reaches(c, Noted(m, error, target), target)
                              /\ error = "installed" => a \in Immutable
<1> DEFINE error == IF a \in Immutable /\ files'[a] = v THEN "installed" ELSE "other"
<1>1. "other" \in Errors /\ error \in Errors
  BY DEF Errors
<1>2. CASE ~MayInstall(files, a, v)
  <2>1. Raises(c, m, "other", target)
    BY <1>2 DEF WriteFile
  <2>2. Reaches(c, Noted(m, "other", target), target)
    BY <1>1, <2>1, ErrorReach
  <2> QED BY <1>2, <2>1, <2>2, HowItCounts
<1>3. CASE MayInstall(files, a, v)
  <2>1. \/ files' = Put(files, a, v) /\ Returns(c, done, next)
        \/ files' \in Prefixes(files, a, v) /\ (Fails(c, m, error, target) \/ Dies(c))
    BY <1>3 DEF WriteFile
  <2>2. error \in {"other", "installed"} /\ (error = "installed" => a \in Immutable)
    OBVIOUS
  <2> HIDE DEF error
  <2>3. CASE files' = Put(files, a, v) /\ Returns(c, done, next)
    BY <2>3, ReturnsReach, HowItCounts
  <2>4. CASE files' \in Prefixes(files, a, v) /\ (Fails(c, m, error, target) \/ Dies(c))
    BY <1>1, <2>2, <2>4, ErrorReach, DeathEnds, HowItCounts, CountIsNatural
  <2> QED BY <2>1, <2>3, <2>4
<1> QED BY <1>2, <1>3

-----------------------------------------------------------------------------
(* The invariant *)

\* The stage of the run of c, with what its variables and the files are then.
Bare(c) == files = NoFiles /\ mem[c].meta = NoMetadata

Prepared(c, prompt) ==
    Validated /\ mem[c].meta = Planned /\ Filled(Planned, prompt, "none", FALSE)

Launched(c) ==
    /\ mem[c].started /\ Begun(mem[c].session)
    /\ mem[c].meta = OpenMetadata("session_created", mem[c].session)
    /\ Filled(Planned, TRUE, "none", FALSE)

InProgress(c, result, transcript) ==
    /\ mem[c].started /\ Begun(mem[c].session)
    /\ mem[c].meta = OpenMetadata("running", mem[c].session)
    /\ Filled(mem[c].meta, TRUE, result, transcript)

Finished(c) ==
    /\ mem[c].started
    /\ mem[c].meta = DoneMetadata(mem[c].answer, mem[c].session)
    /\ Filled(mem[c].meta, TRUE, mem[c].answer, TRUE)

BodyFits(c) ==
    /\ pc[c] = "enter" => New /\ Bare(c)
    /\ pc[c] = "server" => Entered /\ Bare(c)
    /\ pc[c] = "allocate" => Validated /\ Bare(c)
    /\ pc[c] = "prompt" => Prepared(c, FALSE)
    /\ pc[c] \in {"look", "create", "started"} => Prepared(c, TRUE)
    /\ pc[c] = "create" => mem[c].others \subseteq Existing
    /\ pc[c] = "running" => Launched(c)
    /\ pc[c] \in {"submit", "wait", "evidence", "result"} => InProgress(c, "none", FALSE)
    /\ pc[c] = "transcript" => InProgress(c, mem[c].answer, FALSE)
    /\ pc[c] = "terminal" => InProgress(c, mem[c].answer, TRUE)
    /\ pc[c] = "completed" => Begun(mem[c].session) /\ Finished(c)
    /\ pc[c] = "finish" => Blockable /\ SomeCompleted /\ Finished(c) /\ ~mem[c].pending

\* What a handler finds: an invocation that had no session yet, one without an
\* answer, or a completed one.
Unbegun(c) == Prepared(c, TRUE) /\ mem[c].session = None /\ ~mem[c].started
Unended(c) == InProgress(c, "none", mem[c].evidence)

HandlersFit(c) ==
    LET m == mem[c] IN
    /\ pc[c] # "fallback"
    /\ pc[c] \in Handlers \cup {"exit"} => m.session = None \/ m.started
    /\ pc[c] = "handle" =>
           \/ Unbegun(c) /\ ~m.pending /\ ~m.completed /\ m.error = "signal"
           \/ /\ Unended(c) /\ ~m.pending /\ ~m.completed
              /\ m.error \in {"signal", "timed_out", "other"}
           \/ Blockable /\ ~m.pending /\ m.completed /\ m.error = "other"
    /\ pc[c] = "abort" => Unended(c)
    /\ pc[c] = "close" => \/ Unbegun(c) /\ m.closing = "interrupted"
                          \/ Unended(c)
    /\ pc[c] \in {"abort", "close"} => m.closing \in {"interrupted", "timed_out"}
    /\ pc[c] = "interrupted" =>
           /\ m.started /\ Begun(m.session)
           /\ \E status \in {"interrupted", "timed_out"} :
                 Filled(StoppedMetadata(OpenMetadata("running", m.session), status, m.evidence),
                        TRUE, "none", m.evidence)
    /\ pc[c] = "block" => Blockable
    /\ pc[c] = "exit" => Settled

Suits(c) == BodyFits(c) /\ HandlersFit(c)

\* After one fault the session is in the metadata, or on its way there.
Named(c) ==
    LET m == mem[c] IN
    \/ /\ pc[c] \in {"handle", "abort", "close"}
       /\ ~m.pending /\ ~m.completed /\ m.error # "installed" /\ files.linked = {}
       /\ m.meta = OpenMetadata("session_created", m.session)
       /\ pc[c] # "handle" => m.closing \in {"interrupted", "timed_out", "failed"}
    \/ pc[c] \in {"block", "exit"} /\ files.metadata.session = m.session

Known(c) ==
    \/ mem[c].session \notin Sessions \ Existing
    \/ mem[c].started
    \/ mem[c].error = "unexpected"

Held(c) == pc[c] \in Handlers \cup {"exit"} /\ (Known(c) \/ Named(c))

HasRun(c) == Active(c) /\ mem[c].known
Accounted(c) == Suits(c) \/ (Count = 1 /\ Held(c)) \/ Count >= 2

TInv ==
    /\ creations = 0 => opened = Existing
    /\ \A c \in Controllers : pc[c] = "initial" => mem[c].meta = NoMetadata
    /\ \A c \in Controllers : HasRun(c) => Accounted(c)
    /\ Count = 0 => Settled \/ \E c \in Controllers : HasRun(c) /\ pc[c] # "exit"

-----------------------------------------------------------------------------
(* How the steps of the owner keep it *)

LEMMA OwnerGoesOn ==
    ASSUME IInv, TInv, NEW c \in Controllers, Active(c), Alone(c),
           creations' = 0 => opened' = Existing,
           pc'[c] # "initial", HasRun(c)' => Accounted(c)',
           Count' = 0 => Settled' \/ (HasRun(c)' /\ pc'[c] # "exit")
    PROVE  TInv'
<1>1. ASSUME NEW d \in Controllers \ {c}
      PROVE  pc'[d] = pc[d] /\ mem'[d] = mem[d] /\ ~Active(d)
  BY OneOwner DEF Alone
<1>2. ASSUME NEW d \in Controllers, d # c PROVE ~HasRun(d)' /\ pc'[d] # "initial"
  BY <1>1, <1>2 DEF HasRun, Active
<1> QED BY <1>2 DEF TInv

\* Two faults are more than any property here speaks of.
LEMMA TwoFaults ==
    ASSUME IInv, TInv, NEW c \in Controllers, Active(c), Alone(c), Count \in Nat, Count' \in Nat,
           creations' = 0 => opened' = Existing, pc'[c] # "initial", Count' >= 2
    PROVE  TInv'
BY OwnerGoesOn DEF Accounted

\* The way of the first fault and of a second one.
LEMMA FirstFault ==
    ASSUME IInv, TInv, NEW c \in Controllers, Active(c), Alone(c), Count' = Count + 1,
           creations' = 0 => opened' = Existing, pc'[c] # "initial",
           Count = 0 /\ HasRun(c)' => Held(c)'
    PROVE  TInv'
<1>1. Count \in Nat
  BY CountIsNatural DEF IInv
<1>2. CASE Count = 0
  BY <1>2, OwnerGoesOn DEF Accounted
<1>3. CASE Count >= 1
  BY <1>1, <1>3, TwoFaults
<1> QED BY <1>1, <1>2, <1>3

\* A session the first fault can take away from nobody.
LEMMA SessionIsKnown ==
    ASSUME IInv, NEW c \in Controllers, Active(c), Suits(c), pc[c] # "started"
    PROVE  mem[c].session \notin Sessions \ Existing \/ mem[c].started
<1>1. Busy(c) /\ None \notin Sessions /\ pc[c] \in Steps
  BY HistoryAssumption DEF IInv, Local, TypeOK
<1>2. CASE pc[c] \in {"initial"} \cup Early
  BY <1>1, <1>2 DEF Busy, Quiet
<1>3. CASE pc[c] \in Body \ ({"initial", "started"} \cup Early)
  BY <1>1, <1>3 DEF Busy
<1>4. CASE pc[c] \in Handlers \cup {"exit"}
  BY <1>1, <1>4 DEF Suits, HandlersFit
<1> QED BY <1>1, <1>2, <1>3, <1>4 DEF Active, Steps

LEMMA Disturbed ==
    ASSUME IInv, TInv, NEW c \in Controllers, HasRun(c), Count' = Count + 1,
           creations' = 0 => opened' = Existing,
           \/ Ends(c)
           \/ \E n \in Memory, next \in Handlers \cup {"exit"} :
                 /\ Reaches(c, n, next) /\ n.session = mem[c].session /\ n.started = mem[c].started
                 /\ pc[c] # "started" \/ n.error = "unexpected"
    PROVE  TInv'
<1>1. Active(c) /\ Count \in Nat /\ Accounted(c)
  BY CountIsNatural DEF HasRun, TInv, IInv
<1>2. CASE Ends(c)
  BY <1>1, <1>2, FirstFault DEF Ends, Vanishes, HasRun, Active
<1>3. ASSUME NEW n \in Memory, NEW next \in Handlers \cup {"exit"},
             Reaches(c, n, next), n.session = mem[c].session, n.started = mem[c].started,
             pc[c] # "started" \/ n.error = "unexpected"
      PROVE  TInv'
  <2>1. Alone(c) /\ pc'[c] = next /\ mem'[c] = n /\ pc'[c] # "initial"
    BY <1>3 DEF Reaches, Handlers
  <2>2. ASSUME Count = 0 PROVE Held(c)'
    <3>1. Suits(c)
      BY <1>1, <2>2 DEF Accounted
    <3>2. \/ mem[c].session \notin Sessions \ Existing \/ mem[c].started
          \/ n.error = "unexpected"
      BY <1>1, <1>3, <3>1, SessionIsKnown
    <3> QED BY <1>3, <2>1, <3>2 DEF Known, Held
  <2> QED BY <1>1, <2>1, <2>2, FirstFault
<1> QED BY <1>2, <1>3

\* A step of the owner that costs nothing.
LEMMA GoesOn ==
    ASSUME IInv, TInv, NEW c \in Controllers, HasRun(c), Alone(c), Count' = Count,
           creations' = 0 => opened' = Existing,
           Active(c)', pc'[c] # "initial", mem'[c].known,
           Suits(c) => Suits(c)', Held(c) => Held(c)'
    PROVE  TInv'
<1>1. Active(c) /\ Count \in Nat /\ Accounted(c) /\ HasRun(c)'
  BY CountIsNatural DEF HasRun, TInv, IInv
<1>2. CASE Count >= 2
  BY <1>1, <1>2, TwoFaults
<1>3. CASE Count < 2
  <2>1. CASE Suits(c)
    <3>1. Suits(c)'
      BY <2>1
    <3>2. pc'[c] # "exit" \/ Settled'
      BY <3>1 DEF Suits, HandlersFit
    <3> QED BY <1>1, <3>1, <3>2, OwnerGoesOn DEF Accounted
  <2>2. CASE Count = 1 /\ Held(c)
    BY <1>1, <2>2, OwnerGoesOn DEF Accounted
  <2> QED BY <1>1, <1>3, <2>1, <2>2 DEF Accounted
<1> QED BY <1>1, <1>2, <1>3

\* What a step leaves of the invariant when it changes nothing of it.
LEMMA NothingNew ==
    ASSUME UNCHANGED <<log, st>>
    PROVE  /\ New' = New /\ Entered' = Entered /\ Validated' = Validated
           /\ \A s : Begun(s)' = Begun(s)
           /\ Closable' = Closable /\ SomeCompleted' = SomeCompleted
           /\ files' = files =>
                /\ Blockable' = Blockable /\ Settled' = Settled
                /\ \A meta, prompt, result, transcript :
                      Filled(meta, prompt, result, transcript)' =
                          Filled(meta, prompt, result, transcript)
<1>1. /\ \A type : Has(type)' = Has(type)
      /\ SomeCompleted' = SomeCompleted /\ SomeInterrupted' = SomeInterrupted
      /\ \A s : StartedWith(s)' = StartedWith(s)
  BY DEF Has, Of, SomeCompleted, SomeInterrupted, StartedWith
<1>2. \A state, active : Reads(state, active)' = Reads(state, active)
  BY DEF Reads
<1>3. Unstarted' = Unstarted /\ Over' = Over
  BY <1>1 DEF Unstarted, Over
<1>4. Closable' = Closable
  BY <1>1, <1>2, <1>3 DEF Closable
<1>5. ASSUME files' = files
      PROVE  Accepted' = Accepted /\ NothingThere' = NothingThere
  BY <1>5 DEF Accepted, NothingThere
<1> QED BY <1>1, <1>2, <1>3, <1>4, <1>5
        DEF New, Entered, Validated, Begun, Blockable, Settled, Filled

LEMMA SuitsStill ==
    ASSUME NEW d, UNCHANGED <<log, st, files>>, pc'[d] = pc[d], mem'[d] = mem[d]
    PROVE  (Suits(d) => Suits(d)') /\ (Held(d) => Held(d)')
<1>1. /\ New' = New /\ Entered' = Entered /\ Validated' = Validated
      /\ \A s : Begun(s)' = Begun(s)
      /\ SomeCompleted' = SomeCompleted /\ Blockable' = Blockable /\ Settled' = Settled
      /\ \A meta, prompt, result, transcript :
            Filled(meta, prompt, result, transcript)' = Filled(meta, prompt, result, transcript)
  BY NothingNew
<1>2. ASSUME Suits(d) PROVE Suits(d)'
  <2>1. BodyFits(d)'
    BY <1>1, <1>2
       DEF Suits, BodyFits, Bare, Prepared, Launched, InProgress, Finished
  <2>2. HandlersFit(d)'
    BY <1>1, <1>2
       DEF Suits, HandlersFit, Unbegun, Unended, Prepared, InProgress
  <2> QED BY <2>1, <2>2 DEF Suits
<1>3. ASSUME Held(d) PROVE Held(d)'
  BY <1>3 DEF Held, Known, Named
<1> QED BY <1>2, <1>3

\* Only one side has anything to say.
LEMMA OneSide ==
    ASSUME NEW c
    PROVE  /\ pc[c] \in Body => HandlersFit(c) /\ ~Held(c)
           /\ pc'[c] \in Body => HandlersFit(c)'
           /\ pc'[c] \in Handlers \cup {"exit"} => BodyFits(c)'
BY DEF HandlersFit, BodyFits, Held, Body, Handlers

-----------------------------------------------------------------------------
(* The steps of the body *)

\* What a body that is under way has, if nothing or one thing has failed.
LEMMA BodyHasRun ==
    ASSUME IInv, RInv, TInv, NEW c \in Controllers, pc[c] \in Body \ {"initial"}
    PROVE  /\ TypeOK /\ mem[c] \in Memory /\ HasRun(c) /\ Active(c) /\ mem[c].known
           /\ Busy(c) /\ BodyKeeps(c) /\ VariablesAgree(c) /\ Count \in Nat
           /\ Suits(c) \/ Count >= 2
<1>1. /\ TypeOK /\ mem[c] \in Memory /\ Active(c) /\ Busy(c) /\ BodyKeeps(c)
      /\ VariablesAgree(c) /\ mem[c].known
  BY BodyIsOpen
<1>2. HasRun(c) /\ ~Held(c)
  BY <1>1, OneSide DEF HasRun
<1>3. Count \in Nat
  BY <1>1, CountIsNatural
<1> QED BY <1>1, <1>2, <1>3 DEF TInv, Accounted

\* A durable step of the body has to show that it is allowed and what its
\* success is.
LEMMA BodyPersists ==
    ASSUME IInv, RInv, TInv, NEW c \in Controllers, pc[c] \in Body \ {"initial", "started"},
           NEW r \in Asked, NEW m \in Memory, NEW done \in Memory, done.known,
           NEW next \in (Body \ {"initial"}) \cup {"exit"},
           Durable(c, r, m, done, next, "handle"), UNCHANGED <<files, remote, signalled>>,
           m.session = mem[c].session, m.started = mem[c].started,
           Suits(c) => May(r),
           Suits(c) /\ Grew(r) /\ Reaches(c, done, next) => Suits(c)'
    PROVE  TInv'
<1>1. TypeOK /\ HasRun(c) /\ Active(c) /\ Count \in Nat /\ (Suits(c) \/ Count >= 2)
  BY BodyHasRun
<1>2. next \in Steps /\ "handle" \in Steps /\ "handle" \in Handlers /\ "other" \in Errors
  BY DEF Steps, Handlers, Errors
<1>3. creations' = 0 => opened' = Existing
  BY DEF TInv, remote
<1> DEFINE n == Noted(m, "other", "handle")
<1>4. n \in Memory /\ n.session = mem[c].session /\ n.started = mem[c].started
  BY <1>2, NotedFields
<1> HIDE DEF n
<1>5. /\ Count' \in {Count, Count + 1}
      /\ Count' = Count => Reaches(c, done, next) \/ Reaches(c, n, "handle")
      /\ May(r) => \/ Grew(r) /\ Reaches(c, done, next) /\ Count' = Count
                   \/ Count' = Count + 1 /\ (Reaches(c, n, "handle") \/ Ends(c))
  BY <1>1, <1>2, DurableCounts DEF n
<1>6. CASE Count >= 2
  <2>1. Alone(c) /\ pc'[c] # "initial"
    <3>1. Reaches(c, done, next) \/ Reaches(c, n, "handle") \/ Ends(c)
      BY <1>1, <1>2, DurableReach DEF n
    <3> QED BY <3>1 DEF Reaches, Ends, Vanishes
  <2> QED BY <1>1, <1>3, <1>5, <1>6, <2>1, TwoFaults
<1>7. CASE Suits(c) /\ Grew(r) /\ Reaches(c, done, next) /\ Count' = Count
  <2>1. Alone(c) /\ pc'[c] = next /\ mem'[c] = done
    BY <1>7 DEF Reaches
  <2>2. Active(c)' /\ pc'[c] # "initial" /\ ~Held(c)
    BY <2>1, OneSide DEF Active, Body
  <2> QED BY <1>1, <1>3, <1>7, <2>1, <2>2, GoesOn
<1>8. CASE Count' = Count + 1 /\ (Reaches(c, n, "handle") \/ Ends(c))
  BY <1>1, <1>2, <1>3, <1>4, <1>8, Disturbed
<1> QED BY <1>1, <1>5, <1>6, <1>7, <1>8

LEMMA BodyRecords ==
    ASSUME IInv, RInv, TInv, NEW c \in Controllers, pc[c] \in Body \ {"initial", "started"},
           NEW a, NEW v, Fits(a, v), NEW m \in Memory, NEW done \in Memory, done.known,
           NEW next \in Steps, next \in (Body \ {"initial"}) \cup Handlers,
           WriteFile(c, a, v, m, done, next, "handle"), UNCHANGED <<pair, remote, signalled>>,
           m.session = mem[c].session, m.started = mem[c].started,
           Suits(c) => MayInstall(files, a, v),
           Suits(c) /\ files' = Put(files, a, v) /\ Reaches(c, done, next) => Suits(c)'
    PROVE  TInv'
<1>1. TypeOK /\ HasRun(c) /\ Active(c) /\ Count \in Nat /\ (Suits(c) \/ Count >= 2)
  BY BodyHasRun
<1>2. "handle" \in Steps /\ "handle" \in Handlers /\ {"other", "installed"} \subseteq Errors
  BY DEF Steps, Handlers, Errors
<1>3. creations' = 0 => opened' = Existing
  BY DEF TInv, remote
<1>4. ASSUME NEW error \in {"other", "installed"}
      PROVE  LET n == Noted(m, error, "handle") IN
             n \in Memory /\ n.session = mem[c].session /\ n.started = mem[c].started
  BY <1>2, NotedFields
<1>5. /\ Count' \in {Count, Count + 1}
      /\ MayInstall(files, a, v) =>
            \/ files' = Put(files, a, v) /\ Reaches(c, done, next) /\ Count' = Count
            \/ /\ Count' = Count + 1
               /\ \/ Ends(c)
                  \/ \E error \in {"other", "installed"} :
                        Reaches(c, Noted(m, error, "handle"), "handle")
  BY <1>1, <1>2, WriteCounts
<1>6. CASE Count >= 2
  <2>1. Alone(c) /\ pc'[c] # "initial"
    <3>1. \/ Reaches(c, done, next) \/ Ends(c)
          \/ \E error \in {"other", "installed"} : Reaches(c, Noted(m, error, "handle"), "handle")
      BY <1>1, <1>2, WriteReach
    <3> QED BY <3>1 DEF Reaches, Ends, Vanishes, Handlers
  <2> QED BY <1>1, <1>3, <1>5, <1>6, <2>1, TwoFaults
<1>7. CASE Suits(c) /\ files' = Put(files, a, v) /\ Reaches(c, done, next) /\ Count' = Count
  <2>1. Alone(c) /\ pc'[c] = next /\ mem'[c] = done
    BY <1>7 DEF Reaches
  <2>2. Active(c)' /\ pc'[c] # "initial" /\ ~Held(c)
    BY <2>1, OneSide DEF Active, Body, Handlers
  <2> QED BY <1>1, <1>3, <1>7, <2>1, <2>2, GoesOn
<1>8. CASE /\ Count' = Count + 1
           /\ \/ Ends(c)
              \/ \E error \in {"other", "installed"} :
                    Reaches(c, Noted(m, error, "handle"), "handle")
  BY <1>1, <1>2, <1>3, <1>4, <1>8, Disturbed
<1> QED BY <1>1, <1>5, <1>6, <1>7, <1>8

\* A step of the body that writes nothing and fails in the way of an error, or
\* goes on.
LEMMA BodyTurns ==
    ASSUME IInv, RInv, TInv, NEW c \in Controllers, pc[c] \in Body \ {"initial"},
           UNCHANGED <<log, st, files, remote, faults, crashes>>,
           NEW n \in Memory, n.known, NEW next, next \in (Body \ {"initial"}) \cup {"handle"},
           Alone(c), pc'[c] = next, mem'[c] = n,
           Suits(c) => Suits(c)'
    PROVE  TInv'
<1>1. HasRun(c) /\ Active(c) /\ ~Held(c)
  BY BodyHasRun, OneSide
<1>2. Count' = Count /\ (creations' = 0 => opened' = Existing)
  BY DEF TInv, remote, Count
<1>3. Active(c)' /\ pc'[c] # "initial"
  BY DEF Active, Body
<1> QED BY <1>1, <1>2, <1>3, GoesOn

LEMMA EnterStays ==
    ASSUME IInv, RInv, TInv, NEW c \in Controllers, Enter(c)
    PROVE  TInv'
<1> DEFINE r == Transition("validating", "none")
<1>1. pc[c] = "enter" /\ pc[c] \in Body \ {"initial"} /\ pc[c] \in Body \ {"initial", "started"}
  BY DEF Enter, Body
<1>2. TypeOK /\ mem[c] \in Memory /\ mem[c].known
  BY <1>1, BodyHasRun
<1>3. /\ Durable(c, r, mem[c], mem[c], "server", "handle")
      /\ UNCHANGED <<files, remote, signalled>>
  BY DEF Enter
<1>4. r \in Asked
  BY DEF Asked, Transition, Reasons
<1> HIDE DEF r
<1>5. ASSUME Suits(c) PROVE May(r) /\ (Grew(r) => Entered') /\ Bare(c)
  <2>1. New /\ Bare(c)
    BY <1>1, <1>5 DEF Suits, BodyFits
  <2> QED BY <1>2, <2>1, RunEnters DEF r
<1>6. ASSUME Suits(c), Grew(r), Reaches(c, mem[c], "server") PROVE Suits(c)'
  <2>1. Entered' /\ Bare(c) /\ pc'[c] = "server" /\ mem'[c] = mem[c] /\ files' = files
    BY <1>3, <1>5, <1>6 DEF Reaches
  <2>2. pc'[c] \in Body
    BY <2>1 DEF Body
  <2>3. BodyFits(c)'
    BY <2>1 DEF BodyFits, Bare
  <2> QED BY <2>2, <2>3, OneSide DEF Suits
<1> QED BY <1>1, <1>2, <1>3, <1>4, <1>5, <1>6, BodyPersists DEF Body

LEMMA ServerStays ==
    ASSUME IInv, RInv, TInv, NEW c \in Controllers, ServerValidated(c)
    PROVE  TInv'
<1> DEFINE r == Observation("server.validated", None)
<1>1. pc[c] = "server" /\ pc[c] \in Body \ {"initial"} /\ pc[c] \in Body \ {"initial", "started"}
  BY DEF ServerValidated, Body
<1>2. TypeOK /\ mem[c] \in Memory /\ mem[c].known
  BY <1>1, BodyHasRun
<1>3. /\ Durable(c, r, mem[c], mem[c], "allocate", "handle")
      /\ UNCHANGED <<files, remote, signalled>>
  BY DEF ServerValidated
<1>4. r \in Asked
  BY DEF Asked, Observation, Observations
<1> HIDE DEF r
<1>5. ASSUME Suits(c) PROVE May(r) /\ (Grew(r) => Validated') /\ Bare(c)
  <2>1. Entered /\ Bare(c)
    BY <1>1, <1>5 DEF Suits, BodyFits
  <2> QED BY <1>2, <2>1, ServerIsNoted DEF r
<1>6. ASSUME Suits(c), Grew(r), Reaches(c, mem[c], "allocate") PROVE Suits(c)'
  <2>1. Validated' /\ Bare(c) /\ pc'[c] = "allocate" /\ mem'[c] = mem[c] /\ files' = files
    BY <1>3, <1>5, <1>6 DEF Reaches
  <2>2. pc'[c] \in Body
    BY <2>1 DEF Body
  <2>3. BodyFits(c)'
    BY <2>1 DEF BodyFits, Bare
  <2> QED BY <2>2, <2>3, OneSide DEF Suits
<1> QED BY <1>1, <1>2, <1>3, <1>4, <1>5, <1>6, BodyPersists DEF Body

\* What an installed artifact does to a directory without temporary names.
LEMMA PutFields ==
    ASSUME TypeOK, NEW a, NEW v, Fits(a, v), files' = Put(files, a, v)
    PROVE  /\ files'.dir /\ files'.linked = files.linked /\ files'.stray = files.stray
           /\ files'[a] = v /\ \A b \in Artifacts \ {a} : files'[b] = files[b]
<1>1. files \in FilesSet
  BY DEF TypeOK
<1>2. files'[a] = v /\ \A b \in Artifacts \ {a} : files'[b] = files[b]
  BY <1>1, PrefixesTouch
<1>3. a \in {"metadata", "prompt", "transcript", "result"}
  BY DEF Fits
<1>4. files'.dir /\ files'.linked = files.linked /\ files'.stray = files.stray
  BY <1>1, <1>3 DEF Put, FilesSet
<1> QED BY <1>2, <1>4

LEMMA FilledFields ==
    ASSUME TypeOK, NEW a, NEW v, Fits(a, v), files' = Put(files, a, v),
           files.linked = {}, ~files.stray,
           NEW meta, NEW prompt, NEW result, NEW transcript,
           a = "metadata" \/ files.metadata = meta, a = "metadata" => v = meta,
           a = "prompt" \/ files.prompt = prompt, a = "prompt" => v = prompt,
           a = "result" \/ files.result = result, a = "result" => v = result,
           a = "transcript" \/ files.transcript = transcript, a = "transcript" => v = transcript
    PROVE  /\ files'.dir /\ files'.metadata = meta /\ files'.prompt = prompt
           /\ files'.result = result /\ files'.transcript = transcript
           /\ files'.linked = {} /\ ~files'.stray
<1>1. /\ files'.dir /\ files'.linked = files.linked /\ files'.stray = files.stray
      /\ files'[a] = v /\ \A b \in Artifacts \ {a} : files'[b] = files[b]
  BY PutFields
<1>2. a \in {"metadata", "prompt", "transcript", "result"}
  BY DEF Fits
<1>3. files'.metadata = meta /\ files'.prompt = prompt
      /\ files'.result = result /\ files'.transcript = transcript
  BY <1>1, <1>2 DEF Artifacts, Immutable
<1> QED BY <1>1, <1>3

LEMMA AllocateStays ==
    ASSUME IInv, RInv, TInv, NEW c \in Controllers, Allocate(c)
    PROVE  TInv'
<1> DEFINE m == [mem[c] EXCEPT !.meta = Planned]
<1>1. /\ pc[c] = "allocate" /\ pc[c] \in Body \ {"initial"}
      /\ pc[c] \in Body \ {"initial", "started"}
  BY DEF Allocate, Body
<1>2. /\ TypeOK /\ mem[c] \in Memory /\ mem[c].known /\ HasRun(c) /\ Active(c)
      /\ Count \in Nat /\ (Suits(c) \/ Count >= 2)
  BY <1>1, BodyHasRun
<1>3. UNCHANGED <<pair, remote, signalled>>
  BY DEF Allocate
<1>4. Planned \in Metadata /\ LifecycleValid(Planned)
  BY PlannedMetadata
<1>5. /\ m \in Memory /\ m.known /\ m.meta = Planned
      /\ m.session = mem[c].session /\ m.started = mem[c].started
  BY <1>2, <1>4 DEF Memory
<1>6. Suits(c) => Validated /\ files = NoFiles
  BY <1>1 DEF Suits, BodyFits, Bare
<1>7. CASE files.dir
  <2>1. ~Suits(c)
    BY <1>6, <1>7 DEF NoFiles
  <2>2. Raises(c, mem[c], "other", "handle") /\ "other" \in Errors /\ "handle" \in Steps
    BY <1>7 DEF Allocate, Errors, Steps, Handlers
  <2>3. Count' = Count /\ Alone(c) /\ pc'[c] = "handle"
    <3>1. Count' = Count
      BY <1>2, <2>2, HowItCounts
    <3>2. Reaches(c, Noted(mem[c], "other", "handle"), "handle")
      BY <1>2, <2>2, ErrorReach
    <3> QED BY <3>1, <3>2 DEF Reaches
  <2> QED BY <1>2, <1>3, <2>1, <2>3, TwoFaults DEF TInv, remote
<1>8. CASE ~files.dir
  <2>1. WriteFile(c, "metadata", Planned, m, m, "prompt", "handle")
    BY <1>8 DEF Allocate
  <2> HIDE DEF m
  <2>2. Suits(c) => MayInstall(files, "metadata", Planned)
    BY <1>4, <1>6 DEF MayInstall, NoFiles
  <2>3. Fits("metadata", Planned)
    BY <1>4 DEF Fits
  <2>4. ASSUME Suits(c), files' = Put(files, "metadata", Planned), Reaches(c, m, "prompt")
        PROVE  Suits(c)'
    <3>1. pc'[c] = "prompt" /\ mem'[c] = m /\ log' = log /\ st' = st
      BY <1>3, <2>4 DEF Reaches, pair
    <3>2. Validated'
      BY <1>6, <2>4, <3>1, NothingNew
    <3>3. Filled(Planned, FALSE, "none", FALSE)'
      <4>1. /\ files.linked = {} /\ ~files.stray /\ files.prompt = FALSE
            /\ files.result = "none" /\ files.transcript = FALSE
        BY <1>6, <2>4 DEF NoFiles
      <4> QED BY <1>2, <2>3, <2>4, <4>1, FilledFields DEF Filled
    <3>4. BodyFits(c)' /\ pc'[c] \in Body
      BY <1>5, <3>1, <3>2, <3>3 DEF BodyFits, Prepared, Body
    <3> QED BY <3>4, OneSide DEF Suits
  <2> QED BY <1>1, <1>3, <1>5, <2>1, <2>2, <2>3, <2>4, BodyRecords DEF Body, Steps
<1> QED BY <1>7, <1>8

LEMMA PromptStays ==
    ASSUME IInv, RInv, TInv, NEW c \in Controllers, WritePrompt(c)
    PROVE  TInv'
<1>1. /\ pc[c] = "prompt" /\ pc[c] \in Body \ {"initial"}
      /\ pc[c] \in Body \ {"initial", "started"}
  BY DEF WritePrompt, Body
<1>2. TypeOK /\ mem[c] \in Memory /\ mem[c].known
  BY <1>1, BodyHasRun
<1>3. /\ WriteFile(c, "prompt", TRUE, mem[c], mem[c], "look", "handle")
      /\ UNCHANGED <<pair, remote, signalled>>
  BY DEF WritePrompt
<1>4. Suits(c) => Validated /\ mem[c].meta = Planned /\ Filled(Planned, FALSE, "none", FALSE)
  BY <1>1 DEF Suits, BodyFits, Prepared
<1>5. Suits(c) => MayInstall(files, "prompt", TRUE)
  BY <1>4 DEF Filled, MayInstall, NoFiles
<1>6. Fits("prompt", TRUE)
  BY DEF Fits
<1>7. ASSUME Suits(c), files' = Put(files, "prompt", TRUE), Reaches(c, mem[c], "look")
      PROVE  Suits(c)'
  <2>1. pc'[c] = "look" /\ mem'[c] = mem[c] /\ log' = log /\ st' = st
    BY <1>3, <1>7 DEF Reaches, pair
  <2>2. Validated'
    BY <1>4, <1>7, <2>1, NothingNew
  <2>3. Filled(Planned, TRUE, "none", FALSE)'
    <3>1. /\ files.linked = {} /\ ~files.stray /\ files.metadata = Planned
          /\ files.result = "none" /\ files.transcript = FALSE
      BY <1>4, <1>7 DEF Filled
    <3>2. /\ files'.dir /\ files'.linked = files.linked /\ files'.stray = files.stray
          /\ files'["prompt"] = TRUE /\ \A b \in Artifacts \ {"prompt"} : files'[b] = files[b]
      BY <1>2, <1>6, <1>7, PutFields
    <3> QED BY <3>1, <3>2 DEF Filled, Artifacts, Immutable
  <2>4. BodyFits(c)' /\ pc'[c] \in Body
    BY <1>4, <1>7, <2>1, <2>2, <2>3 DEF BodyFits, Prepared, Body
  <2> QED BY <2>4, OneSide DEF Suits
<1> QED BY <1>1, <1>2, <1>3, <1>5, <1>6, <1>7, BodyRecords DEF Body, Steps

LEMMA LookStays ==
    ASSUME IInv, RInv, TInv, NEW c \in Controllers, Look(c)
    PROVE  TInv'
<1> DEFINE m == [mem[c] EXCEPT !.others = opened]
<1>1. pc[c] = "look" /\ pc[c] \in Body \ {"initial"} /\ pc[c] \in Body
  BY DEF Look, Body
<1>2. /\ TypeOK /\ mem[c] \in Memory /\ mem[c].known /\ HasRun(c) /\ Busy(c) /\ BodyKeeps(c)
  BY <1>1, BodyHasRun
<1>3. /\ mem[c].session = None /\ ~mem[c].started /\ ~mem[c].pending /\ ~mem[c].completed
      /\ creations = 0
  BY <1>1, <1>2 DEF Busy, Quiet, Early
<1>4. UNCHANGED <<log, st, files, remote, creations, opened>>
  BY DEF Look, pair, remote
<1>5. {"other", "signal"} \subseteq Errors /\ {"handle", "create"} \subseteq Steps
      /\ "handle" \in Handlers
  BY DEF Errors, Steps, Body, Handlers
<1>6. opened = Existing
  BY <1>3 DEF TInv
<1>7. Suits(c) => Prepared(c, TRUE)
  BY <1>1 DEF Suits, BodyFits
<1>8. CASE Fails(c, mem[c], "other", "handle")
  <2> DEFINE n == Noted(mem[c], "other", "handle")
  <2>1. Reaches(c, n, "handle") /\ Count' = Count + 1
    BY <1>2, <1>5, <1>8, ErrorReach, HowItCounts
  <2>2. n \in Memory /\ n.session = mem[c].session /\ n.started = mem[c].started
    BY <1>2, <1>5, NotedFields
  <2>3. creations' = 0 => opened' = Existing
    BY <1>4 DEF TInv
  <2> HIDE DEF n
  <2> QED BY <1>1, <1>2, <1>5, <2>1, <2>2, <2>3, Disturbed
<1>9. CASE Raises(c, mem[c], "signal", "handle")
  <2> DEFINE n == Noted(mem[c], "signal", "handle")
  <2>1. Reaches(c, n, "handle") /\ UNCHANGED <<faults, crashes>>
    BY <1>2, <1>5, <1>9, ErrorReach DEF Raises, Returns
  <2>2. /\ n \in Memory /\ n.known = mem[c].known /\ n.session = mem[c].session
        /\ n.started = mem[c].started /\ n.pending = mem[c].pending
        /\ n.completed = mem[c].completed /\ n.meta = mem[c].meta /\ n.error = "signal"
    BY <1>2, <1>5, NotedFields
  <2> HIDE DEF n
  <2>3. Alone(c) /\ pc'[c] = "handle" /\ mem'[c] = n
    BY <2>1 DEF Reaches
  <2>4. ASSUME Suits(c) PROVE Suits(c)'
    <3>1. Validated' /\ Filled(Planned, TRUE, "none", FALSE)' /\ mem[c].meta = Planned
      <4>1. Validated /\ Filled(Planned, TRUE, "none", FALSE) /\ mem[c].meta = Planned
        BY <1>7, <2>4 DEF Prepared
      <4> QED BY <1>4, <4>1, NothingNew DEF Filled
    <3>2. Unbegun(c)'
      BY <1>3, <2>2, <2>3, <3>1 DEF Unbegun, Prepared
    <3>3. HandlersFit(c)'
      BY <1>3, <2>2, <2>3, <3>2 DEF HandlersFit
    <3> QED BY <1>5, <2>3, <3>3, OneSide DEF Suits
  <2> QED BY <1>1, <1>2, <1>4, <2>1, <2>2, <2>3, <2>4, BodyTurns
<1>10. CASE Returns(c, m, "create")
  <2>1. m \in Memory /\ m.known = mem[c].known /\ m.others = opened /\ m.meta = mem[c].meta
    BY <1>2 DEF Memory, TypeOK
  <2> HIDE DEF m
  <2>2. Reaches(c, m, "create") /\ UNCHANGED <<faults, crashes>>
    BY <1>2, <1>5, <1>10, <2>1, ReturnsReach DEF Returns
  <2>3. Alone(c) /\ pc'[c] = "create" /\ mem'[c] = m /\ pc'[c] \in Body \ {"initial"}
    BY <2>2 DEF Reaches, Body
  <2>4. ASSUME Suits(c) PROVE Suits(c)'
    <3>1. Validated' /\ Filled(Planned, TRUE, "none", FALSE)' /\ mem[c].meta = Planned
      <4>1. Validated /\ Filled(Planned, TRUE, "none", FALSE) /\ mem[c].meta = Planned
        BY <1>7, <2>4 DEF Prepared
      <4> QED BY <1>4, <4>1, NothingNew DEF Filled
    <3>2. BodyFits(c)'
      BY <1>6, <2>1, <2>3, <3>1 DEF BodyFits, Prepared
    <3> QED BY <2>3, <3>2, OneSide DEF Suits
  <2> QED BY <1>1, <1>2, <1>4, <2>1, <2>2, <2>3, <2>4, BodyTurns
<1> QED BY <1>8, <1>9, <1>10 DEF Look

\* A session whose creation is not reported is one the server never named.
LEMMA CreateStays ==
    ASSUME IInv, RInv, TInv, NEW c \in Controllers, Create(c)
    PROVE  TInv'
<1> DEFINE trying == [mem[c] EXCEPT !.creating = TRUE]
           named(s) == [mem[c] EXCEPT !.session = s]
<1>1. pc[c] = "create" /\ pc[c] \in Body \ {"initial"} /\ pc[c] \in Body
  BY DEF Create, Body
<1>2. /\ TypeOK /\ mem[c] \in Memory /\ mem[c].known /\ HasRun(c) /\ Active(c) /\ Busy(c)
      /\ Count \in Nat /\ (Suits(c) \/ Count >= 2)
  BY <1>1, BodyHasRun
<1>3. mem[c].session = None /\ mem[c].others \subseteq Sessions
  BY <1>1, <1>2 DEF Busy, Quiet, Early, Memory
<1>4. UNCHANGED <<log, st, files>> /\ (creations' = 0 => opened' = Existing)
  <2>1. creations \in Nat /\ creations' = creations + 1
    BY <1>2 DEF Create, TypeOK
  <2> QED BY <2>1 DEF Create, pair
<1>5. {"other", "ambiguous"} \subseteq Errors /\ {"handle", "started"} \subseteq Steps
      /\ "handle" \in Handlers /\ "handle" # "initial"
  BY DEF Errors, Steps, Body, Handlers
<1>6. \/ \E s \in Sessions : Returns(c, named(s), "started")
      \/ \E error \in {"other", "ambiguous"} : Fails(c, trying, error, "handle")
      \/ \E s \in mem[c].others : Fails(c, named(s), "other", "handle")
  BY DEF Create
<1>7. ASSUME NEW s \in Sessions
      PROVE  /\ named(s) \in Memory /\ named(s).known = mem[c].known /\ named(s).session = s
             /\ named(s).meta = mem[c].meta /\ named(s).others = mem[c].others
  BY <1>2 DEF Memory
<1>8. trying \in Memory /\ trying.session = mem[c].session
  BY <1>2 DEF Memory
<1>9. ASSUME NEW m \in Memory, NEW error \in {"other", "ambiguous"}, Fails(c, m, error, "handle"),
             Suits(c) => m.session \notin Sessions \ Existing
      PROVE  TInv'
  <2> DEFINE n == Noted(m, error, "handle")
  <2>1. Reaches(c, n, "handle") /\ Count' = Count + 1
    BY <1>2, <1>5, <1>9, ErrorReach, HowItCounts
  <2>2. n.session = m.session
    BY <1>5, NotedFields
  <2> HIDE DEF n
  <2>3. Alone(c) /\ pc'[c] = "handle" /\ mem'[c] = n
    BY <2>1 DEF Reaches
  <2>4. Count = 0 => Held(c)'
    BY <1>2, <1>5, <1>9, <2>2, <2>3 DEF Held, Known
  <2> QED BY <1>2, <1>4, <1>5, <2>1, <2>3, <2>4, FirstFault
<1>10. CASE \E error \in {"other", "ambiguous"} : Fails(c, trying, error, "handle")
  <2> HIDE DEF trying
  <2> QED BY <1>3, <1>8, <1>9, <1>10, HistoryAssumption
<1>11. CASE \E s \in mem[c].others : Fails(c, named(s), "other", "handle")
  <2>1. PICK s \in mem[c].others : Fails(c, named(s), "other", "handle")
    BY <1>11
  <2>2. s \in Sessions /\ named(s) \in Memory /\ named(s).session = s
    BY <1>3, <1>7
  <2>3. Suits(c) => s \in Existing
    BY <1>1 DEF Suits, BodyFits
  <2> HIDE DEF named
  <2> QED BY <1>9, <2>1, <2>2, <2>3
<1>12. CASE \E s \in Sessions : Returns(c, named(s), "started")
  <2>1. PICK s \in Sessions : Returns(c, named(s), "started")
    BY <1>12
  <2> DEFINE m == named(s)
  <2>2. m \in Memory /\ m.known = mem[c].known /\ m.meta = mem[c].meta
        /\ Returns(c, m, "started")
    BY <1>7, <2>1
  <2> HIDE DEF m
  <2>3. Reaches(c, m, "started") /\ Count' = Count
    BY <1>2, <1>5, <2>2, ReturnsReach, HowItCounts
  <2>4. Alone(c) /\ pc'[c] = "started" /\ mem'[c] = m /\ pc'[c] \in Body \ {"initial"}
        /\ Active(c)'
    BY <2>3 DEF Reaches, Body, Active
  <2>5. ASSUME Suits(c) PROVE Suits(c)'
    <3>1. Validated' /\ Filled(Planned, TRUE, "none", FALSE)' /\ mem[c].meta = Planned
      <4>1. Validated /\ Filled(Planned, TRUE, "none", FALSE) /\ mem[c].meta = Planned
        BY <1>1, <2>5 DEF Suits, BodyFits, Prepared
      <4> QED BY <1>4, <4>1, NothingNew DEF Filled
    <3>2. BodyFits(c)'
      BY <2>2, <2>4, <3>1 DEF BodyFits, Prepared
    <3> QED BY <2>4, <3>2, OneSide DEF Suits
  <2>6. ~Held(c)
    BY <1>1, OneSide
  <2> QED BY <1>2, <1>4, <2>2, <2>3, <2>4, <2>5, <2>6, GoesOn
<1> QED BY <1>6, <1>10, <1>11, <1>12

LEMMA SameMetadata ==
    ASSUME NEW a \in Metadata, NEW b \in Metadata, a.status = b.status, a.session = b.session,
           a.result = b.result, a.transcript = b.transcript
    PROVE  a = b
BY DEF Metadata

\* The first fault here leaves the session on its way to the metadata.
LEMMA StartedStays ==
    ASSUME IInv, RInv, TInv, NEW c \in Controllers, Started(c)
    PROVE  TInv'
<1>0. PICK s : s = mem[c].session
  OBVIOUS
<1> DEFINE m == [mem[c] EXCEPT !.meta.session = mem[c].session,
                               !.meta.status = "session_created"]
           done == [m EXCEPT !.started = TRUE]
           r == Observation("agent.started", s)
           n == Noted(m, "other", "handle")
<1>1. pc[c] = "started" /\ pc[c] \in Body \ {"initial"} /\ pc[c] \in Body
  BY DEF Started, Body
<1>2. /\ TypeOK /\ mem[c] \in Memory /\ mem[c].known /\ HasRun(c) /\ Active(c) /\ Busy(c)
      /\ Count \in Nat /\ (Suits(c) \/ Count >= 2)
  BY <1>1, BodyHasRun
<1>3. s \in Sessions \ Existing /\ ~mem[c].pending /\ ~mem[c].completed
  BY <1>0, <1>1, <1>2 DEF Busy
<1>4. UNCHANGED <<files, remote, signalled>> /\ (creations' = 0 => opened' = Existing)
  BY DEF Started, remote, TInv
<1>5. "other" \in Errors /\ {"handle", "running"} \subseteq Steps /\ "handle" \in Handlers
  BY DEF Errors, Steps, Body, Handlers
<1>6. /\ m \in Memory /\ m.known = mem[c].known /\ m.session = s
      /\ m.started = mem[c].started /\ m.pending = mem[c].pending
      /\ m.completed = mem[c].completed /\ m.meta \in Metadata
      /\ m.meta.session = s /\ m.meta.status = "session_created"
      /\ m.meta.result = mem[c].meta.result /\ m.meta.transcript = mem[c].meta.transcript
  BY <1>0, <1>2, <1>3 DEF Memory, Metadata
<1>7. Durable(c, r, m, done, "running", "handle")
  BY <1>0, <1>6 DEF Started
<1> HIDE DEF m
<1>8. /\ done \in Memory /\ done.known = mem[c].known /\ done.session = s
      /\ done.started = TRUE /\ done.meta = m.meta
  BY <1>2, <1>6 DEF Memory
<1>9. r \in Asked
  BY <1>3 DEF Asked, Observation, Observations
<1>10. /\ n \in Memory /\ n.session = s /\ n.pending = m.pending /\ n.completed = m.completed
       /\ n.meta = m.meta /\ n.error = "other"
  BY <1>5, <1>6, NotedFields
<1> HIDE DEF done, r, n
<1>11. /\ Count' \in {Count, Count + 1}
       /\ May(r) => \/ Grew(r) /\ Reaches(c, done, "running") /\ Count' = Count
                    \/ Count' = Count + 1 /\ (Reaches(c, n, "handle") \/ Ends(c))
  BY <1>2, <1>5, <1>6, <1>7, <1>8, <1>9, DurableCounts DEF n
<1>12. CASE Count >= 2
  <2>1. Alone(c) /\ pc'[c] # "initial"
    <3>1. Reaches(c, done, "running") \/ Reaches(c, n, "handle") \/ Ends(c)
      BY <1>2, <1>5, <1>6, <1>7, <1>8, <1>9, DurableReach DEF n
    <3> QED BY <3>1 DEF Reaches, Ends, Vanishes
  <2> QED BY <1>2, <1>4, <1>11, <1>12, <2>1, TwoFaults
<1>13. CASE Suits(c)
  <2>1. Validated /\ mem[c].meta = Planned /\ Filled(Planned, TRUE, "none", FALSE)
    BY <1>1, <1>13 DEF Suits, BodyFits, Prepared
  <2>2. May(r) /\ (Grew(r) => Begun(s)')
    BY <1>2, <1>3, <2>1, AgentStarts DEF r
  <2>3. m.meta = OpenMetadata("session_created", s)
    <3> DEFINE o == OpenMetadata("session_created", s)
    <3>1. o \in Metadata
      BY <1>3, StartedMetadata
    <3>2. o.status = "session_created" /\ o.session = s /\ o.result = "none"
          /\ o.transcript = "pending"
      BY PlannedMetadata DEF OpenMetadata, NoMetadata, Metadata
    <3>3. Planned.result = "none" /\ Planned.transcript = "pending"
      BY DEF Planned, NoMetadata
    <3> HIDE DEF o
    <3> QED BY <1>6, <2>1, <3>1, <3>2, <3>3, SameMetadata DEF o
  <2>4. Filled(Planned, TRUE, "none", FALSE)' /\ files.linked = {} /\ files'.linked = {}
    BY <1>4, <2>1 DEF Filled
  <2>5. CASE Grew(r) /\ Reaches(c, done, "running") /\ Count' = Count
    <3>1. Alone(c) /\ pc'[c] = "running" /\ mem'[c] = done /\ Active(c)' /\ ~Held(c)
          /\ pc'[c] \in Body
      BY <1>1, <2>5, OneSide DEF Reaches, Active, Body
    <3>2. Launched(c)'
      BY <1>8, <2>2, <2>3, <2>4, <2>5, <3>1 DEF Launched, Begun
    <3>3. Suits(c)'
      BY <3>1, <3>2, OneSide DEF Suits, BodyFits
    <3> QED BY <1>2, <1>4, <1>8, <2>5, <3>1, <3>3, GoesOn
  <2>6. CASE Count' = Count + 1 /\ Ends(c)
    BY <1>2, <1>4, <2>6, Disturbed
  <2>7. CASE Count' = Count + 1 /\ Reaches(c, n, "handle")
    <3>1. Alone(c) /\ pc'[c] = "handle" /\ mem'[c] = n
      BY <2>7 DEF Reaches
    <3>2. Named(c)'
      BY <1>3, <1>6, <1>10, <2>3, <2>4, <3>1 DEF Named
    <3> QED BY <1>2, <1>4, <1>5, <2>7, <3>1, <3>2, FirstFault DEF Held
  <2> QED BY <1>11, <2>2, <2>5, <2>6, <2>7
<1> QED BY <1>2, <1>12, <1>13

\* What an invocation that waits for its answer has, named so that it can be
\* compared with what it had.
LEMMA ProgressFields ==
    ASSUME NEW c, NEW s, s = mem[c].session, NEW result, NEW transcript,
           InProgress(c, result, transcript)
    PROVE  /\ mem[c].started /\ Begun(s) /\ mem[c].meta = OpenMetadata("running", s)
           /\ files.dir /\ files.metadata = OpenMetadata("running", s) /\ files.prompt = TRUE
           /\ files.result = result /\ files.transcript = transcript
           /\ files.linked = {} /\ ~files.stray
BY DEF InProgress, Filled

LEMMA ProgressStays ==
    ASSUME NEW c, NEW s, s = mem'[c].session, NEW result, NEW transcript,
           mem'[c].started, Begun(s), UNCHANGED <<log, st>>,
           mem'[c].meta = OpenMetadata("running", s),
           files'.dir, files'.metadata = OpenMetadata("running", s), files'.prompt = TRUE,
           files'.result = result, files'.transcript = transcript,
           files'.linked = {}, ~files'.stray
    PROVE  InProgress(c, result, transcript)'
<1>1. Begun(s)'
  BY NothingNew
<1> QED BY <1>1 DEF InProgress, Filled, Begun

LEMMA OpenIsRunning ==
    ASSUME NEW s \in Sessions, NEW m \in Metadata, m.session = s, m.status = "running",
           m.result = "none", m.transcript = "pending"
    PROVE  m = OpenMetadata("running", s)
<1> DEFINE o == OpenMetadata("running", s)
<1>1. o \in Metadata
  BY StartedMetadata
<1>2. o.status = "running" /\ o.session = s /\ o.result = "none" /\ o.transcript = "pending"
  BY PlannedMetadata DEF OpenMetadata, NoMetadata, Metadata
<1> HIDE DEF o
<1>3. m = o
  BY <1>1, <1>2, SameMetadata
<1> QED BY <1>3 DEF o

LEMMA RunningStays ==
    ASSUME IInv, RInv, TInv, NEW c \in Controllers, Running(c)
    PROVE  TInv'
<1>0. PICK s : s = mem[c].session
  OBVIOUS
<1> DEFINE m == [mem[c] EXCEPT !.meta.status = "running"]
<1>1. pc[c] = "running" /\ pc[c] \in Body \ {"initial"} /\ pc[c] \in Body \ {"initial", "started"}
  BY DEF Running, Body
<1>2. TypeOK /\ mem[c] \in Memory /\ mem[c].known /\ Busy(c)
  BY <1>1, BodyHasRun
<1>3. s \in Sessions
  BY <1>0, <1>1, <1>2 DEF Busy, Body, Early
<1>4. /\ WriteFile(c, "metadata", m.meta, m, m, "submit", "handle")
      /\ UNCHANGED <<pair, remote, signalled>>
  BY DEF Running
<1>5. /\ m \in Memory /\ m.known /\ m.session = s /\ m.started = mem[c].started
      /\ m.meta \in Metadata /\ m.meta.status = "running"
      /\ m.meta.session = mem[c].meta.session /\ m.meta.result = mem[c].meta.result
      /\ m.meta.transcript = mem[c].meta.transcript
  BY <1>0, <1>2 DEF Memory, Metadata
<1> HIDE DEF m
<1>6. ASSUME Suits(c)
      PROVE  /\ m.meta = OpenMetadata("running", s) /\ LifecycleValid(m.meta)
             /\ mem[c].started /\ Begun(s)
             /\ files.prompt = TRUE /\ files.result = "none" /\ files.transcript = FALSE
             /\ files.linked = {} /\ ~files.stray
  <2>1. Launched(c)
    BY <1>1, <1>6 DEF Suits, BodyFits
  <2>2. /\ mem[c].started /\ Begun(s) /\ mem[c].meta = OpenMetadata("session_created", s)
        /\ files.prompt = TRUE /\ files.result = "none" /\ files.transcript = FALSE
        /\ files.linked = {} /\ ~files.stray
    BY <1>0, <2>1 DEF Launched, Filled
  <2>3. /\ mem[c].meta.session = s /\ mem[c].meta.result = "none"
        /\ mem[c].meta.transcript = "pending"
    BY <2>2, PlannedMetadata DEF OpenMetadata, NoMetadata, Metadata
  <2>4. m.meta = OpenMetadata("running", s)
    BY <1>3, <1>5, <2>3, OpenIsRunning
  <2>5. LifecycleValid(OpenMetadata("running", s))
    BY <1>3, StartedMetadata
  <2> QED BY <2>2, <2>4, <2>5
<1>7. Suits(c) => MayInstall(files, "metadata", m.meta)
  BY <1>6 DEF MayInstall
<1>8. Fits("metadata", m.meta)
  BY <1>5 DEF Fits
<1>9. ASSUME Suits(c), files' = Put(files, "metadata", m.meta), Reaches(c, m, "submit")
      PROVE  Suits(c)'
  <2>1. pc'[c] = "submit" /\ mem'[c] = m /\ log' = log /\ st' = st
    BY <1>4, <1>9 DEF Reaches, pair
  <2>2. /\ files'.dir /\ files'.metadata = m.meta /\ files'.prompt = TRUE
        /\ files'.result = "none" /\ files'.transcript = FALSE
        /\ files'.linked = {} /\ ~files'.stray
    <3>1. /\ files'.dir /\ files'.linked = files.linked /\ files'.stray = files.stray
          /\ files'["metadata"] = m.meta
          /\ \A b \in Artifacts \ {"metadata"} : files'[b] = files[b]
      BY <1>2, <1>8, <1>9, PutFields
    <3> QED BY <1>6, <1>9, <3>1 DEF Artifacts, Immutable
  <2>3. InProgress(c, "none", FALSE)'
    BY <1>5, <1>6, <1>9, <2>1, <2>2, ProgressStays
  <2>4. BodyFits(c)' /\ pc'[c] \in Body
    BY <2>1, <2>3 DEF BodyFits, Body
  <2> QED BY <2>4, OneSide DEF Suits
<1> QED BY <1>0, <1>1, <1>4, <1>5, <1>7, <1>8, <1>9, BodyRecords DEF Body, Steps

\* Every error that ends the wait, or comes instead of it, without costing
\* anything.
LEMMA WaitRaises ==
    ASSUME IInv, RInv, TInv, NEW c \in Controllers, pc[c] \in {"submit", "wait"},
           UNCHANGED <<log, st, files, remote>>,
           NEW error \in {"signal", "timed_out", "other"}, Raises(c, mem[c], error, "handle")
    PROVE  TInv'
<1>0. PICK s : s = mem[c].session
  OBVIOUS
<1> DEFINE n == Noted(mem[c], error, "handle")
<1>1. pc[c] \in Body \ {"initial"} /\ pc[c] \in Unanswered
  BY DEF Body, Unanswered, Early, Unsent
<1>2. TypeOK /\ mem[c] \in Memory /\ mem[c].known /\ BodyKeeps(c)
  BY <1>1, BodyHasRun
<1>3. error \in Errors /\ "handle" \in Steps /\ "handle" \in Handlers
  BY DEF Errors, Steps, Handlers
<1>4. Reaches(c, n, "handle") /\ UNCHANGED <<faults, crashes>>
  BY <1>2, <1>3, ErrorReach DEF Raises, Returns
<1>5. /\ n \in Memory /\ n.known = mem[c].known /\ n.session = s
      /\ n.started = mem[c].started /\ n.pending = mem[c].pending
      /\ n.completed = mem[c].completed /\ n.meta = mem[c].meta /\ n.error = error
      /\ n.evidence = mem[c].evidence
  BY <1>0, <1>2, <1>3, NotedFields
<1>6. ~mem[c].pending /\ ~mem[c].completed /\ mem[c].evidence = FALSE
  BY <1>1, <1>2 DEF BodyKeeps, Memory
<1> HIDE DEF n
<1>7. Alone(c) /\ pc'[c] = "handle" /\ mem'[c] = n
  BY <1>4 DEF Reaches
<1>8. ASSUME Suits(c) PROVE Suits(c)'
  <2>1. InProgress(c, "none", FALSE)
    BY <1>8 DEF Suits, BodyFits
  <2>2. /\ mem[c].started /\ Begun(s) /\ mem[c].meta = OpenMetadata("running", s)
        /\ files.dir /\ files.metadata = OpenMetadata("running", s) /\ files.prompt = TRUE
        /\ files.result = "none" /\ files.transcript = FALSE
        /\ files.linked = {} /\ ~files.stray
    BY <1>0, <2>1, ProgressFields
  <2>3. InProgress(c, "none", FALSE)'
    BY <1>5, <1>7, <2>2, ProgressStays
  <2>4. Unended(c)'
    BY <1>5, <1>6, <1>7, <2>3 DEF Unended, InProgress, Filled
  <2>5. HandlersFit(c)'
    BY <1>5, <1>6, <1>7, <2>2, <2>4 DEF HandlersFit
  <2> QED BY <1>3, <1>7, <2>5, OneSide DEF Suits
<1> QED BY <1>1, <1>2, <1>4, <1>5, <1>7, <1>8, BodyTurns

LEMMA SubmitStays ==
    ASSUME IInv, RInv, TInv, NEW c \in Controllers, Submit(c)
    PROVE  TInv'
<1>0. PICK s : s = mem[c].session
  OBVIOUS
<1>1. pc[c] = "submit" /\ pc[c] \in Body \ {"initial"}
      /\ UNCHANGED <<log, st, files, remote>>
  BY DEF Submit, Body, pair
<1>2. TypeOK /\ mem[c] \in Memory /\ mem[c].known /\ HasRun(c)
  BY <1>1, BodyHasRun
<1>3. CASE Raises(c, mem[c], "signal", "handle")
  BY <1>1, <1>3, WaitRaises
<1>4. CASE /\ Continue(c, mem[c], "wait") /\ UNCHANGED <<owner, budget>>
           /\ worker' = [worker EXCEPT ![c].step = "connecting"]
  <2>1. /\ Alone(c) /\ pc'[c] = "wait" /\ mem'[c] = mem[c] /\ UNCHANGED <<faults, crashes>>
    <3>1. "wait" \in Steps
      BY DEF Steps, Body
    <3>2. /\ pc'[c] = "wait" /\ mem'[c] = mem[c]
          /\ \A d \in Controllers \ {c} : pc'[d] = pc[d] /\ mem'[d] = mem[d]
      BY <1>2, <1>4, <3>1, ContinueEffect
    <3>3. \A d \in Controllers \ {c} : worker'[d] = worker[d]
      BY <1>2, <1>4 DEF TypeOK
    <3> QED BY <1>4, <3>2, <3>3 DEF Alone, budget
  <2>2. pc'[c] \in Body \ {"initial"}
    BY <2>1 DEF Body
  <2>3. ASSUME Suits(c) PROVE Suits(c)'
    <3>1. InProgress(c, "none", FALSE)
      BY <1>1, <2>3 DEF Suits, BodyFits
    <3>2. /\ mem[c].started /\ Begun(s) /\ mem[c].meta = OpenMetadata("running", s)
          /\ files.dir /\ files.metadata = OpenMetadata("running", s) /\ files.prompt = TRUE
          /\ files.result = "none" /\ files.transcript = FALSE
          /\ files.linked = {} /\ ~files.stray
      BY <1>0, <3>1, ProgressFields
    <3>3. InProgress(c, "none", FALSE)'
      BY <1>0, <1>1, <2>1, <3>2, ProgressStays
    <3>4. BodyFits(c)'
      BY <2>1, <3>3 DEF BodyFits
    <3> QED BY <2>2, <3>4, OneSide DEF Suits
  <2> QED BY <1>1, <1>2, <2>1, <2>2, <2>3, BodyTurns
<1> QED BY <1>3, <1>4 DEF Submit

LEMMA WaitStays ==
    ASSUME IInv, RInv, TInv, NEW c \in Controllers, Receive(c) \/ GiveUp(c)
    PROVE  TInv'
<1>0. PICK s : s = mem[c].session
  OBVIOUS
<1> DEFINE answer == worker[c].answer
           m == [mem[c] EXCEPT !.answer = answer]
<1>1. pc[c] = "wait" /\ pc[c] \in Body \ {"initial"} /\ pc[c] \in {"submit", "wait"}
      /\ UNCHANGED <<log, st, files, remote>>
  BY DEF Receive, GiveUp, Body, pair
<1>2. TypeOK /\ mem[c] \in Memory /\ mem[c].known /\ VariablesAgree(c)
  BY <1>1, BodyHasRun
<1>3. {"result", "evidence"} \subseteq Steps /\ {"result", "evidence"} \subseteq Body \ {"initial"}
  BY DEF Steps, Body
<1>4. CASE \E error \in {"signal", "timed_out", "other"} : Raises(c, mem[c], error, "handle")
  BY <1>1, <1>4, WaitRaises
<1>5. ASSUME NEW n \in Memory, NEW next \in {"result", "evidence"}, Returns(c, n, next),
             n.known = mem[c].known, n.session = s, n.started = mem[c].started,
             n.meta = mem[c].meta
      PROVE  TInv'
  <2>1. Reaches(c, n, next) /\ UNCHANGED <<faults, crashes>>
    BY <1>2, <1>3, <1>5, ReturnsReach DEF Returns
  <2>2. Alone(c) /\ pc'[c] = next /\ mem'[c] = n
    BY <2>1 DEF Reaches
  <2>3. ASSUME Suits(c) PROVE Suits(c)'
    <3>1. InProgress(c, "none", FALSE)
      BY <1>1, <2>3 DEF Suits, BodyFits
    <3>2. /\ mem[c].started /\ Begun(s) /\ mem[c].meta = OpenMetadata("running", s)
          /\ files.dir /\ files.metadata = OpenMetadata("running", s) /\ files.prompt = TRUE
          /\ files.result = "none" /\ files.transcript = FALSE
          /\ files.linked = {} /\ ~files.stray
      BY <1>0, <3>1, ProgressFields
    <3>3. InProgress(c, "none", FALSE)'
      BY <1>1, <1>5, <2>2, <3>2, ProgressStays
    <3>4. BodyFits(c)'
      BY <2>2, <3>3 DEF BodyFits
    <3> QED BY <1>3, <2>2, <3>4, OneSide DEF Suits
  <2> QED BY <1>1, <1>2, <1>3, <1>5, <2>1, <2>2, <2>3, BodyTurns
<1>6. CASE Receive(c) /\ answer \notin {"error", "violation"} /\ Returns(c, m, "result")
  <2>1. answer \in Results
    BY <1>2, <1>6 DEF Receive, VariablesAgree, Answers
  <2>2. /\ m \in Memory /\ m.known = mem[c].known /\ m.session = s
        /\ m.started = mem[c].started /\ m.meta = mem[c].meta
    BY <1>0, <1>2, <2>1 DEF Memory
  <2> HIDE DEF m
  <2> QED BY <1>5, <1>6, <2>2
<1>7. CASE Returns(c, mem[c], "evidence")
  BY <1>0, <1>2, <1>5, <1>7
<1>8. \/ \E error \in {"signal", "timed_out", "other"} : Raises(c, mem[c], error, "handle")
      \/ Returns(c, mem[c], "evidence")
      \/ Receive(c) /\ answer \notin {"error", "violation"} /\ Returns(c, m, "result")
  <2>1. CASE GiveUp(c)
    BY <2>1 DEF GiveUp
  <2>2. CASE Receive(c)
    <3>1. CASE answer = "error"
      BY <2>2, <3>1 DEF Receive
    <3>2. CASE answer = "violation"
      BY <2>2, <3>2 DEF Receive
    <3>3. CASE answer \notin {"error", "violation"}
      BY <2>2, <3>3 DEF Receive
    <3> QED BY <3>1, <3>2, <3>3
  <2> QED BY <2>1, <2>2
<1> QED BY <1>4, <1>6, <1>7, <1>8

\* The transcript is kept before the answer is judged, or after its result is.
LEMMA TranscriptKept ==
    ASSUME IInv, RInv, TInv, NEW c \in Controllers, pc[c] \in {"evidence", "transcript"},
           UNCHANGED <<pair, remote, signalled>>,
           NEW done \in Memory, NEW next \in {"terminal", "handle"},
           WriteFile(c, "transcript", TRUE, mem[c], done, next, "handle"),
           NEW was, Suits(c) => InProgress(c, was, FALSE),
           done.known = mem[c].known, done.session = mem[c].session,
           done.started = mem[c].started, done.meta = mem[c].meta,
           InProgress(c, was, TRUE)' /\ pc'[c] = next /\ mem'[c] = done => Suits(c)'
    PROVE  TInv'
<1>0. PICK s : s = mem[c].session
  OBVIOUS
<1>1. pc[c] \in Body \ {"initial"} /\ pc[c] \in Body \ {"initial", "started"}
      /\ next \in Steps /\ next \in (Body \ {"initial"}) \cup Handlers
      /\ Fits("transcript", TRUE)
  BY DEF Body, Steps, Handlers, Fits
<1>2. TypeOK /\ mem[c] \in Memory /\ mem[c].known
  BY <1>1, BodyHasRun
<1>3. ASSUME Suits(c)
      PROVE  /\ mem[c].started /\ Begun(s) /\ mem[c].meta = OpenMetadata("running", s)
             /\ files.dir /\ files.metadata = OpenMetadata("running", s) /\ files.prompt = TRUE
             /\ files.result = was /\ files.transcript = FALSE
             /\ files.linked = {} /\ ~files.stray
  BY <1>0, <1>3, ProgressFields
<1>4. Suits(c) => MayInstall(files, "transcript", TRUE)
  BY <1>3 DEF MayInstall, NoFiles
<1>5. ASSUME Suits(c), files' = Put(files, "transcript", TRUE), Reaches(c, done, next)
      PROVE  Suits(c)'
  <2>1. pc'[c] = next /\ mem'[c] = done /\ log' = log /\ st' = st
    BY <1>5 DEF Reaches, pair
  <2>2. /\ files'.dir /\ files'.linked = files.linked /\ files'.stray = files.stray
        /\ files'["transcript"] = TRUE
        /\ \A b \in Artifacts \ {"transcript"} : files'[b] = files[b]
    BY <1>1, <1>2, <1>5, PutFields
  <2>3. /\ files'.metadata = files.metadata /\ files'.prompt = files.prompt
        /\ files'.result = files.result /\ files'.transcript = TRUE
    BY <2>2 DEF Artifacts, Immutable
  <2>4. /\ files'.metadata = OpenMetadata("running", s) /\ files'.prompt = TRUE
        /\ files'.result = was /\ files'.linked = {} /\ ~files'.stray
    BY <1>3, <1>5, <2>2, <2>3
  <2>5. s = mem'[c].session /\ mem'[c].meta = OpenMetadata("running", s)
    BY <1>0, <1>3, <1>5, <2>1
  <2>6. mem'[c].started
    BY <1>3, <1>5, <2>1
  <2>7. InProgress(c, was, TRUE)'
    BY <1>3, <1>5, <2>1, <2>2, <2>3, <2>4, <2>5, <2>6, ProgressStays
  <2> QED BY <2>1, <2>7
<1> QED BY <1>1, <1>2, <1>4, <1>5, BodyRecords

LEMMA EvidenceStays ==
    ASSUME IInv, RInv, TInv, NEW c \in Controllers, KeepEvidence(c)
    PROVE  TInv'
<1> DEFINE done == [mem[c] EXCEPT !.evidence = TRUE, !.error = "other"]
<1>1. /\ pc[c] = "evidence" /\ pc[c] \in Body \ {"initial"} /\ pc[c] \in Unanswered
      /\ pc[c] \in {"evidence", "transcript"}
  BY DEF KeepEvidence, Body, Unanswered
<1>2. TypeOK /\ mem[c] \in Memory /\ mem[c].known /\ BodyKeeps(c) /\ Busy(c)
  BY <1>1, BodyHasRun
<1>3. ~mem[c].pending /\ ~mem[c].completed /\ mem[c].started
  BY <1>1, <1>2 DEF BodyKeeps, Busy, Body, Early
<1>4. /\ WriteFile(c, "transcript", TRUE, mem[c], done, "handle", "handle")
      /\ UNCHANGED <<pair, remote, signalled>>
  BY DEF KeepEvidence
<1>5. /\ done \in Memory /\ done.known = mem[c].known /\ done.session = mem[c].session
      /\ done.started = mem[c].started /\ done.meta = mem[c].meta /\ done.evidence = TRUE
      /\ done.error = "other" /\ done.pending = mem[c].pending
      /\ done.completed = mem[c].completed
  BY <1>2 DEF Memory, Errors
<1> HIDE DEF done
<1>6. Suits(c) => InProgress(c, "none", FALSE)
  BY <1>1 DEF Suits, BodyFits
<1>7. ASSUME InProgress(c, "none", TRUE)', pc'[c] = "handle", mem'[c] = done
      PROVE  Suits(c)'
  <2>1. Unended(c)'
    BY <1>5, <1>7 DEF Unended, InProgress, Filled
  <2>2. HandlersFit(c)'
    BY <1>3, <1>5, <1>7, <2>1 DEF HandlersFit
  <2>3. pc'[c] \in Handlers
    BY <1>7 DEF Handlers
  <2> QED BY <2>2, <2>3, OneSide DEF Suits
<1> QED BY <1>1, <1>4, <1>5, <1>6, <1>7, TranscriptKept

LEMMA ResultStays ==
    ASSUME IInv, RInv, TInv, NEW c \in Controllers, WriteResult(c)
    PROVE  TInv'
<1>0. PICK answer, s : answer = mem[c].answer /\ s = mem[c].session
  OBVIOUS
<1> DEFINE done == [mem[c] EXCEPT !.pending = TRUE]
<1>1. /\ pc[c] = "result" /\ pc[c] \in Body \ {"initial"} /\ pc[c] \in Answered
      /\ pc[c] \in Body \ {"initial", "started"}
  BY DEF WriteResult, Body, Answered
<1>2. TypeOK /\ mem[c] \in Memory /\ mem[c].known /\ BodyKeeps(c)
  BY <1>1, BodyHasRun
<1>3. answer \in Results
  BY <1>0, <1>1, <1>2 DEF BodyKeeps
<1>4. /\ WriteFile(c, "result", answer, mem[c], done, "transcript", "handle")
      /\ UNCHANGED <<pair, remote, signalled>>
  BY <1>0 DEF WriteResult
<1>5. /\ done \in Memory /\ done.known = mem[c].known /\ done.session = mem[c].session
      /\ done.started = mem[c].started /\ done.meta = mem[c].meta /\ done.answer = answer
  BY <1>0, <1>2 DEF Memory
<1> HIDE DEF done
<1>6. Suits(c) => InProgress(c, "none", FALSE)
  BY <1>1 DEF Suits, BodyFits
<1>7. Fits("result", answer)
  BY <1>3 DEF Fits
<1>8. ASSUME Suits(c)
      PROVE  /\ mem[c].started /\ Begun(s) /\ mem[c].meta = OpenMetadata("running", s)
             /\ files.dir /\ files.metadata = OpenMetadata("running", s) /\ files.prompt = TRUE
             /\ files.result = "none" /\ files.transcript = FALSE
             /\ files.linked = {} /\ ~files.stray
  BY <1>0, <1>6, <1>8, ProgressFields
<1>9. Suits(c) => MayInstall(files, "result", answer)
  BY <1>8 DEF MayInstall, NoFiles
<1>10. ASSUME Suits(c), files' = Put(files, "result", answer), Reaches(c, done, "transcript")
       PROVE  Suits(c)'
  <2>1. pc'[c] = "transcript" /\ mem'[c] = done /\ log' = log /\ st' = st
    BY <1>4, <1>10 DEF Reaches, pair
  <2>2. /\ files'.dir /\ files'.linked = files.linked /\ files'.stray = files.stray
        /\ files'["result"] = answer
        /\ \A b \in Artifacts \ {"result"} : files'[b] = files[b]
    BY <1>2, <1>7, <1>10, PutFields
  <2>3. /\ files'.metadata = files.metadata /\ files'.prompt = files.prompt
        /\ files'.result = answer /\ files'.transcript = files.transcript
    BY <2>2 DEF Artifacts, Immutable
  <2>4. /\ files'.metadata = OpenMetadata("running", s) /\ files'.prompt = TRUE
        /\ files'.transcript = FALSE /\ files'.linked = {} /\ ~files'.stray
    BY <1>8, <1>10, <2>2, <2>3
  <2>5. s = mem'[c].session /\ mem'[c].meta = OpenMetadata("running", s)
    BY <1>0, <1>5, <1>8, <1>10, <2>1
  <2>6. mem'[c].started
    BY <1>5, <1>8, <1>10, <2>1
  <2>7. InProgress(c, answer, FALSE)'
    BY <1>8, <1>10, <2>1, <2>2, <2>3, <2>4, <2>5, <2>6, ProgressStays
  <2>8. BodyFits(c)' /\ pc'[c] \in Body
    BY <1>5, <2>1, <2>7 DEF BodyFits, InProgress, Filled, Body
  <2> QED BY <2>8, OneSide DEF Suits
<1>11. done.known /\ "transcript" \in Steps
       /\ "transcript" \in (Body \ {"initial"}) \cup Handlers
  BY <1>2, <1>5 DEF Steps, Body
<1> QED BY <1>1, <1>2, <1>4, <1>5, <1>7, <1>9, <1>10, <1>11, BodyRecords

LEMMA TranscriptStays ==
    ASSUME IInv, RInv, TInv, NEW c \in Controllers, WriteTranscript(c)
    PROVE  TInv'
<1>0. PICK answer : answer = mem[c].answer
  OBVIOUS
<1>1. /\ pc[c] = "transcript" /\ pc[c] \in Body \ {"initial"}
      /\ pc[c] \in {"evidence", "transcript"}
  BY DEF WriteTranscript, Body
<1>2. TypeOK /\ mem[c] \in Memory /\ mem[c].known
  BY <1>1, BodyHasRun
<1>4. /\ WriteFile(c, "transcript", TRUE, mem[c], mem[c], "terminal", "handle")
      /\ UNCHANGED <<pair, remote, signalled>>
  BY DEF WriteTranscript
<1>6. Suits(c) => InProgress(c, answer, FALSE)
  BY <1>0, <1>1 DEF Suits, BodyFits
<1>7. ASSUME InProgress(c, answer, TRUE)', pc'[c] = "terminal", mem'[c] = mem[c]
      PROVE  Suits(c)'
  <2>1. BodyFits(c)' /\ pc'[c] \in Body
    BY <1>0, <1>7 DEF BodyFits, InProgress, Filled, Body
  <2> QED BY <2>1, OneSide DEF Suits
<1> QED BY <1>1, <1>2, <1>4, <1>6, <1>7, TranscriptKept

LEMMA DoneFields ==
    ASSUME NEW s \in Sessions, NEW answer \in Results
    PROVE  LET d == DoneMetadata(answer, s) IN
           /\ d \in Metadata /\ LifecycleValid(d) /\ d.status = answer /\ d.session = s
           /\ d.result = answer /\ d.transcript = "kept"
BY AnsweredMetadata DEF DoneMetadata

LEMMA CloseCompletedStays ==
    ASSUME IInv, RInv, TInv, NEW c \in Controllers, CloseCompleted(c)
    PROVE  TInv'
<1>0. PICK s, answer : s = mem[c].session /\ answer = mem[c].answer
  OBVIOUS
<1> DEFINE m == [mem[c] EXCEPT !.meta.status = mem[c].answer, !.meta.result = mem[c].answer,
                               !.meta.transcript = "kept"]
           d == DoneMetadata(answer, s)
<1>1. /\ pc[c] = "terminal" /\ pc[c] \in Body \ {"initial"} /\ pc[c] \in Answered
      /\ pc[c] \in Body \ {"initial", "started"}
  BY DEF CloseCompleted, Body, Answered
<1>2. TypeOK /\ mem[c] \in Memory /\ mem[c].known /\ BodyKeeps(c) /\ Busy(c)
      /\ VariablesAgree(c)
  BY <1>1, BodyHasRun
<1>3. answer \in Results /\ mem[c].started /\ s \in Sessions /\ mem[c].meta.session = s
  BY <1>0, <1>1, <1>2 DEF BodyKeeps, Busy, Body, Early, VariablesAgree
<1>4. /\ WriteFile(c, "metadata", m.meta, m, m, "completed", "handle")
      /\ UNCHANGED <<pair, remote, signalled>>
  BY DEF CloseCompleted
<1>5. /\ m \in Memory /\ m.known /\ m.session = s /\ m.started = mem[c].started
      /\ m.answer = answer /\ m.meta \in Metadata /\ m.meta.status = answer
      /\ m.meta.session = mem[c].meta.session /\ m.meta.result = answer
      /\ m.meta.transcript = "kept"
  BY <1>0, <1>2, <1>3 DEF Memory, Metadata, Final
<1> HIDE DEF m, d
<1>6. m.meta = d /\ LifecycleValid(d)
  <2>1. /\ d \in Metadata /\ LifecycleValid(d) /\ d.status = answer /\ d.session = s
        /\ d.result = answer /\ d.transcript = "kept"
    BY <1>3, DoneFields DEF d
  <2> QED BY <1>3, <1>5, <2>1, SameMetadata
<1>7. ASSUME Suits(c)
      PROVE  /\ Begun(s) /\ files.prompt = TRUE
             /\ files.result = answer /\ files.transcript = TRUE
             /\ files.linked = {} /\ ~files.stray
  <2>1. InProgress(c, answer, TRUE)
    BY <1>0, <1>1, <1>7 DEF Suits, BodyFits
  <2> QED BY <1>0, <2>1, ProgressFields
<1>8. Suits(c) => MayInstall(files, "metadata", m.meta)
  BY <1>6, <1>7 DEF MayInstall
<1>9. Fits("metadata", m.meta)
  BY <1>5 DEF Fits
<1>10. ASSUME Suits(c), files' = Put(files, "metadata", m.meta), Reaches(c, m, "completed")
       PROVE  Suits(c)'
  <2>1. pc'[c] = "completed" /\ mem'[c] = m /\ log' = log /\ st' = st
    BY <1>4, <1>10 DEF Reaches, pair
  <2>2. /\ files'.dir /\ files'.metadata = m.meta /\ files'.prompt = TRUE
        /\ files'.result = answer /\ files'.transcript = TRUE
        /\ files'.linked = {} /\ ~files'.stray
    <3>1. /\ files'.dir /\ files'.linked = files.linked /\ files'.stray = files.stray
          /\ files'["metadata"] = m.meta
          /\ \A b \in Artifacts \ {"metadata"} : files'[b] = files[b]
      BY <1>2, <1>9, <1>10, PutFields
    <3> QED BY <1>7, <1>10, <3>1 DEF Artifacts, Immutable
  <2>3. Begun(s)'
    BY <1>7, <1>10, <2>1, NothingNew
  <2>4. Finished(c)'
    BY <1>3, <1>5, <1>6, <2>1, <2>2 DEF Finished, Filled, d
  <2>5. BodyFits(c)' /\ pc'[c] \in Body
    BY <1>5, <2>1, <2>3, <2>4 DEF BodyFits, Begun, Body
  <2> QED BY <2>5, OneSide DEF Suits
<1> QED BY <1>0, <1>1, <1>4, <1>5, <1>8, <1>9, <1>10, BodyRecords DEF Body, Steps

\* An ended invocation whose records say the same can be blocked.
LEMMA EndedIsBlockable ==
    ASSUME Closable', NEW s \in Sessions, StartedWith(s)',
           NEW m, LifecycleValid(m), m.session = s, m.status \in Final,
           files'.dir, files'.metadata = m, files'.prompt = TRUE, files'.result = m.result,
           files'.transcript = (m.transcript = "kept"), files'.linked = {}, ~files'.stray,
           SomeCompleted' => m.status \in Results,
           SomeInterrupted' => m.status \in {"timed_out", "interrupted"}
    PROVE  Blockable'
<1>1. ReaderAccepts(st', log') /\ st'.session = None /\ st'.reason = "none" /\ log' # << >>
  <2>1. ReaderAccepts(st', log') /\ st'.session = None /\ st'.reason = "none"
    BY DEF Closable, Reads
  <2> QED BY <2>1 DEF ReaderAccepts, PairAgrees, ValidHistory
<1>2. /\ \A i \in Positions(log', {"agent.started"}) : log'[i].session = s
      /\ Positions(log', {"agent.completed"}) # {} => m.status \in Results
      /\ Positions(log', {"agent.interrupted"}) # {} => m.status \in {"timed_out", "interrupted"}
  BY DEF StartedWith, SomeCompleted, SomeInterrupted, Of
<1>3. RecordsAccepted(files', st', log')
  BY <1>1, <1>2, EndedRecords
<1> QED BY <1>1, <1>3 DEF Blockable, Accepted

LEMMA CompletedStays ==
    ASSUME IInv, RInv, TInv, NEW c \in Controllers, Completed(c)
    PROVE  TInv'
<1>0. PICK s, answer : s = mem[c].session /\ answer = mem[c].answer
  OBVIOUS
<1> DEFINE done == [mem[c] EXCEPT !.pending = FALSE, !.completed = TRUE]
           r == Observation("agent.completed", s)
           d == DoneMetadata(answer, s)
<1>1. /\ pc[c] = "completed" /\ pc[c] \in Body \ {"initial"} /\ pc[c] \in Answered
      /\ pc[c] \in Body \ {"initial", "started"}
  BY DEF Completed, Body, Answered
<1>2. TypeOK /\ mem[c] \in Memory /\ mem[c].known /\ BodyKeeps(c) /\ Busy(c)
  BY <1>1, BodyHasRun
<1>3. answer \in Results /\ mem[c].started /\ s \in Sessions
  BY <1>0, <1>1, <1>2 DEF BodyKeeps, Busy, Body, Early
<1>4. /\ Durable(c, r, mem[c], done, "finish", "handle") /\ UNCHANGED <<files, remote,
                                                                        signalled>>
  BY <1>0 DEF Completed
<1>5. /\ done \in Memory /\ done.known /\ done.session = s /\ done.started = mem[c].started
      /\ done.answer = answer /\ done.meta = mem[c].meta /\ done.pending = FALSE
  BY <1>0, <1>2 DEF Memory
<1>6. /\ d \in Metadata /\ LifecycleValid(d) /\ d.status = answer /\ d.session = s
      /\ d.result = answer /\ d.transcript = "kept" /\ d.status \in Final
  BY <1>3, DoneFields DEF Final
<1>7. "agent.completed" \in EndTypes
  BY DEF EndTypes
<1>8. r \in Asked
  BY <1>3 DEF Asked, Observation, Observations
<1> HIDE DEF done, d
<1>9. ASSUME Suits(c)
      PROVE  /\ Begun(s) /\ mem[c].meta = d
             /\ files.dir /\ files.metadata = d /\ files.prompt = TRUE /\ files.result = answer
             /\ files.transcript = TRUE /\ files.linked = {} /\ ~files.stray
  <2>1. Begun(s) /\ Finished(c)
    BY <1>0, <1>1, <1>9 DEF Suits, BodyFits
  <2> QED BY <1>0, <2>1 DEF Finished, Filled, d
<1>10. ASSUME Suits(c) PROVE May(r)
  BY <1>2, <1>3, <1>7, <1>9, <1>10, AgentEnds
<1>11. ASSUME Suits(c), Grew(r), Reaches(c, done, "finish")
       PROVE  Suits(c)'
  <2>1. pc'[c] = "finish" /\ mem'[c] = done /\ files' = files
    BY <1>4, <1>11 DEF Reaches
  <2>2. Closable' /\ StartedWith(s)' /\ SomeCompleted' /\ ~SomeInterrupted'
    BY <1>2, <1>3, <1>7, <1>9, <1>11, AgentEnds
  <2>3. /\ files'.dir /\ files'.metadata = d /\ files'.prompt = TRUE /\ files'.result = answer
        /\ files'.transcript = TRUE /\ files'.linked = {} /\ ~files'.stray
    BY <1>9, <1>11, <2>1
  <2>4. files'.result = d.result /\ files'.transcript = (d.transcript = "kept")
    BY <1>6, <2>3
  <2>5. Blockable'
    BY <1>3, <1>6, <2>2, <2>3, <2>4, EndedIsBlockable
  <2>6. Finished(c)'
    <3>1. mem'[c].started /\ mem'[c].meta = d /\ mem'[c].answer = answer /\ mem'[c].session = s
      BY <1>3, <1>5, <1>9, <1>11, <2>1
    <3> QED BY <2>3, <3>1 DEF Finished, Filled, d
  <2>7. ~mem'[c].pending
    BY <1>5, <2>1
  <2>8. BodyFits(c)' /\ pc'[c] \in Body
    BY <2>1, <2>2, <2>5, <2>6, <2>7 DEF BodyFits, Body
  <2> QED BY <2>8, OneSide DEF Suits
<1>12. "finish" \in (Body \ {"initial"}) \cup {"exit"}
  BY DEF Body
<1> HIDE DEF r
<1> QED BY <1>0, <1>1, <1>2, <1>4, <1>5, <1>8, <1>10, <1>11, <1>12, BodyPersists

LEMMA FinishStays ==
    ASSUME IInv, RInv, TInv, NEW c \in Controllers, Finish(c)
    PROVE  TInv'
<1> DEFINE done == [mem[c] EXCEPT !.exit = "placeholder"]
           r == Transition("blocked", Placeholder)
           n == Noted(mem[c], "other", "handle")
<1>1. /\ pc[c] = "finish" /\ pc[c] \in Body \ {"initial"}
      /\ pc[c] \in Body \ {"initial", "started"}
  BY DEF Finish, Body
<1>2. TypeOK /\ mem[c] \in Memory /\ mem[c].known /\ Busy(c) /\ HasRun(c)
  BY <1>1, BodyHasRun
<1>3. mem[c].started /\ mem[c].completed
  BY <1>1, <1>2 DEF Busy, Body, Early
<1>4. UNCHANGED <<files, remote, signalled>>
  BY DEF Finish
<1>5. ASSUME Suits(c)
      PROVE  Blockable /\ SomeCompleted /\ Finished(c) /\ ~mem[c].pending
  BY <1>1, <1>5 DEF Suits, BodyFits
<1>6. CASE UNCHANGED pair /\ Raises(c, mem[c], "other", "handle")
  <2>1. "other" \in Errors /\ "handle" \in Steps
    BY DEF Errors, Steps, Handlers
  <2>2. /\ Reaches(c, n, "handle") /\ UNCHANGED <<faults, crashes>> /\ UNCHANGED <<log, st>>
    BY <1>2, <1>6, <2>1, ErrorReach DEF Raises, Returns, pair
  <2>3. /\ n \in Memory /\ n.known /\ n.started /\ n.completed /\ n.error = "other"
        /\ n.pending = mem[c].pending
    BY <1>2, <1>3, <2>1, NotedFields
  <2> HIDE DEF n
  <2>4. Alone(c) /\ pc'[c] = "handle" /\ mem'[c] = n
    BY <2>2 DEF Reaches
  <2>5. ASSUME Suits(c) PROVE Suits(c)'
    <3>1. Blockable'
      BY <1>4, <1>5, <2>2, <2>5, NothingNew
    <3>2. ~mem'[c].pending
      BY <1>5, <2>3, <2>4, <2>5
    <3>3. HandlersFit(c)' /\ pc'[c] \in Handlers \cup {"exit"}
      BY <2>3, <2>4, <3>1, <3>2 DEF HandlersFit, Handlers
    <3> QED BY <3>3, OneSide DEF Suits
  <2> QED BY <1>1, <1>4, <2>2, <2>3, <2>4, <2>5, BodyTurns
<1>7. CASE mem[c].answer = "completed" /\ Durable(c, r, mem[c], done, "exit", "handle")
  <2>1. Placeholder \in {"other", Placeholder} /\ r \in Asked
    BY DEF Asked, Transition, Reasons, Placeholder
  <2>2. /\ done \in Memory /\ done.known /\ done.started /\ done.completed
    BY <1>2, <1>3 DEF Memory, Exits
  <2> HIDE DEF done
  <2>3. ASSUME Suits(c)
        PROVE  /\ May(r) /\ (Grew(r) /\ UNCHANGED files => Settled')
    <3>1. /\ SomeCompleted /\ files.dir
          /\ files.metadata.status = "completed" /\ files.metadata.transcript = "kept"
      BY <1>5, <1>7, <2>3 DEF Finished, Filled, DoneMetadata
    <3> QED BY <1>2, <1>5, <2>1, <2>3, <3>1, BlockedAccepts
  <2>4. ASSUME Suits(c), Grew(r), Reaches(c, done, "exit")
        PROVE  Suits(c)'
    <3>1. Settled' /\ pc'[c] = "exit" /\ mem'[c] = done
      BY <1>4, <2>3, <2>4 DEF Reaches
    <3>2. HandlersFit(c)' /\ pc'[c] \in Handlers \cup {"exit"}
      BY <2>2, <3>1 DEF HandlersFit, Handlers
    <3> QED BY <3>2, OneSide DEF Suits
  <2> HIDE DEF r
  <2> QED BY <1>1, <1>2, <1>4, <1>7, <2>1, <2>2, <2>3, <2>4, BodyPersists
<1> QED BY <1>6, <1>7 DEF Finish

-----------------------------------------------------------------------------
(* The beginning *)

LEMMA RunBegins ==
    ASSUME TypeOK, NothingThere, NEW run \in Runs,
           NEW r, r = [kind |-> "initial", run |-> run]
    PROVE  r \in Asked /\ May(r) /\ (Grew(r) => New')
<1> DEFINE e == NextEvent(st, r)
           g == Append(log, e)
           s == Apply(st, e)
<1>1. r \in Asked /\ r.kind = "initial" /\ r.run = run
  BY DEF Asked
<1>2. May(r)
  BY <1>1 DEF May, MayWrite, NothingThere
<1>3. /\ e.type = "run.started" /\ e.to = "initializing" /\ e.run = run /\ e.reason = "none"
      /\ e.session = None
  BY <1>1 DEF NextEvent
<1>4. e \in Events /\ s \in States
  BY <1>1, <1>2, WrittenEvent DEF TypeOK, May
<1>5. g = <<e>>
  BY <1>4 DEF NothingThere
<1>6. /\ s.state = "initializing" /\ s.run = run /\ s.reason = "none" /\ ~s.server
      /\ s.session = None /\ s.seq = 1 /\ s # NoState
  <2>1. st.seq = 0 /\ st.session = None /\ ~st.server /\ NoState.state = "absent"
    BY DEF NothingThere, NoState
  <2>2. e.type \notin Observations /\ e.type # "server.validated"
    BY <1>3 DEF Observations
  <2> HIDE DEF e
  <2>3. /\ s.state = e.to /\ s.run = e.run /\ s.reason = e.reason /\ s.seq = st.seq + 1
        /\ s.session = st.session
    BY <1>3, <2>2 DEF Apply
  <2>4. ~s.server
    BY <2>1, <2>2 DEF Apply
  <2> QED BY <1>3, <2>1, <2>3, <2>4
<1> HIDE DEF e, s
<1>7. /\ g # << >> /\ DOMAIN g = {1} /\ Len(g) = 1 /\ g[1] = e
  BY <1>4, <1>5
<1> HIDE DEF g
<1>8. ValidHistory(g)
  BY <1>3, <1>7 DEF ValidHistory, EventIsValid, FirstIsValid
<1>9. PairAgrees(s, g)
  BY <1>3, <1>6, <1>7, <1>8 DEF PairAgrees, SingleRun
<1>10. \A type \in {"server.validated", "agent.started"} \cup EndTypes : Positions(g, {type}) = {}
  BY <1>3, <1>7 DEF Positions, EndTypes
<1>11. ReaderAccepts(s, g)
  <2>1. ~\E i \in DOMAIN g : g[i].type = "server.validated"
    BY <1>3, <1>7
  <2>2. s.server \in BOOLEAN
    BY <1>4 DEF States
  <2>3. s.server = (\E i \in DOMAIN g : g[i].type = "server.validated")
    BY <1>6, <2>1, <2>2
  <2>4. g[Len(g)].type = "run.started"
    BY <1>3, <1>7
  <2> QED BY <1>6, <1>9, <2>3, <2>4 DEF ReaderAccepts
<1>12. ASSUME Grew(r) PROVE New'
  <2>1. log' = g /\ st' = s
    BY <1>12 DEF Grew, g, s, e
  <2> QED BY <1>6, <1>10, <1>11, <2>1
          DEF New, Reads, Unstarted, Has, Of, SomeCompleted, SomeInterrupted, EndTypes
<1> QED BY <1>1, <1>2, <1>12

LEMMA InitialStays ==
    ASSUME IInv, RInv, TInv, NEW c \in Controllers, Initial(c)
    PROVE  TInv'
<1> DEFINE m == [mem[c] EXCEPT !.known = TRUE]
<1>1. /\ TypeOK /\ mem[c] \in Memory /\ Active(c) /\ Busy(c) /\ Kept /\ VariablesAgree(c)
      /\ pc[c] = "initial" /\ Count \in Nat
  BY OwnerFacts, CountIsNatural DEF Initial, Body
<1>2. /\ ~mem[c].known /\ mem[c].session = None /\ mem[c].meta = NoMetadata
      /\ UNCHANGED <<files, remote, signalled>> /\ (creations' = 0 => opened' = Existing)
  BY <1>1 DEF Initial, VariablesAgree, TInv, remote
<1>3. /\ m \in Memory /\ m.known /\ m.session = None /\ m.meta = NoMetadata
      /\ "other" \in Errors /\ {"enter", "handle"} \subseteq Steps
  BY <1>1, <1>2 DEF Memory, Errors, Steps, Body, Handlers
<1> HIDE DEF m
<1>4. CASE UNCHANGED pair /\ Raises(c, mem[c], "other", "handle")
  <2> DEFINE n == Noted(mem[c], "other", "handle")
  <2>1. /\ Reaches(c, n, "handle") /\ Count' = Count /\ UNCHANGED <<log, st>>
    BY <1>1, <1>3, <1>4, ErrorReach, HowItCounts DEF pair
  <2>2. n.known = mem[c].known
    BY <1>1, <1>3, NotedFields
  <2> HIDE DEF n
  <2>3. Alone(c) /\ pc'[c] = "handle" /\ ~mem'[c].known
    BY <1>2, <2>1, <2>2 DEF Reaches
  <2>4. Count = 0 => Settled
    <3>1. \A d \in Controllers : HasRun(d) => d = c
      BY <1>1, OneOwner DEF HasRun
    <3>2. ~HasRun(c)
      BY <1>2 DEF HasRun
    <3> QED BY <3>1, <3>2 DEF TInv
  <2>5. Settled' = Settled
    BY <1>2, <2>1, NothingNew
  <2>6. ~HasRun(c)'
    BY <2>3 DEF HasRun
  <2> QED BY <1>1, <1>2, <2>1, <2>3, <2>4, <2>5, <2>6, OwnerGoesOn
<1>5. ASSUME NothingThere, NEW run \in Runs,
             Durable(c, [kind |-> "initial", run |-> run], m, m, "enter", "handle")
      PROVE  TInv'
  <2> DEFINE n == Noted(m, "other", "handle")
  <2>0. PICK r : r = [kind |-> "initial", run |-> run]
    OBVIOUS
  <2>1. r \in Asked /\ May(r) /\ (Grew(r) => New')
    BY <1>1, <1>5, <2>0, RunBegins
  <2>2. Durable(c, r, m, m, "enter", "handle")
    BY <1>5, <2>0
  <2>3. \/ Grew(r) /\ Reaches(c, m, "enter") /\ Count' = Count
        \/ Count' = Count + 1 /\ (Reaches(c, n, "handle") \/ Ends(c))
    BY <1>1, <1>3, <2>1, <2>2, DurableCounts
  <2>4. n.session = None
    BY <1>3, NotedFields
  <2> HIDE DEF n
  <2>5. CASE Grew(r) /\ Reaches(c, m, "enter") /\ Count' = Count
    <3>1. Alone(c) /\ pc'[c] = "enter" /\ mem'[c] = m
      BY <2>5 DEF Reaches
    <3>2. files' = NoFiles
      BY <1>1, <1>2, <1>5 DEF Kept, NothingThere
    <3>3. New' /\ Bare(c)'
      BY <1>3, <2>1, <2>5, <3>1, <3>2 DEF Bare
    <3>4. BodyFits(c)' /\ pc'[c] \in Body
      BY <3>1, <3>3 DEF BodyFits, Body
    <3>5. Suits(c)' /\ HasRun(c)'
      BY <1>3, <3>1, <3>4, OneSide DEF Suits, HasRun, Active
    <3> QED BY <1>1, <1>2, <2>5, <3>1, <3>5, OwnerGoesOn DEF Accounted
  <2>6. CASE Count' = Count + 1 /\ (Reaches(c, n, "handle") \/ Ends(c))
    <3>1. Alone(c) /\ pc'[c] # "initial"
      BY <2>6 DEF Reaches, Ends, Vanishes
    <3>2. HasRun(c)' => pc'[c] = "handle" /\ mem'[c] = n
      BY <2>6 DEF Reaches, Ends, Vanishes, HasRun, Active
    <3>3. HasRun(c)' => Held(c)'
      BY <2>4, <3>2, HistoryAssumption DEF Held, Known, Handlers
    <3> QED BY <1>1, <1>2, <2>6, <3>1, <3>3, FirstFault
  <2> QED BY <2>3, <2>5, <2>6
<1> QED BY <1>4, <1>5 DEF Initial, m

-----------------------------------------------------------------------------
(* The handlers, and the end *)

\* An owner that has no run, or is done with it.
LEMMA WithoutRun ==
    ASSUME IInv, TInv, NEW c \in Controllers, Active(c), Alone(c),
           ~HasRun(c) \/ pc[c] = "exit", Count' \in {Count, Count + 1},
           Count = 0 => UNCHANGED <<log, st, files>>,
           creations' = 0 => opened' = Existing, pc'[c] # "initial", ~HasRun(c)'
    PROVE  TInv'
<1>1. Count \in Nat
  BY CountIsNatural DEF IInv
<1>2. \A d \in Controllers : HasRun(d) => d = c
  BY OneOwner DEF HasRun
<1>3. Count = 0 => Settled
  BY <1>2 DEF TInv
<1>4. ASSUME Count' = 0 PROVE Settled'
  <2>1. Settled /\ UNCHANGED <<log, st, files>>
    BY <1>1, <1>3, <1>4
  <2> QED BY <2>1, NothingNew
<1> QED BY <1>4, OwnerGoesOn

\* A durable step of a handler goes on at the same place whether or not it fails.
LEMMA HandlerPersists ==
    ASSUME IInv, TInv, NEW c \in Controllers, pc[c] \in Handlers, HasRun(c),
           NEW r \in Asked, NEW next \in {"block", "exit"},
           Durable(c, r, mem[c], mem[c], next, next), UNCHANGED <<files, remote, signalled>>,
           Suits(c) => May(r),
           Suits(c) /\ Grew(r) /\ Reaches(c, mem[c], next) => Suits(c)',
           Held(c) /\ Reaches(c, mem[c], next) => Held(c)'
    PROVE  TInv'
<1>1. /\ TypeOK /\ mem[c] \in Memory /\ Active(c) /\ Count \in Nat /\ mem[c].known
      /\ pc[c] # "started"
  BY CountIsNatural DEF HasRun, IInv, TypeOK, Handlers
<1>2. next \in Steps /\ next \in Handlers \cup {"exit"} /\ next # "initial"
  BY DEF Steps, Handlers
<1>3. Noted(mem[c], "other", next) = mem[c]
  BY DEF Noted
<1>4. creations' = 0 => opened' = Existing
  BY DEF TInv, remote
<1>5. /\ Count' \in {Count, Count + 1} /\ (Reaches(c, mem[c], next) \/ Ends(c))
      /\ Count' = Count => Reaches(c, mem[c], next)
      /\ May(r) => Grew(r) \/ Count' = Count + 1
  BY <1>1, <1>2, <1>3, DurableCounts, DurableReach
<1>6. CASE Count' = Count + 1
  BY <1>1, <1>2, <1>4, <1>5, <1>6, Disturbed
<1>7. CASE Count' = Count
  <2>1. Reaches(c, mem[c], next)
    BY <1>5, <1>7
  <2>2. Alone(c) /\ pc'[c] = next /\ mem'[c] = mem[c]
    BY <2>1 DEF Reaches
  <2>3. Suits(c) => Suits(c)'
    BY <1>1, <1>5, <1>7, <2>1
  <2>4. Active(c)' /\ mem'[c].known
    BY <1>1, <2>2 DEF Active
  <2> QED BY <1>2, <1>4, <1>7, <2>1, <2>2, <2>3, <2>4, GoesOn
<1> QED BY <1>5, <1>6, <1>7

LEMMA KnownStays ==
    ASSUME NEW c, NEW n, mem'[c] = n, n.session = mem[c].session, n.started = mem[c].started,
           n.error = mem[c].error, pc'[c] \in Handlers \cup {"exit"}, Known(c)
    PROVE  Held(c)'
<1>1. Known(c)'
  BY DEF Known
<1> QED BY <1>1 DEF Held

\* The stages that handlers find stay while nothing they speak of changes.
LEMMA StageStays ==
    ASSUME NEW c, UNCHANGED <<log, st, files>>,
           mem'[c].session = mem[c].session, mem'[c].started = mem[c].started,
           mem'[c].meta = mem[c].meta, mem'[c].evidence = mem[c].evidence
    PROVE  (Unbegun(c) => Unbegun(c)') /\ (Unended(c) => Unended(c)')
<1>1. /\ Validated' = Validated /\ \A s : Begun(s)' = Begun(s)
      /\ \A meta, prompt, result, transcript :
            Filled(meta, prompt, result, transcript)' = Filled(meta, prompt, result, transcript)
  BY NothingNew
<1>2. Unbegun(c) => Unbegun(c)'
  BY <1>1 DEF Unbegun, Prepared
<1>3. Unended(c) => Unended(c)'
  BY <1>1 DEF Unended, InProgress
<1> QED BY <1>2, <1>3

\* The handlers find the invocation at one of three stages.
LEMMA HandleStays ==
    ASSUME IInv, RInv, TInv, NEW c \in Controllers, Handle(c)
    PROVE  TInv'
<1>0. PICK closing, exit, next :
         /\ closing = ClosingStatus(c) /\ exit = (IF Cancelled(c) THEN "signal" ELSE "error")
         /\ next = Cleanup(mem[c])
  OBVIOUS
<1> DEFINE m == [mem[c] EXCEPT !.closing = closing, !.exit = exit]
<1>1. /\ TypeOK /\ mem[c] \in Memory /\ pc[c] = "handle" /\ Active(c) /\ Busy(c)
      /\ VariablesAgree(c) /\ Count \in Nat
  BY OwnerFacts, CountIsNatural DEF Handle, Handlers
<1>2. /\ closing \in {"timed_out", "interrupted", "failed"} /\ exit \in Exits
      /\ next \in {"exit", "abort", "close", "block"}
  BY <1>0 DEF ClosingStatus, Exits, Cleanup
<1>3. /\ Returns(c, m, next) /\ UNCHANGED <<log, st, files, remote, signalled>>
      /\ UNCHANGED <<faults, crashes>>
  BY <1>0 DEF Handle, pair, Returns
<1>4. /\ m \in Memory /\ m.known = mem[c].known /\ m.session = mem[c].session
      /\ m.started = mem[c].started /\ m.pending = mem[c].pending
      /\ m.completed = mem[c].completed /\ m.evidence = mem[c].evidence /\ m.meta = mem[c].meta
      /\ m.error = mem[c].error /\ m.closing = closing
  BY <1>1, <1>2 DEF Memory, Final, Results
<1> HIDE DEF m
<1>5. next \in Steps /\ next \in Handlers \cup {"exit"}
  BY <1>2 DEF Steps, Handlers
<1>6. Alone(c) /\ pc'[c] = next /\ mem'[c] = m
  BY <1>1, <1>3, <1>4, <1>5, ReturnsReach DEF Reaches
<1>7. /\ creations' = 0 => opened' = Existing
      /\ Count' = Count
  BY <1>3 DEF TInv, remote, Count
<1>8. {mem[c].known, mem[c].pending, mem[c].completed, mem[c].started} \subseteq BOOLEAN
  BY <1>1 DEF Memory
<1>9. CASE ~mem[c].known
  <2>1. ~HasRun(c) /\ ~HasRun(c)' /\ pc'[c] # "initial"
    BY <1>2, <1>4, <1>6, <1>9 DEF HasRun
  <2> QED BY <1>1, <1>3, <1>6, <1>7, <2>1, WithoutRun
<1>10. CASE mem[c].known
  <2>1. HasRun(c) /\ Active(c)' /\ mem'[c].known /\ pc'[c] # "initial"
    BY <1>1, <1>2, <1>4, <1>6, <1>10 DEF HasRun, Active
  <2>2. ASSUME Suits(c) PROVE Suits(c)'
    <3>1. /\ mem[c].session = None \/ mem[c].started
          /\ \/ /\ Unbegun(c) /\ ~mem[c].pending /\ ~mem[c].completed
                /\ mem[c].error = "signal"
             \/ /\ Unended(c) /\ ~mem[c].pending /\ ~mem[c].completed
                /\ mem[c].error \in {"signal", "timed_out", "other"}
             \/ Blockable /\ ~mem[c].pending /\ mem[c].completed /\ mem[c].error = "other"
      BY <1>1, <2>2 DEF Suits, HandlersFit, Handlers
    <3>2. /\ m.session = None \/ m.started
          /\ pc'[c] # "handle" /\ pc'[c] # "fallback" /\ pc'[c] # "interrupted"
      BY <1>2, <1>4, <1>6, <3>1
    <3>3. CASE /\ Unbegun(c) /\ ~mem[c].pending /\ ~mem[c].completed
               /\ mem[c].error = "signal"
      <4>1. /\ mem[c].session = None /\ ~mem[c].started /\ mem[c].meta.status = "planned"
        BY <3>3 DEF Unbegun, Prepared, Planned, NoMetadata
      <4>2. next = "close"
        BY <1>0, <1>10, <3>3, <4>1 DEF Cleanup, EvidenceInstalled
      <4>3. closing = "interrupted"
        BY <1>0, <3>3, <4>1 DEF ClosingStatus, Cancelled
      <4>4. Unbegun(c)'
        BY <1>3, <1>4, <1>6, <3>3, StageStays
      <4>5. HandlersFit(c)'
        BY <1>4, <1>6, <3>2, <4>2, <4>3, <4>4 DEF HandlersFit
      <4> QED BY <1>5, <1>6, <4>5, OneSide DEF Suits
    <3>4. CASE /\ Unended(c) /\ ~mem[c].pending /\ ~mem[c].completed
               /\ mem[c].error \in {"signal", "timed_out", "other"}
      <4>1. mem[c].started
        BY <3>4 DEF Unended, InProgress
      <4>2. mem[c].session # None
        BY <1>1, <4>1, HistoryAssumption DEF Busy
      <4>3. next = "abort"
        BY <1>0, <1>10, <3>4, <4>2 DEF Cleanup, EvidenceInstalled
      <4>4. closing \in {"interrupted", "timed_out"}
        BY <1>0, <3>4, <4>1 DEF ClosingStatus
      <4>5. Unended(c)'
        BY <1>3, <1>4, <1>6, <3>4, StageStays
      <4>6. HandlersFit(c)'
        BY <1>4, <1>6, <3>2, <4>3, <4>4, <4>5 DEF HandlersFit
      <4> QED BY <1>5, <1>6, <4>6, OneSide DEF Suits
    <3>5. CASE Blockable /\ ~mem[c].pending /\ mem[c].completed /\ mem[c].error = "other"
      <4>1. next = "block"
        BY <1>0, <1>10, <3>5 DEF Cleanup, EvidenceInstalled
      <4>2. Blockable'
        BY <1>3, <3>5, NothingNew
      <4>3. HandlersFit(c)'
        BY <1>4, <1>6, <3>2, <4>1, <4>2 DEF HandlersFit
      <4> QED BY <1>5, <1>6, <4>3, OneSide DEF Suits
    <3> QED BY <3>1, <3>3, <3>4, <3>5
  <2>3. ASSUME Held(c) PROVE Held(c)'
    <3>1. CASE Known(c)
      BY <1>4, <1>5, <1>6, <3>1, KnownStays
    <3>2. CASE ~Known(c) /\ Named(c)
      <4>1. /\ ~mem[c].pending /\ ~mem[c].completed /\ mem[c].error # "installed"
            /\ files.linked = {} /\ mem[c].meta = OpenMetadata("session_created", mem[c].session)
        BY <1>1, <3>2 DEF Named
      <4>2. mem[c].session # None
        BY <3>2, HistoryAssumption DEF Known
      <4>3. next = "abort"
        BY <1>0, <1>10, <4>1, <4>2 DEF Cleanup, EvidenceInstalled
      <4>4. Named(c)'
        BY <1>2, <1>3, <1>4, <1>6, <4>1, <4>3 DEF Named
      <4> QED BY <1>5, <1>6, <4>4 DEF Held
    <3> QED BY <2>3, <3>1, <3>2 DEF Held
  <2> QED BY <1>6, <1>7, <2>1, <2>2, <2>3, GoesOn
<1> QED BY <1>9, <1>10

LEMMA AbortStays ==
    ASSUME IInv, RInv, TInv, NEW c \in Controllers, Abort(c)
    PROVE  TInv'
<1>1. /\ pc[c] = "abort" /\ pc[c] \in Closing
  BY DEF Abort, Closing
<1>2. TypeOK /\ mem[c] \in Memory /\ Active(c) /\ mem[c].known
  BY <1>1, ClosingIsOpen
<1>3. /\ Returns(c, mem[c], "close") /\ UNCHANGED <<log, st, files, faults, crashes>>
      /\ UNCHANGED <<creations, opened>> /\ "close" \in Steps /\ "close" \in Handlers
  BY DEF Abort, pair, Returns, Steps, Handlers
<1>4. Alone(c) /\ pc'[c] = "close" /\ mem'[c] = mem[c]
  BY <1>2, <1>3, ReturnsReach DEF Reaches
<1>5. /\ Count' = Count /\ (creations' = 0 => opened' = Existing)
      /\ HasRun(c) /\ Active(c)' /\ mem'[c].known /\ pc'[c] # "initial"
  BY <1>2, <1>3, <1>4 DEF TInv, Count, HasRun, Active
<1>6. ASSUME Suits(c) PROVE Suits(c)'
  <2>1. /\ Unended(c) /\ mem[c].closing \in {"interrupted", "timed_out"}
        /\ mem[c].session = None \/ mem[c].started
    BY <1>1, <1>6 DEF Suits, HandlersFit, Handlers
  <2>2. Unended(c)'
    BY <1>3, <1>4, <2>1, StageStays
  <2>3. HandlersFit(c)'
    BY <1>4, <2>1, <2>2 DEF HandlersFit
  <2> QED BY <1>3, <1>4, <2>3, OneSide DEF Suits
<1>7. ASSUME Held(c) PROVE Held(c)'
  <2>1. CASE Known(c)
    BY <1>3, <1>4, <2>1, KnownStays
  <2>2. CASE Named(c)
    BY <1>1, <1>3, <1>4, <2>2 DEF Named, Held
  <2> QED BY <1>7, <2>1, <2>2 DEF Held
<1> QED BY <1>4, <1>5, <1>6, <1>7, GoesOn

\* The metadata is closed as the handlers found the invocation.
LEMMA ClosedMetadata ==
    ASSUME NEW c \in Controllers, mem[c] \in Memory, NEW s, s = mem[c].session,
           NEW v, v = Closed(mem[c].meta, mem[c].closing,
                             IF mem[c].started /\ mem[c].evidence THEN "kept" ELSE "unavailable")
    PROVE  /\ mem[c].meta = Planned /\ ~mem[c].started /\ mem[c].closing = "interrupted" =>
                  v = StoppedMetadata(Planned, "interrupted", FALSE)
           /\ mem[c].meta = OpenMetadata("running", s) /\ mem[c].started =>
                  v = StoppedMetadata(OpenMetadata("running", s), mem[c].closing, mem[c].evidence)
           /\ mem[c].meta = OpenMetadata("session_created", s) /\ s \in Sessions
              /\ mem[c].closing \in {"interrupted", "timed_out", "failed"} =>
                  LifecycleValid(v) /\ v.session = s
<1>1. {mem[c].started, mem[c].evidence} \subseteq BOOLEAN
  BY DEF Memory
<1>2. ASSUME mem[c].meta = Planned, ~mem[c].started, mem[c].closing = "interrupted"
      PROVE  v = StoppedMetadata(Planned, "interrupted", FALSE)
  BY <1>2 DEF StoppedMetadata
<1>3. ASSUME mem[c].meta = OpenMetadata("running", s), mem[c].started
      PROVE  v = StoppedMetadata(OpenMetadata("running", s), mem[c].closing, mem[c].evidence)
  BY <1>3 DEF StoppedMetadata
<1>4. ASSUME mem[c].meta = OpenMetadata("session_created", s), s \in Sessions,
             mem[c].closing \in {"interrupted", "timed_out", "failed"}
      PROVE  LifecycleValid(v) /\ v.session = s
  <2>1. PICK kept \in BOOLEAN :
           v = StoppedMetadata(OpenMetadata("session_created", s), mem[c].closing, kept)
    <3>1. CASE mem[c].started /\ mem[c].evidence
      BY <1>4, <3>1 DEF StoppedMetadata
    <3>2. CASE ~(mem[c].started /\ mem[c].evidence)
      BY <1>4, <3>2 DEF StoppedMetadata
    <3> QED BY <3>1, <3>2
  <2> QED BY <1>4, <2>1, StartedMetadata
<1> QED BY <1>2, <1>3, <1>4

LEMMA CloseStays ==
    ASSUME IInv, RInv, TInv, NEW c \in Controllers, CloseMetadata(c)
    PROVE  TInv'
<1>0. PICK s, v, next, closing, evidence :
         /\ s = mem[c].session /\ closing = mem[c].closing /\ evidence = mem[c].evidence
         /\ v = Closed(mem[c].meta, mem[c].closing,
                       IF mem[c].started /\ mem[c].evidence THEN "kept" ELSE "unavailable")
         /\ next = (IF mem[c].started THEN "interrupted" ELSE "block")
  OBVIOUS
<1>1. /\ pc[c] = "close" /\ pc[c] \in Closing
  BY DEF CloseMetadata, Closing
<1>2. TypeOK /\ mem[c] \in Memory /\ Active(c) /\ mem[c].known /\ Count \in Nat
      /\ VariablesAgree(c) /\ HasRun(c) /\ evidence \in BOOLEAN
  BY <1>0, <1>1, ClosingIsOpen, CountIsNatural DEF HasRun, Memory
<1>3. /\ WriteFile(c, "metadata", v, mem[c], mem[c], next, "block")
      /\ UNCHANGED <<pair, remote, signalled>>
  BY <1>0 DEF CloseMetadata
<1>4. /\ next \in {"interrupted", "block"} /\ {next, "block"} \subseteq Steps
      /\ {next, "block"} \subseteq Handlers \cup {"exit"} /\ {"other", "installed"} \subseteq Errors
  BY <1>0 DEF Steps, Handlers, Errors
<1>5. v \in Metadata /\ Fits("metadata", v)
  <2>1. v \in Metadata
    BY <1>0, <1>2 DEF Closed, Memory, Metadata
  <2> QED BY <2>1 DEF Fits
<1>6. \A error : Noted(mem[c], error, "block") = mem[c]
  BY DEF Noted
<1>7. /\ Count' \in {Count, Count + 1}
      /\ Reaches(c, mem[c], next) \/ Reaches(c, mem[c], "block") \/ Ends(c)
      /\ Count' = Count => Reaches(c, mem[c], next) \/ Reaches(c, mem[c], "block")
      /\ MayInstall(files, "metadata", v) /\ Count' = Count =>
            files' = Put(files, "metadata", v) /\ Reaches(c, mem[c], next)
  BY <1>2, <1>3, <1>4, <1>5, <1>6, WriteCounts, WriteReach
<1>8. UNCHANGED <<log, st>> /\ (creations' = 0 => opened' = Existing)
  BY <1>3 DEF TInv, pair, remote
<1>9. CASE Count' = Count + 1
  <2>1. pc[c] # "started"
    BY <1>1
  <2> QED BY <1>2, <1>4, <1>7, <1>8, <1>9, <2>1, Disturbed
<1>10. CASE Count' = Count
  <2>1. /\ Alone(c) /\ mem'[c] = mem[c] /\ pc'[c] \in {next, "block"}
        /\ MayInstall(files, "metadata", v) =>
              files' = Put(files, "metadata", v) /\ pc'[c] = next
    BY <1>7, <1>10 DEF Reaches
  <2>2. Active(c)' /\ mem'[c].known /\ pc'[c] # "initial"
    BY <1>2, <1>4, <2>1 DEF Active
  <2>3. files' = Put(files, "metadata", v) =>
           /\ files'.dir /\ files'.metadata = v /\ files'.prompt = files.prompt
           /\ files'.result = files.result /\ files'.transcript = files.transcript
           /\ files'.linked = files.linked /\ files'.stray = files.stray
    <3> SUFFICES ASSUME files' = Put(files, "metadata", v)
                 PROVE  /\ files'.dir /\ files'.metadata = v /\ files'.prompt = files.prompt
                        /\ files'.result = files.result /\ files'.transcript = files.transcript
                        /\ files'.linked = files.linked /\ files'.stray = files.stray
      OBVIOUS
    <3>1. /\ files'.dir /\ files'.linked = files.linked /\ files'.stray = files.stray
          /\ files'["metadata"] = v
          /\ \A b \in Artifacts \ {"metadata"} : files'[b] = files[b]
      BY <1>2, <1>5, PutFields
    <3> QED BY <3>1 DEF Artifacts, Immutable
  <2>4. ASSUME Suits(c) PROVE Suits(c)'
    <3>1. /\ mem[c].session = None \/ mem[c].started
          /\ \/ Unbegun(c) /\ closing = "interrupted"
             \/ Unended(c)
          /\ closing \in {"interrupted", "timed_out"}
      BY <1>0, <1>1, <2>4 DEF Suits, HandlersFit, Handlers
    <3>2. CASE Unbegun(c) /\ closing = "interrupted"
      <4>1. /\ Validated /\ ~mem[c].started /\ mem[c].meta = Planned
            /\ files.prompt = TRUE /\ files.result = "none" /\ files.transcript = FALSE
            /\ files.linked = {} /\ ~files.stray
        BY <3>2 DEF Unbegun, Prepared, Filled
      <4>2. v = StoppedMetadata(Planned, "interrupted", FALSE) /\ next = "block"
        BY <1>0, <1>2, <3>2, <4>1, ClosedMetadata
      <4>3. MayInstall(files, "metadata", v)
        BY <4>1, <4>2, PlannedMetadata DEF MayInstall
      <4>4. /\ files'.dir /\ files'.metadata = v /\ files'.prompt /\ files'.result = "none"
            /\ files'.transcript = FALSE /\ files'.linked = {} /\ ~files'.stray
        BY <2>1, <2>3, <4>1, <4>3
      <4>5. /\ ReaderAccepts(st', log') /\ st'.session = None /\ st'.reason = "none"
            /\ \A type \in {"agent.started"} \cup EndTypes : Positions(log', {type}) = {}
        BY <1>8, <4>1
           DEF Validated, Reads, Unstarted, Has, Of, SomeCompleted, SomeInterrupted, EndTypes
      <4>6. RecordsAccepted(files', st', log')
        BY <4>2, <4>4, <4>5, StoppedRecords
      <4>7. Closable'
        <5>1. Closable
          BY <4>1 DEF Validated, Unstarted, Closable
        <5> QED BY <1>8, <5>1, NothingNew
      <4>8. log' # << >>
        BY <4>5 DEF ReaderAccepts, PairAgrees, ValidHistory
      <4>9. Blockable'
        BY <4>4, <4>5, <4>6, <4>7, <4>8 DEF Blockable, Accepted
      <4>10. HandlersFit(c)' /\ pc'[c] \in Handlers \cup {"exit"}
        BY <2>1, <3>1, <4>2, <4>9 DEF HandlersFit, Handlers
      <4> QED BY <4>10, OneSide DEF Suits
    <3>3. CASE Unended(c)
      <4>1. /\ mem[c].started /\ Begun(s) /\ mem[c].meta = OpenMetadata("running", s)
            /\ files.prompt = TRUE /\ files.result = "none" /\ files.transcript = evidence
            /\ files.linked = {} /\ ~files.stray
        BY <1>0, <3>3, ProgressFields DEF Unended
      <4>2. s \in Sessions
        BY <1>0, <1>2, <4>1 DEF IInv, Local, Busy
      <4>3. v = StoppedMetadata(OpenMetadata("running", s), closing, evidence)
            /\ next = "interrupted"
        <5>1. v = StoppedMetadata(OpenMetadata("running", s), mem[c].closing, mem[c].evidence)
          BY <1>0, <1>2, <4>1, ClosedMetadata
        <5>2. next = "interrupted"
          BY <1>0, <4>1
        <5> QED BY <1>0, <5>1, <5>2 DEF StoppedMetadata
      <4>4. LifecycleValid(v)
        BY <1>2, <3>1, <4>2, <4>3, StartedMetadata
      <4>5. MayInstall(files, "metadata", v)
        BY <4>1, <4>4 DEF MayInstall
      <4>6. /\ files'.dir /\ files'.metadata = v /\ files'.prompt = TRUE
            /\ files'.result = "none" /\ files'.transcript = evidence
            /\ files'.linked = {} /\ ~files'.stray /\ pc'[c] = "interrupted"
        BY <2>1, <2>3, <4>1, <4>3, <4>5
      <4>7. Begun(s)' /\ mem'[c].session = s /\ mem'[c].started /\ mem'[c].evidence = evidence
        BY <1>0, <1>8, <2>1, <4>1, NothingNew
      <4>8. Filled(StoppedMetadata(OpenMetadata("running", s), closing, evidence),
                   TRUE, "none", evidence)'
        BY <4>3, <4>6 DEF Filled
      <4>9. HandlersFit(c)' /\ pc'[c] \in Handlers \cup {"exit"}
        BY <3>1, <4>6, <4>7, <4>8 DEF HandlersFit, Handlers, Begun
      <4> QED BY <4>9, OneSide DEF Suits
    <3> QED BY <3>1, <3>2, <3>3
  <2>5. ASSUME Held(c) PROVE Held(c)'
    <3>1. CASE Known(c)
      BY <1>4, <2>1, <3>1, KnownStays
    <3>2. CASE ~Known(c) /\ Named(c)
      <4>1. /\ files.linked = {} /\ mem[c].meta = OpenMetadata("session_created", s)
            /\ closing \in {"interrupted", "timed_out", "failed"}
            /\ s \in Sessions /\ ~mem[c].started
        BY <1>0, <1>1, <3>2 DEF Named, Known
      <4>2. LifecycleValid(v) /\ v.session = s
        BY <1>0, <1>2, <4>1, ClosedMetadata
      <4>3. MayInstall(files, "metadata", v)
        BY <4>1, <4>2 DEF MayInstall
      <4>4. pc'[c] = "block" /\ files'.metadata.session = mem'[c].session
        BY <1>0, <2>1, <2>3, <4>1, <4>2, <4>3
      <4> QED BY <4>4 DEF Held, Named, Handlers
    <3> QED BY <2>5, <3>1, <3>2 DEF Held
  <2> QED BY <1>2, <1>8, <1>10, <2>1, <2>2, <2>4, <2>5, GoesOn
<1> QED BY <1>7, <1>9, <1>10

LEMMA InterruptedStays ==
    ASSUME IInv, RInv, TInv, NEW c \in Controllers, Interrupted(c)
    PROVE  TInv'
<1>0. PICK s, evidence : s = mem[c].session /\ evidence = mem[c].evidence
  OBVIOUS
<1> DEFINE r == Observation("agent.interrupted", s)
<1>1. /\ pc[c] = "interrupted" /\ pc[c] \in Closing /\ pc[c] \in Handlers
  BY DEF Interrupted, Closing, Handlers
<1>2. TypeOK /\ mem[c] \in Memory /\ HasRun(c) /\ Busy(c) /\ evidence \in BOOLEAN
      /\ HandlersKeep(c)
  BY <1>0, <1>1, ClosingIsOpen DEF HasRun, Memory
<1>3. s \in Sessions
  BY <1>0, <1>1, <1>2 DEF HandlersKeep, Busy
<1>4. "agent.interrupted" \in EndTypes /\ r \in Asked
  BY <1>3 DEF EndTypes, Asked, Observation, Observations
<1>5. Durable(c, r, mem[c], mem[c], "block", "block") /\ UNCHANGED <<files, remote, signalled>>
  BY <1>0 DEF Interrupted
<1>6. ASSUME Suits(c)
      PROVE  /\ Begun(s) /\ mem[c].started
             /\ \E status \in {"interrupted", "timed_out"} :
                   Filled(StoppedMetadata(OpenMetadata("running", s), status, evidence),
                          TRUE, "none", evidence)
  BY <1>0, <1>1, <1>6 DEF Suits, HandlersFit
<1>7. ASSUME Suits(c) PROVE May(r)
  BY <1>2, <1>3, <1>4, <1>6, <1>7, AgentEnds
<1>8. ASSUME Suits(c), Grew(r), Reaches(c, mem[c], "block") PROVE Suits(c)'
  <2>1. Closable' /\ StartedWith(s)' /\ ~SomeCompleted'
    BY <1>2, <1>3, <1>4, <1>6, <1>8, AgentEnds
  <2>2. PICK status \in {"interrupted", "timed_out"} :
           Filled(StoppedMetadata(OpenMetadata("running", s), status, evidence),
                  TRUE, "none", evidence)
    BY <1>6, <1>8
  <2> DEFINE m == StoppedMetadata(OpenMetadata("running", s), status, evidence)
  <2>3. /\ LifecycleValid(m) /\ m.session = s /\ m.status = status /\ m.result = "none"
        /\ m.transcript = IF evidence THEN "kept" ELSE "unavailable"
    BY <1>2, <1>3, StartedMetadata
  <2>4. /\ files.dir /\ files.metadata = m /\ files.prompt = TRUE /\ files.result = "none"
        /\ files.transcript = evidence /\ files.linked = {} /\ ~files.stray
    BY <2>2 DEF Filled
  <2> HIDE DEF m
  <2>5. m.status \in Final /\ evidence = (m.transcript = "kept")
    BY <1>2, <2>3 DEF Final
  <2>6. /\ files'.dir /\ files'.metadata = m /\ files'.prompt = TRUE /\ files'.result = m.result
        /\ files'.transcript = (m.transcript = "kept") /\ files'.linked = {} /\ ~files'.stray
    BY <1>5, <2>3, <2>4, <2>5
  <2>7. SomeInterrupted' => m.status \in {"timed_out", "interrupted"}
    BY <2>3
  <2>8. Blockable'
    BY <1>3, <2>1, <2>3, <2>5, <2>6, <2>7, EndedIsBlockable
  <2>9. pc'[c] = "block" /\ mem'[c] = mem[c]
    BY <1>8 DEF Reaches
  <2>10. HandlersFit(c)' /\ pc'[c] \in Handlers \cup {"exit"}
    BY <1>6, <1>8, <2>8, <2>9 DEF HandlersFit, Handlers
  <2> QED BY <2>10, OneSide DEF Suits
<1>9. ASSUME Held(c), Reaches(c, mem[c], "block") PROVE Held(c)'
  <2>1. Known(c) /\ mem'[c] = mem[c] /\ pc'[c] \in Handlers \cup {"exit"}
    BY <1>1, <1>9 DEF Held, Named, Reaches, Handlers
  <2> QED BY <2>1, KnownStays
<1> HIDE DEF r
<1> QED BY <1>1, <1>2, <1>4, <1>5, <1>7, <1>8, <1>9, HandlerPersists

\* What a handler leaves alone it leaves as the body left it.
LEMMA HandlerSkips ==
    ASSUME IInv, TInv, NEW c \in Controllers, pc[c] \in {"block", "fallback"}, HasRun(c),
           Returns(c, mem[c], "exit"), UNCHANGED <<log, st, files, remote>>, ~Suits(c)
    PROVE  TInv'
<1>1. TypeOK /\ mem[c] \in Memory /\ Active(c) /\ mem[c].known /\ "exit" \in Steps
  BY DEF HasRun, IInv, TypeOK, Steps
<1>2. Alone(c) /\ pc'[c] = "exit" /\ mem'[c] = mem[c]
  BY <1>1, ReturnsReach DEF Reaches
<1>3. Count' = Count /\ (creations' = 0 => opened' = Existing)
  BY DEF Returns, Count, TInv, remote
<1>4. ASSUME Held(c) PROVE Held(c)'
  <2>1. CASE Known(c)
    BY <1>2, <2>1, KnownStays
  <2>2. CASE Named(c)
    BY <1>2, <2>2 DEF Named, Held
  <2> QED BY <1>4, <2>1, <2>2 DEF Held
<1>5. Active(c)' /\ mem'[c].known /\ pc'[c] # "initial"
  BY <1>1, <1>2 DEF Active
<1> QED BY <1>2, <1>3, <1>4, <1>5, GoesOn

LEMMA BlockStays ==
    ASSUME IInv, RInv, TInv, NEW c \in Controllers, Block(c)
    PROVE  TInv'
<1> DEFINE r == Transition("blocked", "other")
<1>1. pc[c] = "block" /\ pc[c] \in Handlers
  BY DEF Block, Handlers
<1>2. TypeOK /\ mem[c] \in Memory /\ HasRun(c)
  BY <1>1, OwnerFacts DEF VariablesAgree, HasRun
<1>3. UNCHANGED <<files, remote, signalled>>
  BY DEF Block
<1>4. ASSUME Suits(c)
      PROVE  Blockable /\ (mem[c].session = None \/ mem[c].started)
  BY <1>1, <1>4 DEF Suits, HandlersFit
<1>5. CASE Accepted /\ st.state = "validating"
  <2>1. Durable(c, r, mem[c], mem[c], "exit", "exit")
    BY <1>5 DEF Block
  <2>2. "other" \in {"other", Placeholder} /\ "other" # Placeholder /\ r \in Asked
    BY DEF Asked, Transition, Reasons, Placeholder
  <2>3. ASSUME Suits(c) PROVE May(r) /\ (Grew(r) /\ UNCHANGED files => Settled')
    BY <1>2, <1>4, <2>2, <2>3, BlockedAccepts
  <2> HIDE DEF r
  <2>4. ASSUME Suits(c), Grew(r), Reaches(c, mem[c], "exit") PROVE Suits(c)'
    <3>1. Settled' /\ pc'[c] = "exit" /\ mem'[c] = mem[c]
      BY <1>3, <2>3, <2>4 DEF Reaches
    <3>2. HandlersFit(c)' /\ pc'[c] \in Handlers \cup {"exit"}
      BY <1>4, <2>4, <3>1 DEF HandlersFit, Handlers
    <3> QED BY <3>2, OneSide DEF Suits
  <2>5. ASSUME Held(c), Reaches(c, mem[c], "exit") PROVE Held(c)'
    <3>1. pc'[c] = "exit" /\ mem'[c] = mem[c] /\ files' = files
      BY <1>3, <2>5 DEF Reaches
    <3>2. CASE Known(c)
      BY <3>1, <3>2, KnownStays
    <3>3. CASE Named(c)
      BY <1>1, <3>1, <3>3 DEF Named, Held
    <3> QED BY <2>5, <3>2, <3>3 DEF Held
  <2> QED BY <1>1, <1>2, <1>3, <2>1, <2>2, <2>3, <2>4, <2>5, HandlerPersists
<1>6. CASE ~(Accepted /\ st.state = "validating")
  <2>1. Returns(c, mem[c], "exit") /\ UNCHANGED <<log, st, files, remote>>
    BY <1>6 DEF Block, pair
  <2>2. ~Suits(c)
    BY <1>4, <1>6 DEF Blockable, Closable, Reads
  <2> QED BY <1>1, <1>2, <2>1, <2>2, HandlerSkips
<1> QED BY <1>5, <1>6

LEMMA FallbackStays ==
    ASSUME IInv, RInv, TInv, NEW c \in Controllers, Fallback(c)
    PROVE  TInv'
<1> DEFINE r == Transition("failed", "other")
<1>1. pc[c] = "fallback" /\ pc[c] \in Handlers
  BY DEF Fallback, Handlers
<1>2. TypeOK /\ mem[c] \in Memory /\ Active(c) /\ "exit" \in Steps
  BY <1>1, OwnerFacts DEF Steps
<1>3. UNCHANGED <<files, remote, signalled>> /\ (creations' = 0 => opened' = Existing)
  BY DEF Fallback, TInv, remote
<1>4. ~Suits(c)
  BY <1>1 DEF Suits, HandlersFit
<1>5. r \in Asked
  BY DEF Asked, Transition, Reasons
<1>6. Noted(mem[c], "other", "exit") = mem[c]
  BY DEF Noted
<1>7. \/ /\ Accepted /\ st.state \in {"initializing", "validating"}
         /\ Durable(c, r, mem[c], mem[c], "exit", "exit")
      \/ UNCHANGED <<log, st>> /\ Returns(c, mem[c], "exit")
  BY DEF Fallback, pair
<1> HIDE DEF r
<1>8. CASE ~mem[c].known
  <2>1. ~HasRun(c) /\ \A d \in Controllers : HasRun(d) => d = c
    BY <1>2, <1>8, OneOwner DEF HasRun
  <2>2. Count = 0 => UNCHANGED <<log, st, files>>
    <3>1. Count = 0 => Settled
      BY <2>1 DEF TInv
    <3>2. Settled /\ Accepted => st.state \notin {"initializing", "validating"}
      BY DEF Settled, NothingThere, Accepted
    <3> QED BY <1>3, <1>7, <3>1, <3>2
  <2>3. Count' \in {Count, Count + 1} /\ (Reaches(c, mem[c], "exit") \/ Ends(c))
    <3>1. CASE Durable(c, r, mem[c], mem[c], "exit", "exit")
      BY <1>2, <1>5, <1>6, <3>1, DurableCounts, DurableReach
    <3>2. CASE Returns(c, mem[c], "exit")
      BY <1>2, <3>2, ReturnsReach, HowItCounts
    <3> QED BY <1>7, <3>1, <3>2
  <2>4. Alone(c) /\ pc'[c] # "initial" /\ ~HasRun(c)'
    BY <1>8, <2>3 DEF Reaches, Ends, Vanishes, HasRun, Active
  <2> QED BY <1>2, <1>3, <2>1, <2>2, <2>3, <2>4, WithoutRun
<1>9. CASE mem[c].known
  <2>1. HasRun(c)
    BY <1>2, <1>9 DEF HasRun
  <2>2. ASSUME Held(c), Reaches(c, mem[c], "exit") PROVE Held(c)'
    <3>1. Known(c) /\ mem'[c] = mem[c] /\ pc'[c] \in Handlers \cup {"exit"}
      BY <1>1, <2>2 DEF Held, Named, Reaches
    <3> QED BY <3>1, KnownStays
  <2>3. CASE Durable(c, r, mem[c], mem[c], "exit", "exit")
    BY <1>1, <1>3, <1>4, <1>5, <2>1, <2>2, <2>3, HandlerPersists
  <2>4. CASE UNCHANGED <<log, st>> /\ Returns(c, mem[c], "exit")
    BY <1>1, <1>3, <1>4, <2>1, <2>4, HandlerSkips
  <2> QED BY <1>7, <2>3, <2>4
<1> QED BY <1>8, <1>9

LEMMA ExitStays ==
    ASSUME IInv, RInv, TInv, NEW c \in Controllers, Exit(c)
    PROVE  TInv'
<1> DEFINE m == [NoMemory EXCEPT !.exit = mem[c].exit]
<1>1. TypeOK /\ mem[c] \in Memory /\ pc[c] = "exit" /\ Active(c)
  BY OwnerFacts DEF Exit
<1>2. m \in Memory
  <2>1. mem[c].exit \in Exits
    BY <1>1 DEF Memory
  <2> QED BY <1>1, <2>1, MemoryTypes
<1>3. /\ Continue(c, m, "done") /\ worker' = [worker EXCEPT ![c] = Idle]
      /\ UNCHANGED <<log, st, files, remote, faults, crashes>> /\ "done" \in Steps
  BY DEF Exit, Steps, pair, budget
<1> HIDE DEF m
<1>4. pc'[c] = "done" /\ \A d \in Controllers \ {c} : pc'[d] = pc[d] /\ mem'[d] = mem[d]
  BY <1>1, <1>2, <1>3, ContinueEffect
<1>5. Alone(c) /\ ~HasRun(c)' /\ pc'[c] # "initial"
  BY <1>1, <1>3, <1>4 DEF TypeOK, Alone, HasRun, Active
<1>6. Count' = Count /\ (creations' = 0 => opened' = Existing)
  BY <1>3 DEF TInv, remote, Count
<1> QED BY <1>1, <1>3, <1>5, <1>6, WithoutRun

LEMMA UnexpectedStays ==
    ASSUME IInv, RInv, TInv, NEW c \in Controllers, Unexpected(c)
    PROVE  TInv'
<1> DEFINE m == [mem[c] EXCEPT !.error = "unexpected", !.exit = "error"]
           next == IF pc[c] \in Body THEN "fallback" ELSE "exit"
<1>1. /\ TypeOK /\ mem[c] \in Memory /\ Active(c)
  BY OwnerFacts DEF Unexpected
<1>2. /\ m \in Memory /\ m.known = mem[c].known /\ m.session = mem[c].session
      /\ m.started = mem[c].started /\ m.error = "unexpected"
  BY <1>1 DEF Memory, Errors, Exits
<1>3. /\ Continue(c, m, next) /\ UNCHANGED <<log, st, files, remote, worker>>
      /\ faults' = faults + 1 /\ crashes' = crashes
      /\ next \in Steps /\ next \in Handlers \cup {"exit"} /\ next # "initial"
  BY DEF Unexpected, pair, Steps, Handlers
<1> HIDE DEF m, next
<1>4. Reaches(c, m, next)
  BY <1>1, <1>2, <1>3, ContinueEffect DEF Reaches, Alone
<1>5. Count' = Count + 1 /\ (creations' = 0 => opened' = Existing)
  BY <1>1, <1>3, CountIsNatural DEF Count, TInv, remote
<1>6. CASE HasRun(c)
  BY <1>2, <1>3, <1>4, <1>5, <1>6, Disturbed
<1>7. CASE ~HasRun(c)
  <2>1. Alone(c) /\ pc'[c] # "initial" /\ ~HasRun(c)'
    BY <1>1, <1>2, <1>3, <1>4, <1>7 DEF Reaches, HasRun
  <2> QED BY <1>1, <1>3, <1>5, <1>7, <2>1, WithoutRun
<1> QED BY <1>6, <1>7

-----------------------------------------------------------------------------
(* Invocations outside the lock, and the world around *)

LEMMA OutsideStays ==
    ASSUME IInv, TInv, NEW c \in Controllers, ~Active(c), Alone(c),
           UNCHANGED <<log, st, files, creations, opened>>, Count' \in {Count, Count + 1},
           ~HasRun(c)', pc'[c] = "initial" => mem'[c].meta = NoMetadata
    PROVE  TInv'
<1>1. Count \in Nat
  BY CountIsNatural DEF IInv
<1>2. ASSUME NEW d \in Controllers \ {c}
      PROVE  /\ pc'[d] = pc[d] /\ mem'[d] = mem[d] /\ (HasRun(d)' <=> HasRun(d))
             /\ (Suits(d) => Suits(d)') /\ (Held(d) => Held(d)')
  <2>1. pc'[d] = pc[d] /\ mem'[d] = mem[d]
    BY DEF Alone
  <2> QED BY <2>1, SuitsStill DEF HasRun, Active
<1>3. ASSUME NEW d \in Controllers, HasRun(d)' PROVE Accounted(d)'
  <2>1. d \in Controllers \ {c}
    BY <1>3
  <2>2. HasRun(d) /\ (Suits(d) => Suits(d)') /\ (Held(d) => Held(d)')
    BY <1>2, <1>3, <2>1
  <2>3. Suits(d) \/ (Count = 1 /\ Held(d)) \/ Count >= 2
    BY <2>2 DEF TInv, Accounted
  <2>4. Suits(d)' \/ (Count' = 1 /\ Held(d)') \/ Count' >= 2
    BY <1>1, <2>2, <2>3
  <2> QED BY <2>4 DEF Accounted
<1>4. ASSUME Count' = 0
      PROVE  Settled' \/ \E d \in Controllers : HasRun(d)' /\ pc'[d] # "exit"
  <2>1. Count = 0
    BY <1>1, <1>4
  <2>2. CASE Settled
    BY <2>2, NothingNew
  <2>3. ASSUME NEW d \in Controllers, HasRun(d), pc[d] # "exit"
        PROVE  HasRun(d)' /\ pc'[d] # "exit"
    <3>1. d \in Controllers \ {c}
      BY <2>3 DEF HasRun
    <3> QED BY <1>2, <2>3, <3>1
  <2> QED BY <2>1, <2>2, <2>3 DEF TInv
<1>5. \A d \in Controllers : pc'[d] = "initial" => mem'[d].meta = NoMetadata
  BY <1>2 DEF TInv
<1>6. creations' = 0 => opened' = Existing
  BY DEF TInv
<1> QED BY <1>3, <1>4, <1>5, <1>6 DEF TInv

LEMMA BeforeStays ==
    ASSUME IInv, RInv, TInv, NEW c \in Controllers, Begin(c) \/ Preflight(c) \/ Own(c)
    PROVE  TInv'
<1>1. TypeOK /\ mem[c] \in Memory /\ ~Active(c)
  BY DEF IInv, TypeOK, Begin, Preflight, Own, Active
<1>2. UNCHANGED <<log, st, files, remote, worker, faults, crashes>>
  BY DEF Begin, Preflight, Own, Stop, Returns, pair, budget
<1>3. PICK m \in Memory, next \in {"preflight", "own", "done", "initial"} :
         Continue(c, m, next) /\ (next = "initial" => m = NoMemory)
  <2>1. NoMemory \in Memory /\ \A why \in {"error", "signal"} : [NoMemory EXCEPT !.exit = why] \in Memory
    <3>1. {"error", "signal"} \subseteq Exits
      BY DEF Exits
    <3> QED BY <1>1, <3>1, MemoryTypes
  <2>2. \/ \E why \in {"error", "signal"} : Continue(c, [NoMemory EXCEPT !.exit = why], "done")
        \/ \E next \in {"preflight", "own", "initial"} : Continue(c, NoMemory, next)
    BY DEF Begin, Preflight, Own, Stop, Returns
  <2> QED BY <2>1, <2>2
<1>4. next \in Steps
  BY DEF Steps, Body
<1>5. /\ pc'[c] = next /\ mem'[c] = m
      /\ \A d \in Controllers \ {c} : pc'[d] = pc[d] /\ mem'[d] = mem[d]
  BY <1>1, <1>3, <1>4, ContinueEffect
<1>6. Alone(c) /\ Count' = Count /\ UNCHANGED <<creations, opened>>
  BY <1>2, <1>5 DEF Alone, Count, remote
<1>7. ~HasRun(c)' /\ (pc'[c] = "initial" => mem'[c].meta = NoMetadata)
  BY <1>3, <1>5 DEF HasRun, Active, NoMemory
<1> QED BY <1>1, <1>2, <1>6, <1>7, OutsideStays

LEMMA CrashStays ==
    ASSUME IInv, RInv, TInv, NEW c \in Controllers, Crash(c)
    PROVE  TInv'
<1>1. TypeOK /\ Dies(c) /\ UNCHANGED <<log, st, files, creations, opened>>
  BY DEF IInv, Crash, pair, remote
<1>2. Count' = Count + 1 /\ (creations' = 0 => opened' = Existing)
  BY <1>1, HowItCounts DEF TInv
<1>3. Alone(c) /\ pc'[c] = "dead" /\ ~HasRun(c)'
  <2>1. Ends(c)
    BY <1>1, DeathEnds
  <2> QED BY <2>1 DEF Ends, Vanishes, HasRun, Active
<1>4. CASE Active(c)
  BY <1>2, <1>3, <1>4, FirstFault
<1>5. CASE ~Active(c)
  BY <1>1, <1>2, <1>3, <1>5, OutsideStays
<1> QED BY <1>4, <1>5

LEMMA WorldStays ==
    ASSUME IInv, TInv, UNCHANGED <<log, st, files, pc, mem, creations, opened, faults, crashes>>
    PROVE  TInv'
<1>1. Count' = Count
  BY DEF Count
<1>2. ASSUME NEW d \in Controllers
      PROVE  /\ (HasRun(d)' <=> HasRun(d)) /\ (Suits(d) => Suits(d)') /\ (Held(d) => Held(d)')
  BY SuitsStill DEF HasRun, Active
<1>3. ASSUME NEW d \in Controllers, HasRun(d)' PROVE Accounted(d)'
  <2>1. Suits(d) \/ (Count = 1 /\ Held(d)) \/ Count >= 2
    BY <1>2, <1>3 DEF TInv, Accounted
  <2>2. Suits(d)' \/ (Count' = 1 /\ Held(d)') \/ Count' >= 2
    BY <1>1, <1>2, <2>1
  <2> QED BY <2>2 DEF Accounted
<1>4. Count' = 0 => Settled' \/ \E d \in Controllers : HasRun(d)' /\ pc'[d] # "exit"
  BY <1>1, <1>2, NothingNew DEF TInv
<1> QED BY <1>3, <1>4 DEF TInv

-----------------------------------------------------------------------------
(* The theorems *)

LEMMA InitTInv == Init => TInv
<1> SUFFICES ASSUME Init PROVE TInv
  OBVIOUS
<1>1. \A c \in Controllers : pc[c] = "idle"
  BY DEF Init
<1>2. Settled /\ opened = Existing
  BY DEF Init, Settled, NothingThere
<1> QED BY <1>1, <1>2 DEF TInv, HasRun, Active

LEMMA NextTInv == IInv /\ RInv /\ TInv /\ [Next]_vars => TInv'
<1> SUFFICES ASSUME IInv, RInv, TInv, [Next]_vars PROVE TInv'
  OBVIOUS
<1>1. CASE UNCHANGED vars
  BY <1>1, WorldStays DEF vars
<1>2. CASE Next
  <2>1. PICK c \in Controllers :
           \/ Begin(c) \/ Proceed(c) \/ Unexpected(c) \/ Crash(c) \/ Signal(c)
           \/ Post(c) \/ Answer(c)
    BY <1>2 DEF Next
  <2>2. CASE Signal(c) \/ Post(c) \/ Answer(c)
    BY <2>2, WorldStays DEF Signal, Post, Answer, pair, remote, budget
  <2>3. CASE Proceed(c)
    BY <2>3, BeforeStays, InitialStays, EnterStays, ServerStays, AllocateStays, PromptStays,
       LookStays, CreateStays, StartedStays, RunningStays, SubmitStays, WaitStays, EvidenceStays,
       ResultStays, TranscriptStays, CloseCompletedStays, CompletedStays, FinishStays,
       HandleStays, AbortStays, CloseStays, InterruptedStays, BlockStays, FallbackStays,
       ExitStays DEF Proceed
  <2> QED BY <2>1, <2>2, <2>3, BeforeStays, UnexpectedStays, CrashStays
<1> QED BY <1>1, <1>2

LEMMA CourseInvariance == Spec => [](IInv /\ RInv /\ TInv)
<1>1. IInv /\ RInv /\ TInv /\ [Next]_vars => (IInv /\ RInv /\ TInv)'
  BY NextIInv, NextRInv, NextTInv
<1> QED BY <1>1, InitIInv, InitRInv, InitTInv, PTL DEF Spec

\* An invocation that met signals, timeouts and bad answers only, and no failed
\* write or request and no crash, ends with a blocked run that status accepts
\* and that has no active session, or without a trace.
THEOREM UndisturbedRunsEndReadable == Spec => []EndsReadable
<1>1. ASSUME TInv PROVE EndsReadable
  <2> SUFFICES ASSUME Undisturbed, \A c \in Controllers : ~Alive(c)
               PROVE  Settled
    BY DEF EndsReadable, Settled
  <2>1. Count = 0
    BY DEF Undisturbed, Count
  <2>2. \A c \in Controllers : ~HasRun(c)
    BY DEF HasRun, Active, Alive
  <2> QED BY <1>1, <2>1, <2>2 DEF TInv
<1> QED BY <1>1, CourseInvariance, PTL

\* When the handlers have run after one fault at most, a session that the server
\* named to the controller is in the event log or in the metadata.
THEOREM SessionsAreIdentified == Spec => []CreatedSessionIsIdentified
<1>1. ASSUME IInv, RInv, TInv PROVE CreatedSessionIsIdentified
  <2> SUFFICES ASSUME NEW c \in Controllers, pc[c] = "exit", mem[c].error # "unexpected",
                      faults + crashes <= 1, mem[c].session \in opened \ Existing
               PROVE  files.metadata.session = mem[c].session \/ Recorded(mem[c].session)
    BY DEF CreatedSessionIsIdentified, Recorded
  <2>1. Active(c) /\ Busy(c) /\ VariablesAgree(c)
    BY <1>1 DEF Active, IInv, Local, RInv, Keeps
  <2>2. mem[c].session \in Sessions \ Existing /\ mem[c].session # None
    BY <1>1, HistoryAssumption DEF IInv, TypeOK
  <2>3. HasRun(c)
    BY <2>1, <2>2 DEF HasRun, VariablesAgree
  <2>4. Count \in Nat /\ Count <= 1
    BY <1>1, CountIsNatural DEF Count, IInv
  <2>5. Suits(c) \/ Held(c)
    BY <1>1, <2>3, <2>4 DEF TInv, Accounted
  <2>6. ASSUME mem[c].started PROVE Recorded(mem[c].session)
    BY <2>1, <2>6 DEF Busy
  <2>7. CASE Suits(c)
    BY <2>1, <2>2, <2>6, <2>7, <1>1, SessionIsKnown
  <2>8. CASE Held(c)
    BY <2>2, <2>6, <2>8 DEF Held, Known, Named
  <2> QED BY <2>5, <2>7, <2>8
<1> QED BY <1>1, CourseInvariance, PTL
=============================================================================
