----------------------------- MODULE Controller -----------------------------
(***************************************************************************)
(* `sprint-loop run` (cli.py, _run and its exception handlers): several    *)
(* invocations of it, one of which may own the sprint, drive the durable   *)
(* pair state.json / events.jsonl, the records of one agent invocation     *)
(* (metadata.json, prompt.md, result.json, transcript.json) and an         *)
(* OpenCode server.                                                        *)
(*                                                                         *)
(* persist_initial, transition and observe are one step here, with the     *)
(* outcomes RunLog shows them to have; so is _atomic_write, with the       *)
(* prefixes it can leave behind.  Any of these can fail or be cut short by *)
(* a crash; the server can refuse, mislead or time out; SIGINT or SIGTERM  *)
(* can arrive between any two steps.                                       *)
(***************************************************************************)
EXTENDS InvocationFiles

CONSTANTS
    Controllers,  \* invocations of `sprint-loop run`
    Existing,     \* sessions other clients opened on the server before
    MaxFaults,    \* bounds on failing calls, of the disk or of the server,
    MaxCrashes,   \* on killed controllers
    MaxSignals    \* and on controllers that receive a signal

ASSUME ControllerAssumption ==
    /\ None \notin Controllers
    /\ Existing \subseteq Sessions
    /\ MaxFaults \in Nat /\ MaxCrashes \in Nat /\ MaxSignals \in Nat

VARIABLES
    log, st,      \* events.jsonl and state.json
    files,        \* invocations/<multisprint>/<sprint>/0001-auditor
    owner,        \* who holds the ownership lock
    pc, mem,      \* each invocation's next step and local variables
    worker,       \* its daemon thread for the synchronous prompt
    signalled,    \* a signal is recorded (_Cancellation)
    creations,    \* POST /session requests ever sent
    opened,       \* sessions of the server
    prompts,      \* prompts[s]: POST /session/s/message requests received
    aborts,       \* aborts[s]: POST /session/s/abort requests sent
    faults, crashes

pair == <<log, st>>
remote == <<creations, opened, prompts, aborts>>
budget == <<faults, crashes>>
vars == <<log, st, files, owner, pc, mem, worker, signalled,
          creations, opened, prompts, aborts, faults, crashes>>

-----------------------------------------------------------------------------
(* The durable record *)

\* Events of one kind in the log.
Of(type) == Positions(log, {type})

\* validate_persistence: what status, and the handlers of run, make of it all.
NothingThere == log = << >> /\ st = NoState
Accepted == log # << >> /\ ReaderAccepts(st, log) /\ RecordsAccepted(files, st, log)

-----------------------------------------------------------------------------
(* Local state *)

Body == {"initial", "enter", "server", "allocate", "prompt", "look", "create", "started",
         "running", "submit", "wait", "evidence", "result", "transcript", "terminal",
         "completed", "finish"}
Handlers == {"handle", "abort", "close", "interrupted", "block", "fallback"}
Steps == {"idle", "preflight", "own", "exit", "done", "dead"} \cup Body \cup Handlers

Errors == {"none", "other", "signal", "timed_out", "ambiguous", "installed", "unexpected"}
Exits == {"none", "error", "signal", "placeholder"}
Answers == Results \cup {"violation", "error"}

\* Local variables of _run: known is "state is not None", creating is
\* session_creation_in_flight, pending is terminal_metadata_pending, evidence
\* is transcript_evidence; closing is the status the handlers decided on.
Memory == [known: BOOLEAN, meta: Metadata, session: Sessions \cup {None},
           others: SUBSET Sessions, creating: BOOLEAN, started: BOOLEAN, completed: BOOLEAN,
           pending: BOOLEAN, evidence: BOOLEAN, answer: {"none"} \cup Results,
           error: Errors, closing: {"none"} \cup Final, exit: Exits]

NoMemory == [known |-> FALSE, meta |-> NoMetadata, session |-> None, others |-> {},
             creating |-> FALSE, started |-> FALSE, completed |-> FALSE, pending |-> FALSE,
             evidence |-> FALSE, answer |-> "none", error |-> "none", closing |-> "none",
             exit |-> "none"]

\* late: the worker's answer came after the signal was recorded.
Idle == [step |-> "none", answer |-> "none", late |-> FALSE]

TypeOK ==
    /\ log \in Seq(Events) /\ st \in States
    /\ files \in FilesSet
    /\ owner \in Controllers \cup {None}
    /\ pc \in [Controllers -> Steps]
    /\ mem \in [Controllers -> Memory]
    /\ worker \in [Controllers -> [step: {"none", "connecting", "posted", "answered"},
                                   answer: {"none"} \cup Answers, late: BOOLEAN]]
    /\ signalled \in [Controllers -> BOOLEAN]
    /\ creations \in Nat /\ opened \subseteq Sessions
    /\ prompts \in [Sessions -> Nat] /\ aborts \in [Sessions -> Nat]
    /\ faults \in 0..MaxFaults /\ crashes \in 0..MaxCrashes

Init ==
    /\ log = << >> /\ st = NoState /\ files = NoFiles /\ owner = None
    /\ pc = [c \in Controllers |-> "idle"]
    /\ mem = [c \in Controllers |-> NoMemory]
    /\ worker = [c \in Controllers |-> Idle]
    /\ signalled = [c \in Controllers |-> FALSE]
    /\ creations = 0 /\ opened = Existing
    /\ prompts = [s \in Sessions |-> 0] /\ aborts = [s \in Sessions |-> 0]
    /\ faults = 0 /\ crashes = 0

-----------------------------------------------------------------------------
(* How a step ends *)

Continue(c, m, next) ==
    /\ mem' = [mem EXCEPT ![c] = m]
    /\ pc' = [pc EXCEPT ![c] = next]

Returns(c, m, next) ==
    /\ Continue(c, m, next)
    /\ UNCHANGED <<owner, worker, faults, crashes>>

\* A ControllerError, or the _CancellationRequested of a check.  The handlers
\* swallow the errors of their own calls and go on at target.
Raises(c, m, error, target) ==
    IF target = "handle" THEN Returns(c, [m EXCEPT !.error = error], "handle")
                         ELSE Returns(c, m, target)

Fails(c, m, error, target) ==
    /\ faults < MaxFaults
    /\ faults' = faults + 1
    /\ IF target = "handle" THEN Continue(c, [m EXCEPT !.error = error], "handle")
                            ELSE Continue(c, m, target)
    /\ UNCHANGED <<owner, worker, crashes>>

Dies(c) ==
    /\ crashes < MaxCrashes
    /\ crashes' = crashes + 1
    /\ Continue(c, NoMemory, "dead")
    /\ owner' = IF owner = c THEN None ELSE owner
    /\ worker' = [worker EXCEPT ![c] = Idle]
    /\ UNCHANGED faults

\* persist_initial, transition and observe, under the persistence lock: request
\* r succeeds, is refused, or fails or dies with nothing written, with the event
\* ahead of the snapshot, or with everything installed.
Durable(c, r, m, done, next, target) ==
    IF ~MayWrite(st, log, log # << >>, r)
    THEN UNCHANGED pair /\ Raises(c, m, "other", target)
    ELSE LET e == NextEvent(st, r) IN
         \/ log' = Append(log, e) /\ st' = Apply(st, e) /\ Returns(c, done, next)
         \/ /\ \/ UNCHANGED pair
               \/ log' = Append(log, e) /\ st' \in {st, Apply(st, e)}
            /\ Fails(c, m, "other", target) \/ Dies(c)

\* write_metadata, write_prompt, write_result, write_transcript.  An error tells
\* whether an immutable artifact was installed (ArtifactWriteError).
WriteFile(c, a, value, m, done, next, target) ==
    IF ~MayInstall(files, a, value)
    THEN UNCHANGED files /\ Raises(c, m, "other", target)
    ELSE \/ files' = Put(files, a, value) /\ Returns(c, done, next)
         \/ /\ files' \in Prefixes(files, a, value)
            /\ \/ Fails(c, m, IF a \in Immutable /\ files'[a] = value THEN "installed"
                                                                      ELSE "other", target)
               \/ Dies(c)

-----------------------------------------------------------------------------
(* Before the run exists *)

Stop(c, why) == Returns(c, [NoMemory EXCEPT !.exit = why], "done")

\* _existing_run_before_preflight
Begin(c) ==
    /\ pc[c] = "idle"
    /\ IF NothingThere THEN Returns(c, NoMemory, "preflight") ELSE Stop(c, "error")
    /\ UNCHANGED <<pair, files, remote, signalled>>

\* validate_preflight, validate_server, cancellation.check()
Preflight(c) ==
    /\ pc[c] = "preflight"
    /\ \/ Stop(c, "error")
       \/ IF signalled[c] THEN Stop(c, "signal") ELSE Returns(c, NoMemory, "own")
    /\ UNCHANGED <<pair, files, remote, signalled>>

\* ownership_lock(blocking=False)
Own(c) ==
    /\ pc[c] = "own"
    /\ IF owner = None
         THEN /\ owner' = c
              /\ Continue(c, NoMemory, "initial")
              /\ UNCHANGED <<worker, budget>>
         ELSE Stop(c, "error")
    /\ UNCHANGED <<pair, files, remote, signalled>>

\* Everything is checked again under both locks before the run is created.
Initial(c) ==
    /\ pc[c] = "initial"
    /\ \/ UNCHANGED pair /\ Raises(c, mem[c], "other", "handle")
       \/ /\ NothingThere
          /\ \E run \in Runs :
                LET m == [mem[c] EXCEPT !.known = TRUE] IN
                Durable(c, [kind |-> "initial", run |-> run], m, m, "enter", "handle")
    /\ UNCHANGED <<files, remote, signalled>>

-----------------------------------------------------------------------------
(* The run *)

Transition(to, reason) == [kind |-> "transition", to |-> to, reason |-> reason]
Observation(type, session) == [kind |-> "observe", type |-> type, session |-> session]

Enter(c) ==
    /\ pc[c] = "enter"
    /\ Durable(c, Transition("validating", "none"), mem[c], mem[c], "server", "handle")
    /\ UNCHANGED <<files, remote, signalled>>

ServerValidated(c) ==
    /\ pc[c] = "server"
    /\ Durable(c, Observation("server.validated", None), mem[c], mem[c], "allocate", "handle")
    /\ UNCHANGED <<files, remote, signalled>>

\* allocate_paths, new_metadata, write_metadata
Allocate(c) ==
    /\ pc[c] = "allocate"
    /\ IF files.dir
         THEN UNCHANGED files /\ Raises(c, mem[c], "other", "handle")
         ELSE LET m == [mem[c] EXCEPT !.meta = Planned] IN
              WriteFile(c, "metadata", Planned, m, m, "prompt", "handle")
    /\ UNCHANGED <<pair, remote, signalled>>

WritePrompt(c) ==
    /\ pc[c] = "prompt"
    /\ WriteFile(c, "prompt", TRUE, mem[c], mem[c], "look", "handle")
    /\ UNCHANGED <<pair, remote, signalled>>

\* capture_probe_snapshot, existing_session_ids, cancellation.check()
Look(c) ==
    /\ pc[c] = "look"
    /\ \/ Fails(c, mem[c], "other", "handle")
       \/ IF signalled[c] THEN Raises(c, mem[c], "signal", "handle")
                          ELSE Returns(c, [mem[c] EXCEPT !.others = opened], "create")
    /\ UNCHANGED <<pair, files, remote, signalled>>

\* Mutant of Create: a request without an answer is sent again.
CreateAgain(c) ==
    /\ pc[c] = "create"
    /\ creations' = creations + 1
    /\ \/ \E s \in Sessions \ opened :
             /\ opened' = opened \cup {s}
             /\ \/ Returns(c, [mem[c] EXCEPT !.session = s], "started")
                \/ Fails(c, mem[c], "ambiguous", "create")
       \/ /\ UNCHANGED opened
          /\ Fails(c, mem[c], "ambiguous", "create")
    /\ UNCHANGED <<pair, files, prompts, aborts, signalled>>

\* create_session: a fresh session; one that does not match the request; a
\* rejection; no answer, with or without a session; or a session that is not new.
Create(c) ==
    /\ pc[c] = "create"
    /\ creations' = creations + 1
    /\ LET trying == [mem[c] EXCEPT !.creating = TRUE] IN
       \/ \E s \in Sessions \ opened :
             /\ opened' = opened \cup {s}
             /\ \/ Returns(c, [mem[c] EXCEPT !.session = s], "started")
                \/ Fails(c, trying, "other", "handle")
                \/ Fails(c, trying, "ambiguous", "handle")
       \/ /\ UNCHANGED opened
          /\ \/ Fails(c, trying, "other", "handle")
             \/ Fails(c, trying, "ambiguous", "handle")
             \/ \E s \in mem[c].others :
                   Fails(c, [mem[c] EXCEPT !.session = s], "other", "handle")
    /\ UNCHANGED <<pair, files, prompts, aborts, signalled>>

\* Mutant of Started: the memory copy is only updated after the durable write.
StartedUnretained(c) ==
    /\ pc[c] = "started"
    /\ LET m == [mem[c] EXCEPT !.meta.session = mem[c].session,
                               !.meta.status = "session_created"]
       IN  Durable(c, Observation("agent.started", m.session), mem[c],
                   [m EXCEPT !.started = TRUE], "running", "handle")
    /\ UNCHANGED <<files, remote, signalled>>

\* The session is in the memory copy of the metadata before it is durable.
Started(c) ==
    /\ pc[c] = "started"
    /\ LET m == [mem[c] EXCEPT !.meta.session = mem[c].session,
                               !.meta.status = "session_created"]
       IN  Durable(c, Observation("agent.started", m.session), m,
                   [m EXCEPT !.started = TRUE], "running", "handle")
    /\ UNCHANGED <<files, remote, signalled>>

Running(c) ==
    /\ pc[c] = "running"
    /\ LET m == [mem[c] EXCEPT !.meta.status = "running"]
       IN  WriteFile(c, "metadata", m.meta, m, m, "submit", "handle")
    /\ UNCHANGED <<pair, remote, signalled>>

\* cancellation.check(), then the worker thread
Submit(c) ==
    /\ pc[c] = "submit"
    /\ IF signalled[c]
         THEN Raises(c, mem[c], "signal", "handle")
         ELSE /\ worker' = [worker EXCEPT ![c].step = "connecting"]
              /\ Continue(c, mem[c], "wait")
              /\ UNCHANGED <<owner, budget>>
    /\ UNCHANGED <<pair, files, remote, signalled>>

\* An answer is taken only when it came before the signal.
Receive(c) ==
    /\ pc[c] = "wait"
    /\ worker[c].step = "answered" /\ ~worker[c].late
    /\ LET answer == worker[c].answer IN
       CASE answer = "error" -> Raises(c, mem[c], "other", "handle")
         [] answer = "violation" -> Returns(c, mem[c], "evidence")
         [] OTHER -> Returns(c, [mem[c] EXCEPT !.answer = answer], "result")
    /\ UNCHANGED <<pair, files, remote, signalled>>

\* Mutant of GiveUp: the wait has no deadline.
GiveUpOnSignal(c) ==
    /\ pc[c] = "wait"
    /\ signalled[c] /\ Raises(c, mem[c], "signal", "handle")
    /\ UNCHANGED <<pair, files, remote, signalled>>

GiveUp(c) ==
    /\ pc[c] = "wait"
    /\ \/ Raises(c, mem[c], "timed_out", "handle")
       \/ signalled[c] /\ Raises(c, mem[c], "signal", "handle")
    /\ UNCHANGED <<pair, files, remote, signalled>>

\* A violating answer is kept as evidence before it is reported.
KeepEvidence(c) ==
    /\ pc[c] = "evidence"
    /\ WriteFile(c, "transcript", TRUE, mem[c],
                 [mem[c] EXCEPT !.evidence = TRUE, !.error = "other"], "handle", "handle")
    /\ UNCHANGED <<pair, remote, signalled>>

WriteResult(c) ==
    /\ pc[c] = "result"
    /\ WriteFile(c, "result", mem[c].answer, mem[c], [mem[c] EXCEPT !.pending = TRUE],
                 "transcript", "handle")
    /\ UNCHANGED <<pair, remote, signalled>>

WriteTranscript(c) ==
    /\ pc[c] = "transcript"
    /\ WriteFile(c, "transcript", TRUE, mem[c], mem[c], "terminal", "handle")
    /\ UNCHANGED <<pair, remote, signalled>>

CloseCompleted(c) ==
    /\ pc[c] = "terminal"
    /\ LET m == [mem[c] EXCEPT !.meta.status = mem[c].answer, !.meta.result = mem[c].answer,
                               !.meta.transcript = "kept"]
       IN  WriteFile(c, "metadata", m.meta, m, m, "completed", "handle")
    /\ UNCHANGED <<pair, remote, signalled>>

Completed(c) ==
    /\ pc[c] = "completed"
    /\ Durable(c, Observation("agent.completed", mem[c].session), mem[c],
               [mem[c] EXCEPT !.pending = FALSE, !.completed = TRUE], "finish", "handle")
    /\ UNCHANGED <<files, remote, signalled>>

\* Mutant of Finish: a blocked or failed result passes for a completed one.
FinishAnyResult(c) ==
    /\ pc[c] = "finish"
    /\ Durable(c, Transition("blocked", Placeholder), mem[c],
               [mem[c] EXCEPT !.exit = "placeholder"], "exit", "handle")
    /\ UNCHANGED <<files, remote, signalled>>

\* verify_probe_snapshot can find the repository changed.
Finish(c) ==
    /\ pc[c] = "finish"
    /\ \/ UNCHANGED pair /\ Raises(c, mem[c], "other", "handle")
       \/ /\ mem[c].answer = "completed"
          /\ Durable(c, Transition("blocked", Placeholder), mem[c],
                     [mem[c] EXCEPT !.exit = "placeholder"], "exit", "handle")
    /\ UNCHANGED <<files, remote, signalled>>

-----------------------------------------------------------------------------
(* The exception handlers *)

\* Mutant of EvidenceInstalled: what an error says of its artifact is ignored.
EvidencePending(m) == m.pending

\* terminal_metadata_pending, after _installed_immutable_artifact
EvidenceInstalled(m) == m.pending \/ m.error = "installed"

\* _CancellationRequested, or any error before there is a session while a signal
\* is recorded (_finalize_pre_session_cancellation).
Cancelled(c) ==
    \/ mem[c].error = "signal"
    \/ /\ signalled[c]
       /\ mem[c].session = None /\ mem[c].known /\ ~EvidenceInstalled(mem[c])

\* The terminal status the metadata gets; an ambiguous creation stays what the
\* record says even when the signal decides the exit status.
ClosingStatus(c) ==
    LET m == mem[c] IN
    IF m.started /\ ~m.completed
    THEN IF m.error = "timed_out" THEN "timed_out" ELSE "interrupted"
    ELSE IF Cancelled(c) /\ m.error # "ambiguous" THEN "interrupted" ELSE "failed"

\* Mutants of Cleanup: a session that was never recorded is not aborted; a
\* completed invocation is cleaned up again; a signal skips the transition.
CleanupStarted(m) ==
    IF ~m.known \/ EvidenceInstalled(m) THEN "exit"
    ELSE IF m.completed THEN "block"
    ELSE IF m.started THEN "abort"
    ELSE IF m.meta.status # "none" THEN "close" ELSE "block"

CleanupCompleted(m) ==
    IF ~m.known \/ EvidenceInstalled(m) THEN "exit"
    ELSE IF m.session # None THEN "abort"
    ELSE IF m.meta.status # "none" THEN "close" ELSE "block"

CleanupUnlessSignal(m) ==
    IF ~m.known \/ EvidenceInstalled(m) \/ m.error = "signal" THEN "exit"
    ELSE IF m.completed THEN "block"
    ELSE IF m.session # None THEN "abort"
    ELSE IF m.meta.status # "none" THEN "close" ELSE "block"

\* Where the handlers begin.
Cleanup(m) ==
    IF ~m.known \/ EvidenceInstalled(m) THEN "exit"
    ELSE IF m.completed THEN "block"
    ELSE IF m.session # None THEN "abort"
    ELSE IF m.meta.status # "none" THEN "close" ELSE "block"

Handle(c) ==
    /\ pc[c] = "handle"
    /\ Returns(c, [mem[c] EXCEPT !.closing = ClosingStatus(c),
                                 !.exit = IF Cancelled(c) THEN "signal" ELSE "error"],
               Cleanup(mem[c]))
    /\ UNCHANGED <<pair, files, remote, signalled>>

\* Mutant of Abort: an abort that is not acknowledged is sent again.
AbortAgain(c) ==
    /\ pc[c] = "abort"
    /\ aborts' = [aborts EXCEPT ![mem[c].session] = @ + 1]
    /\ Returns(c, mem[c], "close") \/ Fails(c, mem[c], "other", "abort")
    /\ UNCHANGED <<pair, files, creations, opened, prompts, signalled>>

\* The abort request and, for an active invocation, the bounded wait for its
\* confirmation; neither a refusal nor a missing confirmation changes the rest.
Abort(c) ==
    /\ pc[c] = "abort"
    /\ aborts' = [aborts EXCEPT ![mem[c].session] = @ + 1]
    /\ Returns(c, mem[c], "close")
    /\ UNCHANGED <<pair, files, creations, opened, prompts, signalled>>

\* Mutants of CloseMetadata: the interruption event does not wait for the
\* metadata; it is never written.
CloseRegardless(c) ==
    /\ pc[c] = "close"
    /\ LET m == mem[c]
           transcript == IF m.started /\ m.evidence THEN "kept" ELSE "unavailable"
           next == IF m.started THEN "interrupted" ELSE "block"
       IN  WriteFile(c, "metadata", Closed(m.meta, m.closing, transcript), m, m, next, next)
    /\ UNCHANGED <<pair, remote, signalled>>

CloseSilently(c) ==
    /\ pc[c] = "close"
    /\ LET m == mem[c]
           transcript == IF m.started /\ m.evidence THEN "kept" ELSE "unavailable"
       IN  WriteFile(c, "metadata", Closed(m.meta, m.closing, transcript), m, m,
                     "block", "block")
    /\ UNCHANGED <<pair, remote, signalled>>

CloseMetadata(c) ==
    /\ pc[c] = "close"
    /\ LET m == mem[c]
           transcript == IF m.started /\ m.evidence THEN "kept" ELSE "unavailable"
       IN  WriteFile(c, "metadata", Closed(m.meta, m.closing, transcript), m, m,
                     IF m.started THEN "interrupted" ELSE "block", "block")
    /\ UNCHANGED <<pair, remote, signalled>>

Interrupted(c) ==
    /\ pc[c] = "interrupted"
    /\ Durable(c, Observation("agent.interrupted", mem[c].session), mem[c], mem[c],
               "block", "block")
    /\ UNCHANGED <<files, remote, signalled>>

\* Only a consistent record that is still validating is blocked.
Block(c) ==
    /\ pc[c] = "block"
    /\ IF Accepted /\ st.state = "validating"
         THEN Durable(c, Transition("blocked", "other"), mem[c], mem[c], "exit", "exit")
         ELSE UNCHANGED pair /\ Returns(c, mem[c], "exit")
    /\ UNCHANGED <<files, remote, signalled>>

\* _persist_best_effort_failure
Fallback(c) ==
    /\ pc[c] = "fallback"
    /\ IF Accepted /\ st.state \in {"initializing", "validating"}
         THEN Durable(c, Transition("failed", "other"), mem[c], mem[c], "exit", "exit")
         ELSE UNCHANGED pair /\ Returns(c, mem[c], "exit")
    /\ UNCHANGED <<files, remote, signalled>>

\* The ownership lock is released and the process ends, its daemon thread with it.
Exit(c) ==
    /\ pc[c] = "exit"
    /\ Continue(c, [NoMemory EXCEPT !.exit = mem[c].exit], "done")
    /\ owner' = None
    /\ worker' = [worker EXCEPT ![c] = Idle]
    /\ UNCHANGED <<pair, files, remote, signalled, budget>>

\* Any other exception: in the body the last except clause sees it, inside a
\* handler nothing does.
Unexpected(c) ==
    /\ pc[c] \in Body \cup Handlers
    /\ faults < MaxFaults
    /\ faults' = faults + 1
    /\ Continue(c, [mem[c] EXCEPT !.error = "unexpected", !.exit = "error"],
                IF pc[c] \in Body THEN "fallback" ELSE "exit")
    /\ UNCHANGED <<pair, files, owner, worker, remote, signalled, crashes>>

-----------------------------------------------------------------------------
(* The world around *)

Crash(c) ==
    /\ pc[c] \notin {"idle", "done", "dead"}
    /\ Dies(c)
    /\ UNCHANGED <<pair, files, remote, signalled>>

Signal(c) ==
    /\ pc[c] \notin {"idle", "done", "dead"}
    /\ ~signalled[c]
    /\ Cardinality({d \in Controllers : signalled[d]}) < MaxSignals
    /\ signalled' = [signalled EXCEPT ![c] = TRUE]
    /\ UNCHANGED <<pair, files, owner, pc, mem, worker, remote, budget>>

\* The prompt reaches the server, possibly after the controller has stopped
\* waiting for it; _request sends nothing once the deadline has passed.
Post(c) ==
    /\ worker[c].step = "connecting"
    /\ mem[c].error # "timed_out"
    /\ prompts' = [prompts EXCEPT ![mem[c].session] = @ + 1]
    /\ worker' = [worker EXCEPT ![c].step = "posted"]
    /\ UNCHANGED <<pair, files, owner, pc, mem, signalled, creations, opened, aborts, budget>>

Answer(c) ==
    /\ \E answer \in Answers :
          /\ \/ worker[c].step = "posted"
             \/ worker[c].step = "connecting" /\ answer = "error"
          /\ worker' = [worker EXCEPT ![c] = [step |-> "answered", answer |-> answer,
                                              late |-> signalled[c]]]
    /\ UNCHANGED <<pair, files, owner, pc, mem, signalled, remote, budget>>

Proceed(c) ==
    \/ Preflight(c) \/ Own(c) \/ Initial(c) \/ Enter(c) \/ ServerValidated(c)
    \/ Allocate(c) \/ WritePrompt(c) \/ Look(c) \/ Create(c) \/ Started(c) \/ Running(c)
    \/ Submit(c) \/ Receive(c) \/ GiveUp(c) \/ KeepEvidence(c) \/ WriteResult(c)
    \/ WriteTranscript(c) \/ CloseCompleted(c) \/ Completed(c) \/ Finish(c) \/ Handle(c)
    \/ Abort(c) \/ CloseMetadata(c) \/ Interrupted(c) \/ Block(c) \/ Fallback(c) \/ Exit(c)

Next ==
    \E c \in Controllers :
        \/ Begin(c) \/ Proceed(c) \/ Unexpected(c) \/ Crash(c) \/ Signal(c)
        \/ Post(c) \/ Answer(c)

Spec == Init /\ [][Next]_vars

-----------------------------------------------------------------------------
(* Properties *)

Alive(c) == pc[c] \notin {"idle", "done", "dead"}
Undisturbed == faults + crashes = 0

Requested(count) == {s \in Sessions : count[s] > 0}

\* Whatever fails, dies, restarts or is interrupted, the server is asked for one
\* session at most, and at most one prompt reaches it, in a session that the
\* event log had recorded before: neither POST is ever repeated.
SubmittedOnce ==
    /\ creations <= 1
    /\ Cardinality(Requested(prompts)) <= 1
    /\ \A s \in Requested(prompts) :
          /\ prompts[s] = 1 /\ s \notin Existing
          /\ \E i \in Of("agent.started") : log[i].session = s

\* An abort is sent once at most, and never to a session whose completion is
\* recorded.
AbortedOnce ==
    /\ Cardinality(Requested(aborts)) <= 1
    /\ \A s \in Requested(aborts) :
          /\ aborts[s] = 1
          /\ \A i \in Of("agent.completed") : log[i].session # s

\* Terminal metadata never denies a result or a transcript that was installed,
\* nor claims one that was not: not after an error, not after a crash, at
\* whatever point of _atomic_write.
RecordsTruthful ==
    files.metadata.status \in Final =>
        /\ files.result = files.metadata.result
        /\ files.transcript = (files.metadata.transcript = "kept")

\* The events of an invocation are written after its metadata says the same:
\* an ended invocation is never told from its event alone, and an interruption
\* is recorded only for a session that was aborted.
EventsFollowRecords ==
    /\ \A i \in Of("agent.completed") :
          /\ files.metadata.status \in Results
          /\ files.metadata.session = log[i].session
    /\ \A i \in Of("agent.interrupted") :
          /\ files.metadata.status \in {"timed_out", "interrupted"}
          /\ aborts[log[i].session] = 1
          /\ files.result = "none"

\* execution_not_implemented, and the exit status that goes with it, mean what
\* they say: the prompt was answered and every record of it is in place.
PlaceholderMeansCompleted ==
    (st.reason = Placeholder \/ \E c \in Controllers : mem[c].exit = "placeholder") =>
        /\ st.state = "blocked" \/ crashes + faults > 0
        /\ files.metadata.status = "completed" /\ files.result = "completed"
        /\ files.transcript
        /\ \E i \in Of("agent.completed") : prompts[log[i].session] = 1

\* A run that nothing but signals, timeouts and bad answers disturbed leaves,
\* when its process has ended, a blocked run without an active invocation that
\* status accepts, or no trace.
EndsReadable ==
    Undisturbed /\ (\A c \in Controllers : ~Alive(c)) =>
        \/ NothingThere /\ files = NoFiles
        \/ Accepted /\ st.state = "blocked" /\ st.session = None

\* A run in a terminal state stays as it is, and so do the records of its
\* invocation: no later invocation of `sprint-loop run` touches them.
TerminalIsFinal ==
    [][ st.state \in Terminal => UNCHANGED <<log, st, files>> ]_<<log, st, files>>

\* An invocation that ends by one of its handlers leaves no session of its own
\* behind with a prompt that is still to be answered or was never sent: it has
\* aborted it, once, or has its answer.
NoSessionAbandoned ==
    \A c \in Controllers :
        pc[c] = "exit" /\ mem[c].session # None /\ mem[c].error # "unexpected" =>
            aborts[mem[c].session] = 1 \/ worker[c].step = "answered"

\* docs/v1_final_software_specification.md, 8.2: "Status must work while the controller is running
\* and after it exits."
StatusAlwaysWorks == Undisturbed => NothingThere \/ Accepted

\* A session that the server has named to the controller is in the event log or
\* in the metadata when the handlers have run, although the write that was to
\* record it first may have failed (the comment at cli.py:736).
CreatedSessionIsIdentified ==
    \A c \in Controllers :
        /\ pc[c] = "exit" /\ mem[c].error # "unexpected" /\ faults + crashes <= 1
        /\ mem[c].session \in opened \ Existing
        => \/ files.metadata.session = mem[c].session
           \/ \E i \in Of("agent.started") : log[i].session = mem[c].session

-----------------------------------------------------------------------------
(* Liveness: a controller goes on until it ends; every wait of it is bounded *)
(* by a timeout.  Nothing is assumed of the worker, the server or signals.   *)

LiveSpec == Spec /\ \A c \in Controllers : WF_vars(Proceed(c))

\* An invocation, once begun, ends, and the ownership lock is free again.  Of an
\* undisturbed one EndsReadable says that its run is then blocked.
InvocationEnds == \A c \in Controllers : Alive(c) ~> (~Alive(c) /\ owner # c)
=============================================================================
