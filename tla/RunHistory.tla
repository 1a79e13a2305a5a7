----------------------------- MODULE RunHistory -----------------------------
(***************************************************************************)
(* The vocabulary of a persisted run: the events of events.jsonl, the      *)
(* snapshot of state.json, what the readers accept (validate_event_history,*)
(* _load_durable_pair, validate_persistence) and what the writers compute  *)
(* (persist_initial, transition, observe).  No variables.                  *)
(*                                                                         *)
(* An event keeps what those functions tell apart: its type, the state it  *)
(* enters, the run it belongs to, the session of an agent event and the    *)
(* reason of a blocked or failed one.  Its sequence number is its position *)
(* in the log; timestamps, versions and previous_state restate other       *)
(* fields and are left out.                                                *)
(***************************************************************************)
EXTENDS Naturals, Sequences

CONSTANTS
    Runs,      \* run ids (a new one per persist_initial)
    Sessions,  \* session ids of agent invocations
    None       \* a field that is null

ASSUME HistoryAssumption == None \notin Runs \cup Sessions

WorkflowStates == {"initializing", "validating", "blocked", "failed"}
Terminal == {"blocked", "failed"}
Observations == {"server.validated", "agent.started", "agent.completed", "agent.interrupted"}
EventTypes == Observations \cup {"run.started", "state.entered", "run.blocked"}

\* Reasons are told apart only where validate_event_history does.
Placeholder == "execution_not_implemented"
Reasons == {"none", Placeholder, "other"}

Events == [type: EventTypes, to: WorkflowStates, run: Runs,
           session: Sessions \cup {None}, reason: Reasons]

States == [state: WorkflowStates \cup {"absent"}, run: Runs \cup {None}, reason: Reasons,
           server: BOOLEAN, session: Sessions \cup {None}, seq: Nat]

NoState == [state |-> "absent", run |-> None, reason |-> "none",
            server |-> FALSE, session |-> None, seq |-> 0]

\* _ALLOWED of transitions.py, which events.py repeats for its readers.
Allowed(from, to) ==
    CASE from = "initializing" /\ to = "validating" -> "state.entered"
      [] from = "validating" /\ to = "blocked" -> "run.blocked"
      [] from \in {"initializing", "validating"} /\ to = "failed" -> "state.entered"
      [] OTHER -> "none"

-----------------------------------------------------------------------------
(* validate_event_history: the events are checked one by one against what    *)
(* came before them.                                                         *)

EndTypes == {"agent.completed", "agent.interrupted"}

Before(log, i, types) == {j \in DOMAIN log : j < i /\ log[j].type \in types}

\* The probe is running: started, and not ended since.
ProbeRunning(log, i) ==
    Before(log, i, {"agent.started"}) # {} /\ Before(log, i, EndTypes) = {}

FirstIsValid(e) == e.type = "run.started" /\ e.to = "initializing" /\ e.reason = "none"

ObservationIsValid(log, i) ==
    LET server == Before(log, i, {"server.validated"}) # {}
        started == Before(log, i, {"agent.started"}) IN
    CASE log[i].type = "server.validated" -> ~server /\ started = {}
      [] log[i].type = "agent.started" -> server /\ started = {}
      [] log[i].type \in EndTypes ->
            /\ ProbeRunning(log, i)
            /\ \A j \in started : log[j].session = log[i].session
      [] OTHER -> FALSE

TransitionIsValid(log, i) ==
    /\ log[i].type = Allowed(log[i-1].to, log[i].to)
    /\ log[i].to \in Terminal => log[i].reason # "none"
    /\ log[i].reason = Placeholder /\ Before(log, i, {"server.validated"}) # {} =>
           Before(log, i, {"agent.completed"}) # {}
    /\ ~ProbeRunning(log, i)

EventIsValid(log, i) ==
    IF i = 1 THEN FirstIsValid(log[1])
    ELSE IF log[i-1].to = "validating" /\ log[i].to = "validating"
         THEN ObservationIsValid(log, i)
         ELSE TransitionIsValid(log, i)

ValidHistory(log) == log # << >> /\ \A i \in DOMAIN log : EventIsValid(log, i)

-----------------------------------------------------------------------------
(* Readers *)

\* load_events_at: one run throughout (sequence numbers are positions here).
SingleRun(log) == \A i, j \in DOMAIN log : log[i].run = log[j].run

\* _load_durable_pair: snapshot and history agree; the log may be neither
\* behind nor ahead.
PairAgrees(st, log) ==
    /\ st # NoState
    /\ SingleRun(log)
    /\ Len(log) = st.seq
    /\ ValidHistory(log)
    /\ LET last == log[Len(log)] IN
       last.run = st.run /\ last.to = st.state /\ last.reason = st.reason

\* validate_persistence asks in addition that the snapshot's server and active
\* invocation are those of the history.
ReaderAccepts(st, log) ==
    /\ PairAgrees(st, log)
    /\ LET last == log[Len(log)] IN
       /\ st.server = (\E i \in DOMAIN log : log[i].type = "server.validated")
       /\ (st.session # None) <=> (last.type = "agent.started")
       /\ st.session # None =>
              st.server /\ st.state = "validating" /\ st.session = last.session

-----------------------------------------------------------------------------
(* Writers: the request a caller makes, and the event and the snapshot that  *)
(* persist_initial, transition and observe compute for it from the durable   *)
(* pair.                                                                     *)

\* What cli.py ever asks for: a reason with a terminal state and no other.
Requests ==
    [kind: {"initial"}, run: Runs]
    \cup [kind: {"transition"}, to: {"validating"}, reason: {"none"}]
    \cup [kind: {"transition"}, to: Terminal, reason: Reasons \ {"none"}]
    \cup [kind: {"observe"}, type: {"server.validated"}, session: {None}]
    \cup [kind: {"observe"}, type: Observations \ {"server.validated"}, session: Sessions]

NextEvent(st, r) ==
    CASE r.kind = "initial" ->
            [type |-> "run.started", to |-> "initializing", run |-> r.run,
             session |-> None, reason |-> "none"]
      [] r.kind = "transition" ->
            [type |-> Allowed(st.state, r.to), to |-> r.to, run |-> st.run,
             session |-> None, reason |-> r.reason]
      [] r.kind = "observe" ->
            [type |-> r.type, to |-> "validating", run |-> st.run,
             session |-> r.session, reason |-> "none"]

\* Mutant of Apply: an interruption leaves active_invocation in the snapshot.
ApplyKeepingActive(st, e) ==
    [state |-> e.to, run |-> e.run,
     reason |-> IF e.type \in Observations THEN st.reason ELSE e.reason,
     server |-> st.server \/ e.type = "server.validated",
     session |-> IF e.type = "agent.started" THEN e.session
                 ELSE IF e.type = "agent.completed" THEN None ELSE st.session,
     seq |-> st.seq + 1]

\* The snapshot after an event: what next_state becomes in all three writers.
Apply(st, e) ==
    [state |-> e.to, run |-> e.run,
     reason |-> IF e.type \in Observations THEN st.reason ELSE e.reason,
     server |-> st.server \/ e.type = "server.validated",
     session |-> IF e.type = "agent.started" THEN e.session
                 ELSE IF e.type \in {"agent.completed", "agent.interrupted"} THEN None
                 ELSE st.session,
     seq |-> st.seq + 1]

\* The guards of observe on the durable snapshot.
ObserveAllowed(st, r) ==
    /\ st.state = "validating"
    /\ CASE r.type = "server.validated" -> ~st.server /\ r.session = None
         [] r.type = "agent.started" -> st.session = None /\ r.session # None
         [] OTHER -> st.session # None /\ st.session = r.session

\* Mutants of MayWrite: the transition table is not consulted; the guards of an
\* observation and the check of the extended history are left out.
MayWriteAnyTransition(st, log, logExists, r) ==
    CASE r.kind = "initial" -> ~logExists /\ st = NoState
      [] r.kind = "transition" ->
            PairAgrees(st, log) /\ ValidHistory(Append(log, NextEvent(st, r)))
      [] r.kind = "observe" ->
            /\ PairAgrees(st, log)
            /\ ObserveAllowed(st, r)
            /\ ValidHistory(Append(log, NextEvent(st, r)))

MayWriteAnyObservation(st, log, logExists, r) ==
    CASE r.kind = "initial" -> ~logExists /\ st = NoState
      [] r.kind = "transition" ->
            /\ PairAgrees(st, log)
            /\ Allowed(st.state, r.to) # "none"
            /\ r.to \in Terminal => r.reason # "none"
      [] r.kind = "observe" -> PairAgrees(st, log) /\ st.state = "validating"

\* Everything a writer requires before its first write.
MayWrite(st, log, logExists, r) ==
    CASE r.kind = "initial" -> ~logExists /\ st = NoState
      [] r.kind = "transition" ->
            /\ PairAgrees(st, log)
            /\ Allowed(st.state, r.to) # "none"
            /\ r.to \in Terminal => r.reason # "none"
            /\ ValidHistory(Append(log, NextEvent(st, r)))
      [] r.kind = "observe" ->
            /\ PairAgrees(st, log)
            /\ ObserveAllowed(st, r)
            /\ ValidHistory(Append(log, NextEvent(st, r)))

\* The snapshot that a whole valid history leads to.
SnapshotOf(log) ==
    LET n == Len(log)
        started == Before(log, n + 1, {"agent.started"}) IN
    IF log = << >> THEN NoState
    ELSE [state |-> log[n].to, run |-> log[n].run, reason |-> log[n].reason,
          server |-> Before(log, n + 1, {"server.validated"}) # {},
          session |-> IF ProbeRunning(log, n + 1)
                        THEN log[CHOOSE j \in started : TRUE].session ELSE None,
          seq |-> n]
=============================================================================
