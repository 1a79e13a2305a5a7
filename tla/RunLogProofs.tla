---------------------------- MODULE RunLogProofs ----------------------------
(***************************************************************************)
(* RunLog for any number of writers, readers, sessions, failing calls,     *)
(* crashes and losses of power.                                            *)
(*                                                                         *)
(* That a snapshot is the prefix of the log it names is not inductive: it  *)
(* needs to know what a writer holds between planning and installing.      *)
(* PlanFits says, step by step of the critical section, that the planned   *)
(* snapshot is the one of the log with the planned event (ApplyIsSnapshot  *)
(* turns the step apply_event takes into the fold over the history), and   *)
(* that the log and its directory entry are safe before the snapshot is    *)
(* installed.  SnapshotsBacked keeps that for the two snapshots, the one   *)
(* in the page cache and the one on the device, which is what makes a loss *)
(* of power that leaves the directory harmless, and ReadersBacked carries  *)
(* it to what readers saw.  A loss of the whole directory takes all of it  *)
(* at once, and the invariant starts over.                                 *)
(***************************************************************************)
EXTENDS RunLog, SequenceTheorems, TLAPS

-----------------------------------------------------------------------------
(* Prefixes of a log *)

\* Appending an event leaves every earlier prefix alone.
LEMMA PrefixOfAppend ==
    ASSUME NEW S, NEW s \in Seq(S), NEW e \in S, NEW k \in 0..Len(s)
    PROVE  SubSeq(Append(s, e), 1, k) = SubSeq(s, 1, k)
<1>1. /\ Append(s, e) \in Seq(S)
      /\ Len(Append(s, e)) = Len(s) + 1
      /\ \A i \in 1..Len(s) : Append(s, e)[i] = s[i]
  OBVIOUS
<1>2. /\ SubSeq(s, 1, k) \in Seq(S)
      /\ Len(SubSeq(s, 1, k)) = k
      /\ \A i \in 1..k : SubSeq(s, 1, k)[i] = s[i]
  OBVIOUS
<1>3. /\ SubSeq(Append(s, e), 1, k) \in Seq(S)
      /\ Len(SubSeq(Append(s, e), 1, k)) = k
      /\ \A i \in 1..k : SubSeq(Append(s, e), 1, k)[i] = Append(s, e)[i]
  <2> DEFINE t == Append(s, e)
  <2>1. t \in Seq(S) /\ k \in 0..Len(t)
    BY <1>1
  <2> HIDE DEF t
  <2>2. SubSeq(t, 1, k) \in Seq(S) /\ Len(SubSeq(t, 1, k)) = k
        /\ \A i \in 1..k : SubSeq(t, 1, k)[i] = t[i]
    BY <2>1
  <2> QED BY <2>2 DEF t
<1>4. \A i \in 1..Len(SubSeq(s, 1, k)) : SubSeq(Append(s, e), 1, k)[i] = SubSeq(s, 1, k)[i]
  BY <1>1, <1>2, <1>3
<1> QED BY <1>2, <1>3, <1>4, SeqEqual

\* A prefix of a prefix is a prefix.
LEMMA PrefixOfPrefix ==
    ASSUME NEW S, NEW s \in Seq(S), NEW n \in 0..Len(s), NEW k \in 0..n
    PROVE  SubSeq(SubSeq(s, 1, n), 1, k) = SubSeq(s, 1, k)
<1> DEFINE t == SubSeq(s, 1, n)
<1>1. t \in Seq(S) /\ Len(t) = n /\ \A i \in 1..n : t[i] = s[i]
  OBVIOUS
<1>2. SubSeq(s, 1, k) \in Seq(S) /\ Len(SubSeq(s, 1, k)) = k
      /\ \A i \in 1..k : SubSeq(s, 1, k)[i] = s[i]
  OBVIOUS
<1> HIDE DEF t
<1>3. SubSeq(t, 1, k) \in Seq(S) /\ Len(SubSeq(t, 1, k)) = k
      /\ \A i \in 1..k : SubSeq(t, 1, k)[i] = t[i]
  BY <1>1
<1>4. \A i \in 1..Len(SubSeq(s, 1, k)) : SubSeq(t, 1, k)[i] = SubSeq(s, 1, k)[i]
  BY <1>1, <1>2, <1>3
<1>5. SubSeq(t, 1, k) = SubSeq(s, 1, k)
  BY <1>2, <1>3, <1>4, SeqEqual
<1> QED BY <1>5 DEF t

-----------------------------------------------------------------------------
(* The snapshot of a history *)

\* What the transition table and the observations allow before a terminal state.
ReasonOnlyWhenTerminal(h) ==
    \A i \in DOMAIN h : h[i].to \notin Terminal => h[i].reason = "none"

\* A writer computes the snapshot step by step; on a valid history that is the
\* snapshot the whole history leads to.
LEMMA ApplyIsSnapshot ==
    ASSUME NEW h \in Seq(Events), NEW e \in Events,
           ValidHistory(Append(h, e)), ReasonOnlyWhenTerminal(Append(h, e))
    PROVE  Apply(SnapshotOf(h), e) = SnapshotOf(Append(h, e))
<1> DEFINE n == Len(h)
           g == Append(h, e)
           St(types) == Before(h, n + 1, types)
           Sg(types) == Before(g, n + 2, types)
<1>1. /\ n \in Nat /\ g \in Seq(Events) /\ Len(g) = n + 1 /\ DOMAIN g = 1..(n + 1)
      /\ DOMAIN h = 1..n /\ g[n + 1] = e /\ \A i \in 1..n : g[i] = h[i]
  OBVIOUS
<1>2. \A i \in 1..(n + 1) : EventIsValid(g, i)
  BY <1>1 DEF ValidHistory
<1>3. \A i \in 1..(n + 1) : g[i].to \notin Terminal => g[i].reason = "none"
  BY <1>1 DEF ReasonOnlyWhenTerminal
<1> HIDE DEF n, g
<1>4. \A types : Before(g, n + 1, types) = St(types)
  BY <1>1 DEF Before
<1>5. \A types : Sg(types) = IF e.type \in types THEN St(types) \cup {n + 1} ELSE St(types)
  BY <1>1 DEF Before
<1>6. e.type \in Observations => g[n].to = "validating" /\ e.to = "validating" /\ n # 0
  BY <1>1, <1>2 DEF EventIsValid, FirstIsValid, TransitionIsValid, Allowed, Observations
<1>7. e.type \in Observations => ObservationIsValid(g, n + 1)
  BY <1>1, <1>2, <1>6 DEF EventIsValid
<1>8. \A i \in 1..(n + 1) : g[i].type \in EndTypes =>
          Before(g, i, {"agent.started"}) # {}
  <2> SUFFICES ASSUME NEW i \in 1..(n + 1), g[i].type \in EndTypes
               PROVE  Before(g, i, {"agent.started"}) # {}
    OBVIOUS
  <2>1. EventIsValid(g, i)
    BY <1>2
  <2>2. ObservationIsValid(g, i)
    BY <2>1 DEF EventIsValid, FirstIsValid, TransitionIsValid, Allowed, EndTypes
  <2>3. ProbeRunning(g, i)
    BY <2>2 DEF ObservationIsValid, EndTypes
  <2> QED BY <2>3 DEF ProbeRunning
<1>9. St({"agent.started"}) = {} => St(EndTypes) = {}
  <2> SUFFICES ASSUME NEW i \in St(EndTypes) PROVE St({"agent.started"}) # {}
    OBVIOUS
  <2>1. i \in 1..n /\ g[i].type \in EndTypes
    BY <1>1 DEF Before
  <2>2. Before(g, i, {"agent.started"}) # {}
    BY <1>1, <1>8, <2>1
  <2>3. Before(g, i, {"agent.started"}) \subseteq St({"agent.started"})
    BY <1>1, <2>1 DEF Before
  <2> QED BY <2>2, <2>3
<1> DEFINE s == SnapshotOf(h)
           t == SnapshotOf(g)
           a == Apply(s, e)
           Server == {"server.validated"}
           Start == {"agent.started"}
<1>10. t = [state |-> e.to, run |-> e.run, reason |-> e.reason,
            server |-> Sg(Server) # {},
            session |-> IF Sg(Start) # {} /\ Sg(EndTypes) = {}
                          THEN g[CHOOSE j \in Sg(Start) : TRUE].session ELSE None,
            seq |-> n + 1]
  BY <1>1 DEF SnapshotOf, ProbeRunning
<1>11. n # 0 => s = [state |-> h[n].to, run |-> h[n].run, reason |-> h[n].reason,
                     server |-> St(Server) # {},
                     session |-> IF St(Start) # {} /\ St(EndTypes) = {}
                                   THEN h[CHOOSE j \in St(Start) : TRUE].session ELSE None,
                     seq |-> n]
  BY <1>1 DEF SnapshotOf, ProbeRunning, n
<1>12. n = 0 => s = NoState /\ \A types : St(types) = {}
  BY <1>1 DEF SnapshotOf, Before, n
<1> HIDE DEF s, t
<1>13. a = [state |-> e.to, run |-> e.run,
            reason |-> IF e.type \in Observations THEN s.reason ELSE e.reason,
            server |-> s.server \/ e.type = "server.validated",
            session |-> IF e.type = "agent.started" THEN e.session
                        ELSE IF e.type \in EndTypes THEN None ELSE s.session,
            seq |-> s.seq + 1]
  BY DEF Apply, EndTypes
<1>14. s.seq = n
  BY <1>11, <1>12 DEF NoState
<1>15. e.type \in Observations => s.reason = e.reason
  BY <1>1, <1>3, <1>6, <1>11 DEF Terminal
<1>16. (s.server \/ e.type = "server.validated") <=> Sg(Server) # {}
  <2>1. s.server <=> St(Server) # {}
    <3>1. CASE n = 0
      BY <1>12, <3>1 DEF NoState
    <3>2. CASE n # 0
      <4> DEFINE b == St(Server) # {}
                 c == IF St(Start) # {} /\ St(EndTypes) = {}
                        THEN h[CHOOSE j \in St(Start) : TRUE].session ELSE None
      <4>1. s = [state |-> h[n].to, run |-> h[n].run, reason |-> h[n].reason,
                 server |-> b, session |-> c, seq |-> n]
        BY <1>11, <3>2
      <4> HIDE DEF b, c
      <4>2. s.server = b
        BY <4>1
      <4> QED BY <4>2 DEF b
    <3> QED BY <3>1, <3>2
  <2> QED BY <2>1, <1>5
<1>17. a.session = t.session
  <2>1. s.session = IF St(Start) # {} /\ St(EndTypes) = {}
                      THEN h[CHOOSE j \in St(Start) : TRUE].session ELSE None
    BY <1>11, <1>12 DEF NoState
  <2>2. CASE e.type = "agent.started"
    <3>1. St(Start) = {}
      BY <1>1, <1>4, <1>7, <2>2 DEF ObservationIsValid, Observations, EndTypes
    <3>2. Sg(Start) = {n + 1} /\ Sg(EndTypes) = {}
      BY <1>5, <1>9, <2>2, <3>1 DEF EndTypes
    <3>3. t.session = g[CHOOSE j \in {n + 1} : TRUE].session
      BY <1>10, <3>2
    <3> QED BY <1>1, <1>13, <2>2, <3>3
  <2>3. CASE e.type \in EndTypes
    <3>1. Sg(EndTypes) # {}
      BY <1>5, <2>3
    <3> QED BY <1>10, <1>13, <2>3, <3>1 DEF EndTypes
  <2>4. CASE e.type # "agent.started" /\ e.type \notin EndTypes
    <3>1. Sg(Start) = St(Start) /\ Sg(EndTypes) = St(EndTypes)
      BY <1>5, <2>4
    <3>2. St(Start) # {} =>
              h[CHOOSE j \in St(Start) : TRUE].session = g[CHOOSE j \in St(Start) : TRUE].session
      <4>1. \A j \in St(Start) : h[j] = g[j]
        BY <1>1 DEF Before
      <4> QED BY <4>1
    <3>3. a.session = s.session
      BY <1>13, <2>4
    <3>4. t.session = IF St(Start) # {} /\ St(EndTypes) = {}
                        THEN g[CHOOSE j \in St(Start) : TRUE].session ELSE None
      <4>1. t.session = IF Sg(Start) # {} /\ Sg(EndTypes) = {}
                          THEN g[CHOOSE j \in Sg(Start) : TRUE].session ELSE None
        BY <1>10
      <4> HIDE DEF Sg, St
      <4> QED BY <3>1, <4>1, Zenon
    <3>5. CASE St(Start) # {} /\ St(EndTypes) = {}
      BY <2>1, <3>2, <3>3, <3>4, <3>5
    <3>6. CASE ~(St(Start) # {} /\ St(EndTypes) = {})
      <4>1. s.session = None
        BY <2>1, <3>6
      <4>2. t.session = None
        BY <3>4, <3>6
      <4> QED BY <3>3, <4>1, <4>2
    <3> QED BY <3>5, <3>6
  <2> QED BY <2>2, <2>3, <2>4
<1>18. a = t
  BY <1>10, <1>13, <1>14, <1>15, <1>16, <1>17
<1> QED BY <1>18 DEF s, t, g

\* Its sequence number is the length of the history.
LEMMA SnapshotLength ==
    /\ SnapshotOf(<< >>) = NoState
    /\ \A h : SnapshotOf(h).seq = Len(h)
<1>1. SnapshotOf(<< >>) = NoState
  BY DEF SnapshotOf
<1>2. ASSUME NEW h, h # << >> PROVE SnapshotOf(h).seq = Len(h)
  BY <1>2 DEF SnapshotOf
<1> QED BY <1>1, <1>2 DEF NoState

-----------------------------------------------------------------------------
(* The inductive invariant *)

\* Events exist only in a file that exists, and the synced ones are a prefix.
LogShape ==
    /\ entry = "absent" => log = << >>
    /\ synced <= Len(log)
    /\ ReasonOnlyWhenTerminal(log)

\* Only the holder of the exclusive lock is inside the critical section.
OneWriter == \A w \in Writers : pc[w] # "idle" => holder = w

\* A snapshot that has reached its name is behind nothing that could be lost.
Backed(s) ==
    /\ s.seq <= synced
    /\ s = SnapshotOf(SubSeq(log, 1, s.seq))
    /\ s # NoState => entry = "durable"

SnapshotsBacked == Backed(st) /\ Backed(stOnDisk)

\* What the writer in a critical section has made of its event so far.
PlanFits ==
    \A w \in Writers :
        /\ pc[w] \in WriteSteps => plan[w] \in [event: Events, snapshot: States]
        /\ pc[w] = "create" => entry = "absent"
        /\ pc[w] \in {"create", "append"} =>
              /\ ReasonOnlyWhenTerminal(Append(log, plan[w].event))
              /\ plan[w].snapshot = SnapshotOf(Append(log, plan[w].event))
        /\ pc[w] \in {"append", "fsyncLog", "fsyncLogDir"} => entry # "absent"
        /\ pc[w] \in {"fsyncLog", "fsyncLogDir", "stage", "install"} =>
              log # << >> /\ plan[w].snapshot = SnapshotOf(log)
        /\ pc[w] \in {"fsyncLogDir", "stage", "install"} => synced = Len(log)
        /\ pc[w] \in {"stage", "install"} => entry = "durable"

Acknowledgements == acknowledged <= st.seq /\ acknowledged <= stOnDisk.seq

\* What readers have seen is as safe as a snapshot.
ReadersBacked ==
    /\ \A r \in Readers :
          view[r].st.seq <= synced /\ (view[r].st # NoState => entry = "durable")
    /\ Len(seen) <= synced /\ SubSeq(log, 1, Len(seen)) = seen
    /\ seen # << >> => entry = "durable"

IInv ==
    /\ TypeOK
    /\ LogShape
    /\ OneWriter
    /\ SnapshotsBacked
    /\ PlanFits
    /\ Acknowledgements
    /\ ReadersBacked

-----------------------------------------------------------------------------
(* Preservation *)

\* What a writer plans extends the history the snapshot stands for.
LEMMA PlanCorrect ==
    ASSUME IInv, NEW r \in Requests, MayWrite(st, log, entry # "absent", r),
           NEW e, e = NextEvent(st, r)
    PROVE  /\ e \in Events /\ Apply(st, e) \in States
           /\ ReasonOnlyWhenTerminal(Append(log, e))
           /\ Apply(st, e) = SnapshotOf(Append(log, e))
<1>1. log \in Seq(Events) /\ st \in States
  BY DEF IInv, TypeOK
<1>2. st = SnapshotOf(SubSeq(log, 1, st.seq)) /\ ReasonOnlyWhenTerminal(log)
  BY DEF IInv, SnapshotsBacked, Backed, LogShape
<1>3. st = SnapshotOf(log) /\ (r.kind # "initial" => st.run \in Runs)
      /\ (r.kind = "initial" => st = NoState /\ log = << >>)
  <2>1. CASE r.kind = "initial"
    BY <2>1, SnapshotLength DEF MayWrite, IInv, LogShape
  <2>2. CASE r.kind # "initial"
    <3>1. PairAgrees(st, log)
      BY <2>2 DEF MayWrite, Requests
    <3>2. Len(log) = st.seq /\ log # << >> /\ st.run = log[Len(log)].run
      BY <3>1 DEF PairAgrees, ValidHistory
    <3>3. SubSeq(log, 1, st.seq) = log
      BY <1>1, <3>2, SubSeqFull
    <3>4. log[Len(log)] \in Events
      BY <1>1, <3>2
    <3> QED BY <1>2, <2>2, <3>2, <3>3, <3>4 DEF Events
  <2> QED BY <2>1, <2>2
<1>4. e \in Events /\ (e.to \notin Terminal => e.reason = "none")
  <2>1. CASE r.kind = "initial"
    BY <2>1 DEF NextEvent, Requests, Events, EventTypes, WorkflowStates, Reasons
  <2>2. CASE r.kind = "transition"
    <3>1. Allowed(st.state, r.to) \in EventTypes
      BY <2>2 DEF MayWrite, Allowed, EventTypes
    <3>2. r.to \in WorkflowStates /\ r.reason \in Reasons
          /\ (r.to \notin Terminal => r.reason = "none")
      BY <2>2 DEF Requests, WorkflowStates, Reasons, Terminal
    <3> QED BY <1>3, <2>2, <3>1, <3>2 DEF NextEvent, Events
  <2>3. CASE r.kind = "observe"
    <3>1. r.type \in EventTypes /\ r.session \in Sessions \cup {None}
      BY <2>3 DEF Requests, EventTypes, Observations
    <3> QED BY <1>3, <2>3, <3>1 DEF NextEvent, Events, WorkflowStates, Reasons
  <2> QED BY <2>1, <2>2, <2>3 DEF Requests
<1>5. Apply(st, e) \in States
  BY <1>1, <1>4 DEF Apply, States, Events
<1>6. ReasonOnlyWhenTerminal(Append(log, e))
  BY <1>1, <1>2, <1>4 DEF ReasonOnlyWhenTerminal
<1>7. ValidHistory(Append(log, e))
  <2>1. CASE r.kind = "initial"
    <3>1. FirstIsValid(e)
      BY <2>1 DEF NextEvent, FirstIsValid
    <3>2. Append(log, e) = << e >>
      BY <1>3, <2>1
    <3> QED BY <3>1, <3>2 DEF ValidHistory, EventIsValid
  <2>2. CASE r.kind # "initial"
    BY <2>2 DEF MayWrite, Requests
  <2> QED BY <2>1, <2>2
<1> QED BY <1>1, <1>3, <1>4, <1>5, <1>6, <1>7, ApplyIsSnapshot

\* Locking and releasing, and what readers do, leave the files alone.
LEMMA FilesUntouched ==
    ASSUME IInv, UNCHANGED <<log, entry, synced, st, stOnDisk, acknowledged>>
    PROVE  LogShape' /\ SnapshotsBacked' /\ Acknowledgements'
BY DEF IInv, LogShape, ReasonOnlyWhenTerminal, SnapshotsBacked, Backed, Acknowledgements

\* A reader that accepts the log has seen what was synced.
LEMMA ReaderStepIInv == ASSUME IInv, NEW r \in Readers, ReaderStep(r) PROVE IInv'
<1> USE DEF IInv, TypeOK
<1>1. /\ UNCHANGED <<directory, log, torn, entry, synced, st, links, stOnDisk, settled,
                     holder, plan, acknowledged, faults, crashes, powerLosses>>
      /\ \A w \in Writers : pc'[w] = pc[w]
  BY LogAssumption DEF LogAssumption, ReaderStep, LockShared, ReadWithoutLock,
     CheckExistence, ReadState, ReadEvents, Conclude, Goto, logVars, stVars, readVars, budget
<1>2. LogShape' /\ SnapshotsBacked' /\ Acknowledgements'
  BY <1>1, FilesUntouched
<1>3. OneWriter' /\ PlanFits'
  BY <1>1 DEF OneWriter, PlanFits, WriteSteps
<1>4. pc' \in [Writers \cup Readers -> WriterSteps \cup ReaderSteps]
  BY DEF ReaderStep, LockShared, ReadWithoutLock, CheckExistence, ReadState, ReadEvents,
     Conclude, Goto, ReaderSteps
<1>5. /\ view' \in [Readers -> [locked: BOOLEAN, st: States]]
      /\ \A q \in Readers :
            view'[q].st.seq <= synced /\ (view'[q].st # NoState => entry = "durable")
  <2> USE DEF ReadersBacked
  <2>0. NoState \in States /\ NoState.seq <= synced
    BY DEF NoState, States, Reasons
  <2>1. NoView \in [locked: BOOLEAN, st: States] /\ NoView.st = NoState
    <3> HIDE DEF NoState
    <3> QED BY <2>0 DEF NoView
  <2>2. st.seq <= synced /\ (st # NoState => entry = "durable")
    BY DEF SnapshotsBacked, Backed
  <2>3. CASE LockShared(r)
    <3> DEFINE v == [NoView EXCEPT !.locked = TRUE]
    <3>1. v \in [locked: BOOLEAN, st: States] /\ v.st = NoState
      BY <2>1
    <3>2. view' = [view EXCEPT ![r] = v]
      BY <2>3 DEF LockShared
    <3> HIDE DEF v
    <3> QED BY <2>0, <3>1, <3>2
  <2>4. CASE ReadWithoutLock(r) BY <2>4 DEF ReadWithoutLock, readVars
  <2>5. CASE view' = [view EXCEPT ![r] = NoView] BY <2>0, <2>1, <2>5
  <2>6. CASE view' = [view EXCEPT ![r].st = st] BY <2>2, <2>6
  <2>7. CASE view' = view BY <2>7
  <2>8. CheckExistence(r) \/ ReadState(r) \/ ReadEvents(r) =>
            \/ view' = [view EXCEPT ![r] = NoView]
            \/ view' = [view EXCEPT ![r].st = st]
            \/ view' = view
    BY DEF CheckExistence, ReadState, ReadEvents, Conclude
  <2> QED BY <2>3, <2>4, <2>5, <2>6, <2>7, <2>8 DEF ReaderStep
<1>6. /\ seen' \in Seq(Events)
      /\ Len(seen') <= synced /\ SubSeq(log, 1, Len(seen')) = seen'
      /\ seen' # << >> => entry = "durable"
  <2>1. seen' = seen \/ (seen' = log /\ ReaderAccepts(view[r].st, log))
    BY DEF ReaderStep, LockShared, ReadWithoutLock, CheckExistence, ReadState, ReadEvents,
       readVars
  <2>2. CASE seen' = seen
    BY <2>2 DEF ReadersBacked
  <2>3. CASE seen' = log /\ ReaderAccepts(view[r].st, log)
    <3>1. view[r].st # NoState /\ Len(log) = view[r].st.seq
      BY <2>3 DEF ReaderAccepts, PairAgrees
    <3>2. SubSeq(log, 1, Len(log)) = log
      BY SubSeqFull
    <3> QED BY <2>3, <3>1, <3>2 DEF ReadersBacked
  <2> QED BY <2>1, <2>2, <2>3
<1>7. ReadersBacked'
  BY <1>1, <1>5, <1>6 DEF ReadersBacked
<1>8. TypeOK'
  BY <1>1, <1>4, <1>5, <1>6
<1> QED BY <1>2, <1>3, <1>7, <1>8

\* Locking, planning and unlocking change no file.
LEMMA BracketIInv ==
    ASSUME IInv, NEW w \in Writers,
           Lock(w) \/ Release(w) \/ (\E r \in Requests : Plan(w, r))
    PROVE  IInv'
<1> USE DEF IInv, TypeOK
<1>1. /\ UNCHANGED <<log, torn, entry, synced, st, links, stOnDisk, settled, view, seen,
                     acknowledged, faults, crashes, powerLosses>>
      /\ LogShape' /\ SnapshotsBacked' /\ Acknowledgements'
      /\ directory' \in {"absent", "cached", "durable"}
  BY FilesUntouched DEF Lock, Release, Plan, MakeDirectory, logVars, stVars, readVars, budget
<1>2. ReadersBacked'
  BY <1>1 DEF ReadersBacked
<1>3. CASE Lock(w)
  <2>1. OneWriter' /\ PlanFits'
    BY <1>3, LogAssumption DEF Lock, Goto, OneWriter, PlanFits, WriteSteps, LogAssumption
  <2>2. TypeOK'
    BY <1>1, <1>3 DEF Lock, Goto, WriterSteps
  <2> QED BY <1>1, <1>2, <2>1, <2>2
<1>4. CASE Release(w)
  <2>1. OneWriter' /\ PlanFits'
    BY <1>4 DEF Release, Goto, OneWriter, PlanFits, WriteSteps
  <2>2. TypeOK'
    BY <1>1, <1>4 DEF Release, Goto, WriterSteps
  <2> QED BY <1>1, <1>2, <2>1, <2>2
<1>5. ASSUME NEW r \in Requests, Plan(w, r) PROVE IInv'
  <2> DEFINE e == NextEvent(st, r)
             step == IF r.kind = "initial" THEN "create" ELSE "append"
             p == [event |-> e, snapshot |-> Apply(st, e)]
  <2>1. holder' = holder /\ holder = w /\ \A v \in Writers \ {w} : pc[v] = "idle"
    BY <1>5 DEF Plan, OneWriter
  <2>2. CASE /\ r.kind = "initial" \/ entry # "absent"
             /\ MayWrite(st, log, entry # "absent", r)
             /\ plan' = [plan EXCEPT ![w] = p]
             /\ pc' = [pc EXCEPT ![w] = step]
    <3>1. /\ p \in [event: Events, snapshot: States]
          /\ p.event = e /\ p.snapshot = Apply(st, e)
          /\ ReasonOnlyWhenTerminal(Append(log, e))
          /\ p.snapshot = SnapshotOf(Append(log, e))
      BY <2>2, PlanCorrect
    <3>2. step \in {"create", "append"}
          /\ (step = "create" => entry = "absent") /\ (step = "append" => entry # "absent")
      BY <2>2 DEF MayWrite
    <3> HIDE DEF p, step, e
    <3>3. plan'[w] = p /\ pc'[w] = step /\ \A v \in Writers \ {w} : pc'[v] = "idle"
      BY <2>1, <2>2
    <3>4. OneWriter'
      BY <2>1, <3>3 DEF OneWriter
    <3>5. PlanFits'
      BY <1>1, <3>1, <3>2, <3>3 DEF PlanFits, WriteSteps
    <3>6. TypeOK'
      BY <1>1, <2>1, <2>2, <3>1, <3>2 DEF WriterSteps, WriteSteps
    <3> QED BY <1>1, <1>2, <3>4, <3>5, <3>6
  <2>3. CASE pc' = [pc EXCEPT ![w] = "release"] /\ plan' = plan
    <3>1. OneWriter' /\ PlanFits'
      BY <2>1, <2>3 DEF OneWriter, PlanFits, WriteSteps
    <3>2. TypeOK'
      BY <1>1, <2>1, <2>3 DEF WriterSteps
    <3> QED BY <1>1, <1>2, <3>1, <3>2
  <2> QED BY <1>5, <2>2, <2>3 DEF Plan, Goto
<1> QED BY <1>3, <1>4, <1>5

FileStep(w) ==
    \/ CreateLog(w) \/ AppendEvent(w) \/ FsyncLog(w) \/ FsyncLogDirectory(w) \/ StageState(w)
    \/ InstallState(w) \/ FsyncStateDirectory(w) \/ UnlinkStaged(w) \/ FsyncUnlink(w)

\* What all system calls of a writer have in common, failing or not.
LEMMA FileStepFrame ==
    ASSUME IInv, NEW w \in Writers, FileStep(w)
    PROVE  /\ UNCHANGED <<directory, holder, plan, view, seen, crashes, powerLosses>>
           /\ pc[w] \in WriteSteps
           /\ \A v \in Writers \ {w} : pc'[v] = "idle"
           /\ pc' \in [Writers \cup Readers -> WriterSteps \cup ReaderSteps]
           /\ faults' \in 0..MaxFaults
           /\ OneWriter'
<1> USE DEF IInv, TypeOK
<1>1. /\ UNCHANGED <<directory, holder, plan, view, seen, crashes, powerLosses>>
      /\ pc[w] \in WriteSteps
      /\ \E x \in WriterSteps : pc' = [pc EXCEPT ![w] = x]
  <2> USE DEF Goto, Fault, logVars, readVars, budget, WriteSteps, WriterSteps
  <2>1. CASE CreateLog(w) BY <2>1 DEF CreateLog
  <2>2. CASE AppendEvent(w) BY <2>2 DEF AppendEvent
  <2>3. CASE FsyncLog(w) BY <2>3 DEF FsyncLog
  <2>4. CASE FsyncLogDirectory(w) BY <2>4 DEF FsyncLogDirectory
  <2>5. CASE StageState(w) BY <2>5 DEF StageState
  <2>6. CASE InstallState(w) BY <2>6 DEF InstallState
  <2>7. CASE FsyncStateDirectory(w) BY <2>7 DEF FsyncStateDirectory
  <2>8. CASE UnlinkStaged(w) BY <2>8 DEF UnlinkStaged
  <2>9. CASE FsyncUnlink(w) BY <2>9 DEF FsyncUnlink
  <2> QED BY <2>1, <2>2, <2>3, <2>4, <2>5, <2>6, <2>7, <2>8, <2>9 DEF FileStep
<1>2. faults' = faults \/ (faults < MaxFaults /\ faults' = faults + 1)
  <2> USE DEF Fault, budget
  <2>1. CASE CreateLog(w) \/ AppendEvent(w) \/ FsyncLog(w) \/ FsyncLogDirectory(w)
    BY <2>1 DEF CreateLog, AppendEvent, FsyncLog, FsyncLogDirectory
  <2>2. CASE StageState(w) \/ InstallState(w) \/ FsyncStateDirectory(w) \/ UnlinkStaged(w)
             \/ FsyncUnlink(w)
    BY <2>2 DEF StageState, InstallState, FsyncStateDirectory, UnlinkStaged, FsyncUnlink
  <2> QED BY <2>1, <2>2 DEF FileStep
<1>3. holder = w /\ \A v \in Writers \ {w} : pc[v] = "idle"
  BY <1>1 DEF OneWriter, WriteSteps
<1>4. \A v \in Writers \ {w} : pc'[v] = "idle"
  BY <1>1, <1>3
<1>5. OneWriter'
  BY <1>1, <1>3, <1>4 DEF OneWriter
<1>6. faults' \in 0..MaxFaults
  BY <1>2, LogAssumption DEF LogAssumption
<1> QED BY <1>1, <1>4, <1>5, <1>6

\* An fsync can only make more of the record safe.
LEMMA BackingGrows ==
    ASSUME IInv, UNCHANGED <<log, st, seen, view>>,
           synced' \in synced..Len(log), entry = "durable" => entry' = "durable",
           entry' # entry => entry' # "absent",
           stOnDisk' \in {st, stOnDisk},
           acknowledged' = acknowledged \/ (acknowledged' = st.seq /\ stOnDisk' = st)
    PROVE  LogShape' /\ SnapshotsBacked' /\ Acknowledgements' /\ ReadersBacked'
<1> USE DEF IInv, TypeOK
<1>1. LogShape'
  BY DEF LogShape, ReasonOnlyWhenTerminal
<1>2. SnapshotsBacked'
  <2>1. st \in States /\ stOnDisk \in States /\ st.seq \in Nat /\ stOnDisk.seq \in Nat
    BY DEF States
  <2> QED BY <2>1 DEF SnapshotsBacked, Backed
<1>3. Acknowledgements'
  <2>1. acknowledged <= st.seq /\ acknowledged <= stOnDisk.seq /\ st.seq \in Nat
    BY DEF Acknowledgements, States
  <2>2. CASE acknowledged' = acknowledged
    BY <2>1, <2>2 DEF Acknowledgements
  <2>3. CASE acknowledged' = st.seq /\ stOnDisk' = st
    BY <2>1, <2>3 DEF Acknowledgements
  <2> QED BY <2>2, <2>3
<1>4. ReadersBacked'
  <2>1. \A r \in Readers : view[r].st.seq \in Nat
    BY DEF States
  <2>2. Len(seen) \in Nat
    OBVIOUS
  <2> QED BY <2>1, <2>2 DEF ReadersBacked
<1> QED BY <1>1, <1>2, <1>3, <1>4

\* Every system call of a writer, failing or not, keeps what the next one relies on.
LEMMA FileStepIInv == ASSUME IInv, NEW w \in Writers, FileStep(w) PROVE IInv'
<1> USE DEF IInv, TypeOK
<1>1. /\ UNCHANGED <<directory, holder, plan, view, seen, crashes, powerLosses>>
      /\ \A v \in Writers \ {w} : pc'[v] = "idle"
      /\ pc' \in [Writers \cup Readers -> WriterSteps \cup ReaderSteps]
      /\ faults' \in 0..MaxFaults
      /\ pc[w] \in WriteSteps /\ OneWriter'
  BY FileStepFrame
<1>2. /\ log \in Seq(Events) /\ Len(log) \in Nat /\ synced \in 0..Len(log)
      /\ entry = "absent" => log = << >> /\ synced = 0
  BY DEF LogShape
<1>3. CASE CreateLog(w)
  <2>1. entry = "absent" /\ entry' = "cached" /\ pc'[w] = "append" /\ pc[w] = "create"
        /\ UNCHANGED <<log, torn, synced, st, links, stOnDisk, settled, acknowledged>>
    BY <1>3 DEF CreateLog, Goto, PlanFits, stVars
  <2>2. LogShape' /\ SnapshotsBacked' /\ Acknowledgements' /\ ReadersBacked'
    BY <1>1, <1>2, <2>1, BackingGrows
  <2>3. PlanFits'
    BY <1>1, <2>1 DEF PlanFits, WriteSteps
  <2>4. TypeOK'
    BY <1>1, <2>1
  <2> QED BY <1>1, <2>2, <2>3, <2>4
<1>4. CASE AppendEvent(w)
  <2>1. UNCHANGED <<entry, synced, st, links, stOnDisk, settled, acknowledged>>
        /\ pc[w] = "append" /\ torn' \in BOOLEAN
    BY <1>4 DEF AppendEvent, stVars
  <2>2. CASE log' = log /\ pc'[w] = "release"
    <3>1. LogShape' /\ SnapshotsBacked' /\ Acknowledgements'
      BY <2>1, <2>2, FilesUntouched
    <3>2. ReadersBacked'
      BY <1>1, <2>1, <2>2 DEF ReadersBacked
    <3>3. PlanFits'
      BY <1>1, <2>2 DEF PlanFits, WriteSteps
    <3>4. TypeOK'
      BY <1>1, <2>1, <2>2
    <3> QED BY <1>1, <3>1, <3>2, <3>3, <3>4
  <2>3. CASE log' = Append(log, plan[w].event) /\ pc'[w] = "fsyncLog"
    <3> DEFINE e == plan[w].event
    <3>1. /\ entry # "absent" /\ e \in Events
          /\ plan[w] \in [event: Events, snapshot: States]
          /\ ReasonOnlyWhenTerminal(Append(log, e))
          /\ plan[w].snapshot = SnapshotOf(Append(log, e))
      BY <2>1 DEF PlanFits, WriteSteps
    <3> HIDE DEF e
    <3>2. /\ log' \in Seq(Events) /\ Len(log') = Len(log) + 1 /\ log' # << >>
          /\ \A k \in 0..Len(log) : SubSeq(log', 1, k) = SubSeq(log, 1, k)
      BY <2>3, <3>1, PrefixOfAppend DEF e
    <3>3. LogShape'
      BY <1>2, <2>1, <2>3, <3>1, <3>2 DEF LogShape, e
    <3>4. SnapshotsBacked'
      <4>1. st.seq \in 0..Len(log) /\ stOnDisk.seq \in 0..Len(log)
        BY <1>2 DEF SnapshotsBacked, Backed, States
      <4> QED BY <2>1, <3>2, <4>1 DEF SnapshotsBacked, Backed
    <3>5. Acknowledgements'
      BY <2>1 DEF Acknowledgements
    <3>6. ReadersBacked'
      <4>1. Len(seen) \in 0..Len(log)
        BY <1>2 DEF ReadersBacked
      <4> QED BY <1>1, <2>1, <3>2, <4>1 DEF ReadersBacked
    <3>7. PlanFits'
      BY <1>1, <2>1, <2>3, <3>1, <3>2 DEF PlanFits, WriteSteps, e
    <3>8. TypeOK'
      BY <1>1, <2>1, <3>2
    <3> QED BY <1>1, <3>3, <3>4, <3>5, <3>6, <3>7, <3>8
  <2> QED BY <1>4, <2>2, <2>3 DEF AppendEvent, Goto, Fault
<1>5. CASE FsyncLog(w)
  <2>1. UNCHANGED <<log, torn, entry, st, links, stOnDisk, settled, acknowledged>>
        /\ pc[w] = "fsyncLog"
        /\ \/ synced' = Len(log) /\ pc'[w] = "fsyncLogDir"
           \/ synced' = synced /\ pc'[w] = "release"
    BY <1>5 DEF FsyncLog, Fault, Goto, stVars
  <2>2. LogShape' /\ SnapshotsBacked' /\ Acknowledgements' /\ ReadersBacked'
    BY <1>1, <1>2, <2>1, BackingGrows
  <2>3. PlanFits'
    BY <1>1, <2>1 DEF PlanFits, WriteSteps
  <2>4. TypeOK'
    BY <1>1, <1>2, <2>1
  <2> QED BY <1>1, <2>2, <2>3, <2>4
<1>6. CASE FsyncLogDirectory(w)
  <2>1. /\ UNCHANGED <<log, torn, synced, st, links, acknowledged>>
        /\ pc[w] = "fsyncLogDir" /\ entry # "absent"
        /\ stOnDisk' \in {st, stOnDisk} /\ settled' \in BOOLEAN
        /\ \/ entry' = "durable" /\ pc'[w] = "stage"
           \/ entry' = entry /\ pc'[w] = "release"
    BY <1>6 DEF FsyncLogDirectory, SyncDirectory, Fault, Goto, PlanFits
  <2>2. LogShape' /\ SnapshotsBacked' /\ Acknowledgements' /\ ReadersBacked'
    BY <1>1, <1>2, <2>1, BackingGrows
  <2>3. PlanFits'
    BY <1>1, <2>1 DEF PlanFits, WriteSteps
  <2>4. TypeOK'
    BY <1>1, <2>1
  <2> QED BY <1>1, <2>2, <2>3, <2>4
<1>7. CASE StageState(w)
  <2>1. /\ UNCHANGED <<log, torn, entry, synced, st, links, stOnDisk, settled, acknowledged>>
        /\ pc[w] = "stage" /\ pc'[w] \in {"install", "release"}
    BY <1>7 DEF StageState, Fault, Goto, logVars, stVars
  <2>2. LogShape' /\ SnapshotsBacked' /\ Acknowledgements' /\ ReadersBacked'
    BY <1>1, <1>2, <2>1, BackingGrows
  <2>3. PlanFits'
    BY <1>1, <2>1 DEF PlanFits, WriteSteps
  <2>4. TypeOK'
    BY <1>1, <2>1
  <2> QED BY <1>1, <2>2, <2>3, <2>4
<1>8. CASE InstallState(w)
  <2>1. /\ UNCHANGED <<log, torn, entry, synced, stOnDisk, acknowledged>>
        /\ pc[w] = "install" /\ pc'[w] \in {"fsyncStateDir", "release"}
        /\ st' \in {st, plan[w].snapshot} /\ links' \in 0..2 /\ settled' \in BOOLEAN
    <3>1. /\ UNCHANGED <<log, torn, entry, synced, stOnDisk, acknowledged>>
          /\ pc[w] = "install" /\ pc'[w] \in {"fsyncStateDir", "release"}
          /\ st' \in {st, plan[w].snapshot}
      BY <1>8 DEF InstallState, Fault, Goto, logVars
    <3>2. links' \in 0..2 /\ (settled' = FALSE \/ settled' = settled)
      BY <1>8 DEF InstallState
    <3>3. settled' \in BOOLEAN
      BY <3>2, Zenon
    <3> QED BY <3>1, <3>2, <3>3
  <2>2. /\ plan[w] \in [event: Events, snapshot: States]
        /\ plan[w].snapshot = SnapshotOf(log) /\ synced = Len(log) /\ entry = "durable"
    BY <2>1 DEF PlanFits, WriteSteps
  <2>3. plan[w].snapshot.seq = Len(log) /\ SubSeq(log, 1, Len(log)) = log
    BY <1>2, <2>2, SnapshotLength, SubSeqFull
  <2>4. LogShape' /\ ReadersBacked'
    BY <1>1, <2>1 DEF LogShape, ReasonOnlyWhenTerminal, ReadersBacked
  <2>5. SnapshotsBacked' /\ Acknowledgements'
    <3>1. CASE st' = st
      BY <2>1, <3>1 DEF SnapshotsBacked, Backed, Acknowledgements
    <3>2. CASE st' = plan[w].snapshot
      <4>1. acknowledged <= st.seq /\ st.seq <= synced /\ st.seq \in Nat
        BY DEF SnapshotsBacked, Backed, Acknowledgements, States
      <4>2. st'.seq = Len(log) /\ st' = SnapshotOf(SubSeq(log, 1, st'.seq))
        BY <2>2, <2>3, <3>2
      <4>3. Backed(st)'
        BY <1>2, <2>1, <2>2, <4>2 DEF Backed
      <4>4. Backed(stOnDisk)'
        BY <2>1 DEF SnapshotsBacked, Backed
      <4>5. Acknowledgements'
        BY <1>2, <2>1, <2>2, <4>1, <4>2 DEF Acknowledgements
      <4> QED BY <4>3, <4>4, <4>5 DEF SnapshotsBacked
    <3> QED BY <2>1, <3>1, <3>2
  <2>6. PlanFits'
    BY <1>1, <2>1 DEF PlanFits, WriteSteps
  <2>7. TypeOK'
    BY <1>1, <2>1, <2>2
  <2> QED BY <1>1, <2>4, <2>5, <2>6, <2>7
<1>9. CASE FsyncStateDirectory(w) \/ UnlinkStaged(w) \/ FsyncUnlink(w)
  <2>1. /\ UNCHANGED <<log, torn, synced, st>>
        /\ entry' = entry \/ entry' = (IF entry = "absent" THEN "absent" ELSE "durable")
        /\ stOnDisk' \in {st, stOnDisk} /\ links' \in 0..2 /\ settled' \in BOOLEAN
        /\ acknowledged' = acknowledged \/ (acknowledged' = st.seq /\ stOnDisk' = st)
        /\ pc'[w] \in {"unlink", "fsyncUnlink", "release"}
    <3> USE DEF Fault, Goto, SyncDirectory, logVars
    <3>1. CASE FsyncStateDirectory(w)
      <4>1. /\ UNCHANGED <<log, torn, synced, st, acknowledged>>
            /\ links' \in {links, 1} /\ pc'[w] \in {"unlink", "release"}
        BY <3>1 DEF FsyncStateDirectory
      <4>2. CASE SyncDirectory
        BY <4>1, <4>2
      <4>3. CASE UNCHANGED <<entry, stOnDisk, settled>>
        BY <4>1, <4>3
      <4> QED BY <3>1, <4>2, <4>3 DEF FsyncStateDirectory
    <3>2. CASE UnlinkStaged(w)
      <4>1. settled' = FALSE \/ settled' = (settled /\ links' = links)
        BY <3>2 DEF UnlinkStaged
      <4>2. settled' \in BOOLEAN
        BY <4>1, Zenon
      <4>3. pc'[w] \in {"fsyncUnlink", "release"} /\ links' \in {links, 1}
            /\ UNCHANGED <<log, torn, synced, st, entry, stOnDisk, acknowledged>>
        BY <3>2 DEF UnlinkStaged
      <4> QED BY <4>2, <4>3
    <3>3. CASE FsyncUnlink(w)
      <4>1. UNCHANGED <<log, torn, synced, st, links>> /\ pc'[w] = "release"
        BY <3>3 DEF FsyncUnlink
      <4>2. CASE SyncDirectory /\ acknowledged' = st.seq
        BY <4>1, <4>2
      <4>3. CASE UNCHANGED <<entry, stOnDisk, settled, acknowledged>>
        BY <4>1, <4>3
      <4> QED BY <3>3, <4>2, <4>3 DEF FsyncUnlink
    <3> QED BY <1>9, <3>1, <3>2, <3>3
  <2>2. LogShape' /\ SnapshotsBacked' /\ Acknowledgements' /\ ReadersBacked'
    BY <1>1, <1>2, <2>1, BackingGrows
  <2>3. PlanFits'
    BY <1>1, <2>1 DEF PlanFits, WriteSteps
  <2>4. TypeOK'
    <3>1. st.seq \in Nat
      BY DEF States
    <3> QED BY <1>1, <2>1, <3>1
  <2> QED BY <1>1, <2>2, <2>3, <2>4
<1> QED BY <1>3, <1>4, <1>5, <1>6, <1>7, <1>8, <1>9 DEF FileStep

\* A process that dies leaves the files as they are.
LEMMA CrashIInv == ASSUME IInv, NEW p \in Writers \cup Readers, Crash(p) PROVE IInv'
<1> USE DEF IInv, TypeOK
<1>1. /\ UNCHANGED <<directory, log, torn, entry, synced, st, links, stOnDisk, settled, seen,
                     acknowledged, faults, powerLosses>>
      /\ holder' = (IF holder = p THEN None ELSE holder)
      /\ crashes' = crashes + 1 /\ crashes < MaxCrashes
      /\ pc' = [pc EXCEPT ![p] = "idle"]
      /\ plan' = [w \in Writers |-> IF w = p THEN NoPlan ELSE plan[w]]
      /\ view' = [r \in Readers |-> IF r = p THEN NoView ELSE view[r]]
  BY DEF Crash, Goto, logVars, stVars
<1>2. LogShape' /\ SnapshotsBacked' /\ Acknowledgements'
  BY <1>1, FilesUntouched
<1>3. NoView \in [locked: BOOLEAN, st: States] /\ NoView.st = NoState /\ NoState.seq = 0
  BY DEF NoView, NoState, States, Reasons
<1>4. ReadersBacked'
  <2>1. \A r \in Readers :
            view'[r].st.seq <= synced /\ (view'[r].st # NoState => entry = "durable")
    BY <1>1, <1>3 DEF ReadersBacked
  <2> QED BY <1>1, <2>1 DEF ReadersBacked
<1>5. OneWriter'
  BY <1>1 DEF OneWriter
<1>6. PlanFits'
  BY <1>1 DEF PlanFits, WriteSteps
<1>7. view' \in [Readers -> [locked: BOOLEAN, st: States]]
  BY <1>1, <1>3
<1>8. plan' \in [Writers -> [event: Events, snapshot: States] \cup {NoPlan}]
  BY <1>1
<1>9. pc' \in [Writers \cup Readers -> WriterSteps \cup ReaderSteps]
  BY <1>1 DEF WriterSteps
<1>10. crashes' \in 0..MaxCrashes
  BY <1>1, LogAssumption DEF LogAssumption
<1>11. TypeOK'
  BY <1>1, <1>7, <1>8, <1>9, <1>10
<1> QED BY <1>2, <1>4, <1>5, <1>6, <1>11

\* A loss of power keeps every snapshot's prefix, because it was synced first, or
\* takes the directory with all there is to keep.
LEMMA PowerLossIInv == ASSUME IInv, PowerLoss PROVE IInv'
<1> USE DEF IInv, TypeOK
<1>1. /\ powerLosses' = powerLosses + 1 /\ powerLosses < MaxPowerLosses
      /\ synced' = Len(log') /\ stOnDisk' = st'
      /\ settled' = TRUE /\ holder' = None
      /\ pc' = [p \in Writers \cup Readers |-> "idle"]
      /\ plan' = [w \in Writers |-> NoPlan]
      /\ view' = [r \in Readers |-> NoView]
      /\ UNCHANGED <<faults, crashes>>
  BY DEF PowerLoss
<1>2. /\ links' \in 0..2 /\ directory' \in {"absent", "cached", "durable"}
      /\ \/ st' \in {st, stOnDisk} /\ UNCHANGED <<seen, acknowledged>>
         \/ st' = NoState /\ seen' = << >> /\ acknowledged' = 0
  <2>1. CASE KeepDirectory
    BY <2>1 DEF KeepDirectory
  <2>2. CASE LoseDirectory
    BY <2>2 DEF LoseDirectory
  <2> QED BY <2>1, <2>2 DEF PowerLoss
<1>3. NoView \in [locked: BOOLEAN, st: States] /\ NoView.st = NoState /\ NoState.seq = 0
      /\ NoState \in States
  BY DEF NoView, NoState, States, Reasons
<1>4. st.seq \in Nat /\ stOnDisk.seq \in Nat /\ st'.seq \in Nat
  BY <1>2, <1>3 DEF States
<1>5. OneWriter' /\ PlanFits' /\ Acknowledgements'
  <2>1. OneWriter' /\ PlanFits'
    BY <1>1 DEF OneWriter, PlanFits, WriteSteps
  <2> HIDE DEF NoState
  <2>2. Acknowledgements'
    BY <1>1, <1>2, <1>3 DEF Acknowledgements
  <2> QED BY <2>1, <2>2
<1>6. /\ pc' \in [Writers \cup Readers -> WriterSteps \cup ReaderSteps]
      /\ plan' \in [Writers -> [event: Events, snapshot: States] \cup {NoPlan}]
      /\ view' \in [Readers -> [locked: BOOLEAN, st: States]]
      /\ powerLosses' \in 0..MaxPowerLosses
      /\ st' \in States /\ stOnDisk' \in States /\ holder' \in Writers \cup {None}
      /\ seen' \in Seq(Events) /\ acknowledged' \in Nat
  <2> HIDE DEF NoState, NoPlan, NoView
  <2>1. st' \in States /\ stOnDisk' \in States /\ acknowledged' \in Nat
    BY <1>1, <1>2, <1>3
  <2>2. seen' \in Seq(Events)
    BY <1>2, EmptySeq
  <2>3. /\ pc' \in [Writers \cup Readers -> WriterSteps \cup ReaderSteps]
        /\ plan' \in [Writers -> [event: Events, snapshot: States] \cup {NoPlan}]
        /\ view' \in [Readers -> [locked: BOOLEAN, st: States]]
        /\ holder' \in Writers \cup {None}
    BY <1>1, <1>3 DEF WriterSteps
  <2>4. powerLosses' \in 0..MaxPowerLosses
    BY <1>1, LogAssumption DEF LogAssumption
  <2> QED BY <2>1, <2>2, <2>3, <2>4
<1>7. CASE /\ entry' = "absent" /\ log' = << >> /\ torn' = FALSE
           /\ st' = NoState /\ seen' = << >>
  <2>1. stOnDisk' = NoState /\ synced' = 0
    BY <1>1, <1>7
  <2>2. LogShape'
    BY <1>7, <2>1 DEF LogShape, ReasonOnlyWhenTerminal
  <2>3. SnapshotsBacked'
    <3>1. SubSeq(<< >>, 1, 0) = << >>
      BY SubSeqEmpty
    <3>2. st'.seq = 0 /\ SubSeq(log', 1, st'.seq) = << >>
      BY <1>3, <1>7, <3>1
    <3>3. st' = SnapshotOf(SubSeq(log', 1, st'.seq))
      BY <1>7, <3>2, SnapshotLength
    <3> HIDE DEF NoState
    <3>4. Backed(st)'
      BY <1>7, <2>1, <3>2, <3>3 DEF Backed
    <3> QED BY <1>1, <3>4 DEF SnapshotsBacked, Backed
  <2>4. ReadersBacked'
    <3>1. SubSeq(<< >>, 1, 0) = << >>
      BY SubSeqEmpty
    <3> QED BY <1>1, <1>3, <1>7, <2>1, <3>1 DEF ReadersBacked
  <2>5. TypeOK'
    <3>1. log' \in Seq(Events) /\ synced' \in Nat
      BY <1>7, <2>1, EmptySeq
    <3>2. torn' \in BOOLEAN
      BY <1>7
    <3>3. settled' \in BOOLEAN
      BY <1>1
    <3>4. entry' \in {"absent", "cached", "durable"}
      BY <1>7
    <3> QED BY <1>1, <1>2, <1>6, <3>1, <3>2, <3>3, <3>4
  <2> QED BY <1>5, <2>2, <2>3, <2>4, <2>5
<1>8. ASSUME entry' = IF entry = "cached" THEN "durable" ELSE entry,
             NEW k \in synced..Len(log), log' = SubSeq(log, 1, k), torn' \in BOOLEAN,
             st' \in {st, stOnDisk}, seen' = seen
      PROVE  IInv'
  <2>1. /\ k \in 0..Len(log) /\ log' \in Seq(Events) /\ Len(log') = k /\ synced' = k
        /\ \A i \in 1..k : log'[i] = log[i]
    BY <1>1, <1>8
  <2>2. \A j \in 0..k : SubSeq(log', 1, j) = SubSeq(log, 1, j)
    BY <1>8, <2>1, PrefixOfPrefix
  <2>3. LogShape'
    BY <1>8, <2>1 DEF LogShape, ReasonOnlyWhenTerminal
  <2>4. SnapshotsBacked'
    <3>1. /\ st'.seq \in 0..k /\ st' = SnapshotOf(SubSeq(log, 1, st'.seq))
          /\ st' # NoState => entry = "durable"
      BY <1>1, <1>4, <1>8 DEF SnapshotsBacked, Backed
    <3>2. SubSeq(log', 1, st'.seq) = SubSeq(log, 1, st'.seq)
      BY <2>2, <3>1
    <3>3. Backed(st)'
      <4>1. st' # NoState => entry' = "durable"
        BY <1>8, <3>1
      <4>2. st'.seq \in Nat /\ st'.seq <= synced'
        BY <2>1, <3>1
      <4>3. st' = SnapshotOf(SubSeq(log', 1, st'.seq))
        BY <3>1, <3>2, Zenon
      <4> QED BY <4>1, <4>2, <4>3 DEF Backed
    <3> QED BY <1>1, <3>3 DEF SnapshotsBacked, Backed
  <2>5. ReadersBacked'
    <3>1. Len(seen) \in 0..k
      BY <1>8 DEF ReadersBacked
    <3> QED BY <1>1, <1>3, <1>8, <2>1, <2>2, <3>1 DEF ReadersBacked
  <2>6. TypeOK'
    BY <1>1, <1>2, <1>6, <1>8, <2>1
  <2> QED BY <1>5, <2>3, <2>4, <2>5, <2>6
<1>9. CASE KeepDirectory
  <2>1. st' \in {st, stOnDisk} /\ seen' = seen
    BY <1>9 DEF KeepDirectory
  <2>2. CASE entry = "cached" /\ entry' = "absent" /\ log' = << >> /\ torn' = FALSE
    <3>1. st' = NoState /\ seen' = << >>
      BY <2>1, <2>2 DEF SnapshotsBacked, Backed, ReadersBacked
    <3> QED BY <1>7, <2>2, <3>1
  <2>3. ASSUME entry' = IF entry = "cached" THEN "durable" ELSE entry,
               NEW k \in synced..Len(log), log' = SubSeq(log, 1, k),
               torn' \in IF k < Len(log) \/ torn THEN BOOLEAN ELSE {FALSE}
        PROVE  IInv'
    BY <1>8, <2>1, <2>3
  <2> QED BY <1>9, <2>2, <2>3 DEF KeepDirectory
<1>10. CASE LoseDirectory
  BY <1>7, <1>10 DEF LoseDirectory
<1> QED BY <1>9, <1>10 DEF PowerLoss

\* The empty run satisfies the invariant.
LEMMA InitIInv == Init => IInv
<1> SUFFICES ASSUME Init PROVE IInv
  OBVIOUS
<1>1. /\ log = << >> /\ synced = 0 /\ st = NoState /\ stOnDisk = NoState /\ entry = "absent"
      /\ seen = << >> /\ acknowledged = 0
      /\ pc = [p \in Writers \cup Readers |-> "idle"]
      /\ plan = [w \in Writers |-> NoPlan] /\ view = [r \in Readers |-> NoView]
  BY DEF Init
<1>2. NoState \in States /\ NoState.seq = 0 /\ NoView.st = NoState
      /\ NoView \in [locked: BOOLEAN, st: States]
  BY DEF NoView, NoState, States, Reasons
<1>3. SubSeq(<< >>, 1, 0) = << >> /\ << >> \in Seq(Events) /\ Len(<< >>) = 0
  BY SubSeqEmpty
<1>4. TypeOK
  <2> HIDE DEF NoState, NoPlan, NoView
  <2>1. log \in Seq(Events) /\ seen \in Seq(Events) /\ synced \in Nat /\ acknowledged \in Nat
        /\ st \in States /\ stOnDisk \in States
        /\ entry \in {"absent", "cached", "durable"}
    BY <1>1, <1>2, <1>3
  <2>2. torn \in BOOLEAN /\ directory \in {"absent", "cached", "durable"}
    BY DEF Init
  <2>3. settled \in BOOLEAN
    BY DEF Init
  <2>4. links \in 0..2 /\ holder \in Writers \cup {None}
    BY DEF Init
  <2>5. /\ pc \in [Writers \cup Readers -> WriterSteps \cup ReaderSteps]
        /\ plan \in [Writers -> [event: Events, snapshot: States] \cup {NoPlan}]
        /\ view \in [Readers -> [locked: BOOLEAN, st: States]]
    BY <1>1, <1>2 DEF WriterSteps
  <2>6. faults \in 0..MaxFaults /\ crashes \in 0..MaxCrashes /\ powerLosses \in 0..MaxPowerLosses
    BY LogAssumption DEF Init, LogAssumption
  <2> QED BY <2>1, <2>2, <2>3, <2>4, <2>5, <2>6 DEF TypeOK
<1>5. LogShape /\ OneWriter /\ PlanFits
  BY <1>1 DEF LogShape, ReasonOnlyWhenTerminal, OneWriter, PlanFits, WriteSteps
<1>6. SnapshotsBacked
  <2>1. st.seq = 0 /\ SubSeq(log, 1, st.seq) = << >> /\ st.seq <= synced
    BY <1>1, <1>2, <1>3
  <2>2. st = SnapshotOf(SubSeq(log, 1, st.seq))
    BY <1>1, <2>1, SnapshotLength
  <2> HIDE DEF NoState
  <2>3. Backed(st)
    BY <1>1, <2>1, <2>2 DEF Backed
  <2> QED BY <1>1, <2>3 DEF SnapshotsBacked
<1>7. Acknowledgements /\ ReadersBacked
  BY <1>1, <1>2, <1>3 DEF Acknowledgements, ReadersBacked
<1> QED BY <1>4, <1>5, <1>6, <1>7 DEF IInv

\* Every step keeps it.
LEMMA StepIInv == IInv /\ [Next]_vars => IInv'
<1> SUFFICES ASSUME IInv, [Next]_vars PROVE IInv'
  OBVIOUS
<1>1. ASSUME NEW w \in Writers, WriterStep(w) PROVE IInv'
  BY <1>1, BracketIInv, FileStepIInv DEF WriterStep, FileStep
<1>2. ASSUME NEW r \in Readers, ReaderStep(r) PROVE IInv'
  BY <1>2, ReaderStepIInv
<1>3. ASSUME NEW p \in Writers \cup Readers, Crash(p) PROVE IInv'
  BY <1>3, CrashIInv
<1>4. CASE PowerLoss
  BY <1>4, PowerLossIInv
<1>5. CASE UNCHANGED vars
  BY <1>5 DEF vars, IInv, TypeOK, LogShape, ReasonOnlyWhenTerminal, OneWriter, SnapshotsBacked,
     Backed, PlanFits, Acknowledgements, ReadersBacked
<1> QED BY <1>1, <1>2, <1>3, <1>4, <1>5 DEF Next

-----------------------------------------------------------------------------
(* Results *)

\* Every variable keeps its type.
THEOREM TypeCorrect == Spec => []TypeOK
<1>1. IInv => TypeOK BY DEF IInv
<1> QED BY InitIInv, StepIInv, <1>1, PTL DEF Spec

\* state.json is at every moment what a prefix of events.jsonl leads to, whatever
\* fails, dies or loses power (append_event_at before write_state_atomic_at).
THEOREM SnapshotFollowsLog == Spec => []StateNeverAhead
<1>1. IInv => StateNeverAhead
  BY DEF IInv, TypeOK, LogShape, SnapshotsBacked, Backed, StateNeverAhead, States
<1> QED BY InitIInv, StepIInv, <1>1, PTL DEF Spec

\* What a transition or an observation reported as done survives every failed call
\* and every death, and a loss of power unless that takes the runtime directory.
THEOREM Durability == Spec => []AcknowledgedSurvives
<1>1. IInv => AcknowledgedSurvives
  BY DEF IInv, TypeOK, LogShape, SnapshotsBacked, Backed, Acknowledgements,
     AcknowledgedSurvives, States
<1> QED BY InitIInv, StepIInv, <1>1, PTL DEF Spec

\* What a reader has accepted every later reader finds, with or without the lock,
\* before and after a loss of power, unless it took the runtime directory and with
\* it the whole run.
THEOREM ReadersAgree == Spec => AcceptedOnlyGrows
<1> DEFINE Grows == Len(seen) <= Len(seen') /\ SubSeq(seen', 1, Len(seen)) = seen
           Gone == powerLosses' # powerLosses /\ directory' = "absent" /\ NothingThere'
<1>1. IInv /\ [Next]_vars => [Grows \/ Gone]_seen
  <2> SUFFICES ASSUME IInv, [Next]_vars, seen' # seen PROVE Grows \/ Gone
    OBVIOUS
  <2>1. seen' = log \/ Gone
    <3>1. ASSUME NEW w \in Writers, WriterStep(w) PROVE seen' = seen
      <4>1. FileStep(w) => seen' = seen
        BY FileStepFrame
      <4> QED BY <3>1, <4>1 DEF WriterStep, FileStep, Lock, Release, Plan, readVars
    <3>2. ASSUME NEW r \in Readers, ReaderStep(r) PROVE seen' = log \/ seen' = seen
      BY <3>2 DEF ReaderStep, LockShared, ReadWithoutLock, CheckExistence, ReadState,
         ReadEvents, readVars
    <3>3. ASSUME NEW p \in Writers \cup Readers, Crash(p) PROVE seen' = seen
      BY <3>3 DEF Crash
    <3>4. PowerLoss => seen' = seen \/ Gone
      <4>1. PowerLoss => powerLosses' # powerLosses
        BY DEF IInv, TypeOK, PowerLoss
      <4>2. LoseDirectory => directory' = "absent" /\ NothingThere'
        BY DEF LoseDirectory, NothingThere
      <4>3. KeepDirectory => seen' = seen
        BY DEF KeepDirectory
      <4> QED BY <4>1, <4>2, <4>3 DEF PowerLoss
    <3> QED BY <3>1, <3>2, <3>3, <3>4 DEF Next, vars
  <2>2. Len(seen) <= Len(log) /\ SubSeq(log, 1, Len(seen)) = seen
    BY DEF IInv, TypeOK, LogShape, ReadersBacked
  <2> QED BY <2>1, <2>2
<1> QED BY InitIInv, StepIInv, <1>1, PTL DEF Spec, AcceptedOnlyGrows

-----------------------------------------------------------------------------
(***************************************************************************)
(* What the two files of RunLog mean to those who read them, for any       *)
(* number of writers, readers, sessions, failing calls, crashes and losses *)
(* of power: they implement the abstract record of RunRecord, writers      *)
(* leave inconsistent evidence alone, and what the guards of writers let   *)
(* through the readers accept.                                             *)
(*                                                                         *)
(* The three rest on one fact about histories, SnapshotIsReadable: the     *)
(* snapshot a valid history leads to passes every check of                 *)
(* validate_persistence.  Sound carries the validity of the planned        *)
(* history through the critical section, next to IInv.                     *)
(***************************************************************************)

(* Histories *)

\* A session in every event that begins one, as observe demands.
NamesSessions(h) == \A i \in DOMAIN h : h[i].type = "agent.started" => h[i].session # None

Sound(h) == ValidHistory(h) /\ SingleRun(h) /\ NamesSessions(h)

\* The checks of validate_persistence find nothing wrong with a snapshot that a
\* valid history leads to.
LEMMA SnapshotIsReadable ==
    ASSUME NEW h \in Seq(Events), Sound(h)
    PROVE  ReaderAccepts(SnapshotOf(h), h)
<1> DEFINE n == Len(h)
           e == h[n]
           Upto(types) == Before(h, n + 1, types)
           Started == {"agent.started"}
           s == SnapshotOf(h)
<1>1. n \in Nat \ {0} /\ DOMAIN h = 1..n /\ e \in Events /\ \A i \in 1..n : h[i] \in Events
  BY DEF Sound, ValidHistory
<1>2. \A i \in 1..n : EventIsValid(h, i)
  BY <1>1 DEF Sound, ValidHistory
<1> HIDE DEF n
<1>3. \A types : Upto(types) = {j \in 1..n : h[j].type \in types}
  BY <1>1 DEF Before
<1>4. \A i \in 1..n : h[i].type \in Observations =>
          /\ i # 1 /\ h[i].to = "validating"
          /\ ObservationIsValid(h, i)
  BY <1>1, <1>2 DEF EventIsValid, FirstIsValid, TransitionIsValid, Allowed, Observations
<1>5. \A types : \A i \in 1..n : Before(h, i, types) \subseteq Upto(types)
  BY <1>1 DEF Before
<1>6. s = [state |-> e.to, run |-> e.run, reason |-> e.reason,
           server |-> Upto({"server.validated"}) # {},
           session |-> IF ProbeRunning(h, n + 1)
                         THEN h[CHOOSE j \in Upto(Started) : TRUE].session ELSE None,
           seq |-> n]
  BY <1>1 DEF SnapshotOf, n
\* The probe runs exactly when it was the last thing that happened.
<1>7. ProbeRunning(h, n + 1) => e.type = "agent.started"
  <2> SUFFICES ASSUME ProbeRunning(h, n + 1), e.type # "agent.started" PROVE FALSE
    OBVIOUS
  <2>1. Before(h, n, Started) # {} /\ Before(h, n, EndTypes) = {} /\ e.type \notin EndTypes
    BY <1>1 DEF ProbeRunning, Before
  <2>2. ProbeRunning(h, n)
    BY <2>1 DEF ProbeRunning
  <2>3. ~TransitionIsValid(h, n)
    BY <2>2 DEF TransitionIsValid
  <2>4. ~ObservationIsValid(h, n)
    BY <2>1 DEF ObservationIsValid, EndTypes
  <2>5. n # 1
    BY <2>1 DEF Before
  <2> QED BY <1>1, <1>2, <2>3, <2>4, <2>5 DEF EventIsValid
<1>8. ASSUME e.type = "agent.started"
      PROVE  /\ Upto(Started) = {n} /\ ProbeRunning(h, n + 1)
             /\ Upto({"server.validated"}) # {} /\ e.to = "validating"
  <2>1. ObservationIsValid(h, n) /\ e.to = "validating"
    BY <1>1, <1>4, <1>8 DEF Observations
  <2>2. Before(h, n, {"server.validated"}) # {} /\ Before(h, n, Started) = {}
    BY <1>8, <2>1 DEF ObservationIsValid, EndTypes
  <2>3. Upto(Started) = {n}
    BY <1>1, <1>8, <2>2 DEF Before
  <2>4. Upto(EndTypes) = {}
    <3> SUFFICES ASSUME NEW i \in 1..n, h[i].type \in EndTypes PROVE FALSE
      BY <1>3
    <3>1. ObservationIsValid(h, i)
      BY <1>4 DEF EndTypes, Observations
    <3>2. ProbeRunning(h, i)
      BY <3>1 DEF ObservationIsValid, EndTypes
    <3>3. PICK j \in Before(h, i, Started) : TRUE
      BY <3>2 DEF ProbeRunning
    <3>4. j \in Before(h, n, Started)
      BY <1>1, <3>3 DEF Before
    <3> QED BY <2>2, <3>4
  <2>5. Upto({"server.validated"}) # {}
    BY <1>1, <1>5, <2>2
  <2> QED BY <2>1, <2>3, <2>4, <2>5 DEF ProbeRunning
<1>9. s.state = e.to /\ s.run = e.run /\ s.reason = e.reason /\ s.seq = n
      /\ s # NoState
  BY <1>1, <1>6 DEF NoState
<1>10. PairAgrees(s, h)
  <2> HIDE DEF s
  <2> QED BY <1>1, <1>9 DEF PairAgrees, Sound, n
<1> DEFINE validated == \E i \in DOMAIN h : h[i].type = "server.validated"
<1>11. s.server = validated
  <2> DEFINE b == Upto({"server.validated"}) # {}
  <2>1. b <=> validated
    <3>1. Upto({"server.validated"}) = {j \in 1..n : h[j].type \in {"server.validated"}}
      BY <1>3
    <3> HIDE DEF Upto
    <3>2. Upto({"server.validated"}) # {} <=> \E j \in 1..n : h[j].type = "server.validated"
      BY <3>1
    <3> QED BY <1>1, <3>2
  <2>2. b \in BOOLEAN /\ validated \in BOOLEAN
    OBVIOUS
  <2>3. s.server = b
    BY <1>6
  <2> HIDE DEF b, validated
  <2>4. b = validated
    BY <2>1, <2>2
  <2> QED BY <2>3, <2>4
<1>12. s.session = IF ProbeRunning(h, n + 1)
                     THEN h[CHOOSE j \in Upto(Started) : TRUE].session ELSE None
  BY <1>6
<1>13. CASE e.type = "agent.started"
  <2>1. s.session = e.session
    <3>1. s.session = h[CHOOSE j \in {n} : TRUE].session
      BY <1>8, <1>12, <1>13
    <3> QED BY <3>1
  <2>2. e.session # None
    BY <1>1, <1>13 DEF Sound, NamesSessions
  <2>3. s.server
    BY <1>1, <1>3, <1>8, <1>11, <1>13
  <2>4. s.state = "validating"
    BY <1>8, <1>9, <1>13
  <2> SUFFICES /\ s.server = validated
               /\ (s.session # None) <=> (e.type = "agent.started")
               /\ s.session # None =>
                     s.server /\ s.state = "validating" /\ s.session = e.session
    BY <1>10 DEF ReaderAccepts, n
  <2> HIDE DEF s, validated
  <2> QED BY <1>11, <1>13, <2>1, <2>2, <2>3, <2>4
<1>14. CASE e.type # "agent.started"
  <2>1. s.session = None
    BY <1>7, <1>12, <1>14
  <2> SUFFICES /\ s.server = validated
               /\ (s.session # None) <=> (e.type = "agent.started")
               /\ s.session # None =>
                     s.server /\ s.state = "validating" /\ s.session = e.session
    BY <1>10 DEF ReaderAccepts, n
  <2> HIDE DEF s, validated
  <2> QED BY <1>11, <1>14, <2>1
<1> QED BY <1>13, <1>14

-----------------------------------------------------------------------------
(* The inductive invariant, next to IInv *)

BeforeInstall == {"create", "append", "fsyncLog", "fsyncLogDir", "stage", "install"}

\* What the writer in a critical section found, and what its event makes of it.
SectionIsSound(w) ==
    /\ pc[w] \in WriteSteps => ~torn
    /\ pc[w] = "create" => NothingThere /\ plan[w].event.type = "run.started"
    /\ pc[w] = "append" => plan[w].event.type = "run.started" \/ Readable
    /\ pc[w] \in {"create", "append"} =>
          Sound(Append(log, plan[w].event)) /\ Len(log) = st.seq
    /\ pc[w] \in {"fsyncLog", "fsyncLogDir", "stage", "install"} =>
          Sound(log) /\ Len(log) = st.seq + 1
    /\ pc[w] \in BeforeInstall => (st # NoState => links = 1)
    /\ pc[w] \in {"fsyncStateDir", "unlink", "fsyncUnlink"} =>
          ReaderAccepts(st, log) /\ entry # "absent"
    /\ pc[w] = "fsyncUnlink" => links = 1

Disturbances == faults + crashes + powerLosses

RInv ==
    /\ entry = "absent" => ~torn
    /\ NamesSessions(log)
    /\ \A w \in Writers : SectionIsSound(w)
    /\ Disturbances = 0 /\ (\A w \in Writers : pc[w] \notin WriteSteps) =>
           NothingThere \/ Readable

\* A pair that the writers' check passes is one that readers accept.
LEMMA AgreeingIsReadable ==
    ASSUME IInv, RInv, PairAgrees(st, log)
    PROVE  ReaderAccepts(st, log) /\ Sound(log)
<1>1. log \in Seq(Events) /\ st = SnapshotOf(SubSeq(log, 1, st.seq))
  BY DEF IInv, TypeOK, SnapshotsBacked, Backed
<1>2. Len(log) = st.seq /\ Sound(log)
  BY DEF PairAgrees, Sound, RInv
<1>3. SubSeq(log, 1, st.seq) = log
  BY <1>1, <1>2, SubSeqFull
<1> QED BY <1>1, <1>2, <1>3, SnapshotIsReadable

\* Steps that leave the files alone.
LEMMA QuietStep ==
    ASSUME RInv, UNCHANGED <<log, torn, entry, st, links>>,
           \A w \in Writers :
               pc'[w] \in WriteSteps => pc'[w] = pc[w] /\ plan'[w] = plan[w],
           Disturbances' = 0 =>
               Disturbances = 0 /\ \A w \in Writers : pc[w] \in WriteSteps => pc'[w] = pc[w]
    PROVE  RInv'
<1>1. NamesSessions(log)' BY DEF RInv, NamesSessions
<1>2. (entry = "absent" => ~torn)' BY DEF RInv
<1>3. ASSUME NEW w \in Writers PROVE SectionIsSound(w)'
  <2>1. SectionIsSound(w) BY DEF RInv
  <2>2. CASE pc'[w] \in WriteSteps
    <3>1. pc'[w] = pc[w] /\ plan'[w] = plan[w] BY <2>2
    <3>2. (NothingThere' <=> NothingThere) /\ (Readable' <=> Readable)
      BY DEF NothingThere, Readable
    <3> QED BY <2>1, <3>1, <3>2 DEF SectionIsSound
  <2>3. CASE pc'[w] \notin WriteSteps
    BY <2>3 DEF SectionIsSound, WriteSteps, BeforeInstall
  <2> QED BY <2>2, <2>3
<1>4. (Disturbances = 0 /\ (\A w \in Writers : pc[w] \notin WriteSteps) =>
           NothingThere \/ Readable)'
  BY DEF RInv, NothingThere, Readable
<1> QED BY <1>1, <1>2, <1>3, <1>4 DEF RInv

\* What the guards of a writer let through keeps the history sound.
LEMMA PlannedIsSound ==
    ASSUME IInv, RInv, NEW r \in Requests, MayWrite(st, log, entry # "absent", r),
           NEW e, e = NextEvent(st, r)
    PROVE  /\ Sound(Append(log, e)) /\ Len(log) = st.seq
           /\ r.kind = "initial" => NothingThere /\ e.type = "run.started"
           /\ r.kind # "initial" => ReaderAccepts(st, log)
<1>1. log \in Seq(Events) /\ (entry = "absent" => log = << >>)
  BY DEF IInv, TypeOK, LogShape
<1>2. CASE r.kind = "initial"
  <2>1. NothingThere /\ log = << >>
    BY <1>1, <1>2 DEF MayWrite, NothingThere
  <2>2. e.type = "run.started" /\ FirstIsValid(e)
    BY <1>2 DEF NextEvent, FirstIsValid
  <2>3. Append(log, e) = << e >>
    BY <2>1
  <2>4. Sound(<< e >>)
    BY <2>2 DEF Sound, ValidHistory, EventIsValid, SingleRun, NamesSessions
  <2>5. Len(log) = st.seq
    BY <2>1 DEF NothingThere, NoState
  <2> QED BY <1>2, <2>1, <2>2, <2>3, <2>4, <2>5
<1>3. CASE r.kind # "initial"
  <2>1. PairAgrees(st, log) /\ ValidHistory(Append(log, e))
    BY <1>3 DEF MayWrite, Requests
  <2>2. ReaderAccepts(st, log) /\ Sound(log)
    BY <2>1, AgreeingIsReadable
  <2>3. Len(log) = st.seq /\ log # << >> /\ st.run = log[Len(log)].run
    BY <2>1 DEF PairAgrees, ValidHistory
  <2>4. e.run = st.run /\ (e.type = "agent.started" => e.session # None)
    <3>1. CASE r.kind = "transition"
      BY <3>1 DEF NextEvent, Allowed
    <3>2. CASE r.kind = "observe"
      BY <3>2, HistoryAssumption DEF NextEvent, Requests, HistoryAssumption
    <3> QED BY <1>3, <3>1, <3>2 DEF Requests
  <2>5. /\ DOMAIN Append(log, e) = 1..(Len(log) + 1) /\ DOMAIN log = 1..Len(log)
        /\ \A i \in 1..Len(log) : Append(log, e)[i] = log[i]
        /\ Append(log, e)[Len(log) + 1] = e /\ Len(log) \in Nat /\ Len(log) # 0
    BY <1>1, <2>3
  <2>6. SingleRun(Append(log, e))
    BY <2>2, <2>3, <2>4, <2>5 DEF Sound, SingleRun
  <2>7. NamesSessions(Append(log, e))
    BY <2>2, <2>4, <2>5 DEF Sound, NamesSessions
  <2> QED BY <1>3, <2>1, <2>2, <2>3, <2>6, <2>7 DEF Sound
<1> QED BY <1>2, <1>3

\* Locking, planning, unlocking, reading and dying.
LEMMA BracketRInv ==
    ASSUME IInv, RInv, NEW w \in Writers,
           Lock(w) \/ Release(w) \/ (\E r \in Requests : Plan(w, r))
    PROVE  RInv'
<1> USE DEF IInv, TypeOK
<1>1. UNCHANGED <<log, torn, entry, st, links, faults, crashes, powerLosses>>
      /\ Disturbances' = Disturbances
  BY DEF Lock, Release, Plan, logVars, stVars, budget, Disturbances
<1>2. CASE Lock(w)
  <2>1. plan' = plan /\ pc[w] = "idle" /\ pc' = [pc EXCEPT ![w] = "plan"]
    BY <1>2 DEF Lock, Goto
  <2> QED BY <1>1, <2>1, QuietStep DEF WriteSteps
<1>3. CASE Release(w)
  <2>1. /\ pc[w] = "release" /\ pc' = [pc EXCEPT ![w] = "idle"]
        /\ \A v \in Writers \ {w} : plan'[v] = plan[v]
    BY <1>3 DEF Release, Goto
  <2> QED BY <1>1, <2>1, QuietStep DEF WriteSteps
<1>4. ASSUME NEW r \in Requests, Plan(w, r) PROVE RInv'
  <2> DEFINE e == NextEvent(st, r)
             step == IF r.kind = "initial" THEN "create" ELSE "append"
             p == [event |-> e, snapshot |-> Apply(st, e)]
  <2>1. pc[w] = "plan" /\ \A v \in Writers \ {w} : pc[v] = "idle"
    BY <1>4 DEF Plan, OneWriter
  <2>2. CASE pc' = [pc EXCEPT ![w] = "release"] /\ plan' = plan
    BY <1>1, <2>1, <2>2, QuietStep DEF WriteSteps
  <2>3. CASE /\ r.kind = "initial" \/ (entry # "absent" /\ ~torn /\ links = 1)
             /\ MayWrite(st, log, entry # "absent", r)
             /\ plan' = [plan EXCEPT ![w] = p]
             /\ pc' = [pc EXCEPT ![w] = step]
    <3>1. p.event = e /\ step \in {"create", "append"}
          /\ (step = "create" <=> r.kind = "initial")
      OBVIOUS
    <3>2. /\ Sound(Append(log, e)) /\ Len(log) = st.seq
          /\ r.kind = "initial" => NothingThere /\ e.type = "run.started"
          /\ r.kind # "initial" => ReaderAccepts(st, log)
      BY <2>3, PlannedIsSound
    <3>3. /\ ~torn /\ (r.kind # "initial" => Readable)
          /\ st # NoState => links = 1
      BY <2>3, <3>2 DEF RInv, NothingThere, Readable
    <3> HIDE DEF e, p, step
    <3>4. pc'[w] = step /\ plan'[w] = p /\ \A v \in Writers \ {w} : pc'[v] = "idle"
      BY <2>1, <2>3
    <3>5. (NothingThere' <=> NothingThere) /\ (Readable' <=> Readable)
      BY <1>1 DEF NothingThere, Readable
    <3>6. SectionIsSound(w)'
      BY <1>1, <3>1, <3>2, <3>3, <3>4, <3>5 DEF SectionIsSound
    <3>7. \A v \in Writers \ {w} : SectionIsSound(v)'
      BY <3>4 DEF SectionIsSound, WriteSteps, BeforeInstall
    <3>8. pc'[w] \in WriteSteps
      BY <3>1, <3>4 DEF WriteSteps
    <3> QED BY <1>1, <3>6, <3>7, <3>8 DEF RInv, NamesSessions
  <2> QED BY <1>4, <2>2, <2>3 DEF Plan, Goto
<1> QED BY <1>2, <1>3, <1>4

LEMMA ReaderStepRInv == ASSUME IInv, RInv, NEW r \in Readers, ReaderStep(r) PROVE RInv'
<1>1. /\ UNCHANGED <<log, torn, entry, st, links, plan, faults, crashes, powerLosses>>
      /\ \A w \in Writers : pc'[w] = pc[w]
  BY LogAssumption DEF IInv, TypeOK, LogAssumption, ReaderStep, LockShared, ReadWithoutLock,
     CheckExistence, ReadState, ReadEvents, Conclude, Goto, logVars, stVars, readVars, budget
<1> QED BY <1>1, QuietStep DEF Disturbances

LEMMA CrashRInv ==
    ASSUME IInv, RInv, NEW p \in Writers \cup Readers, Crash(p) PROVE RInv'
<1>1. /\ UNCHANGED <<log, torn, entry, st, links>>
      /\ crashes' = crashes + 1 /\ UNCHANGED <<faults, powerLosses>>
      /\ pc' = [pc EXCEPT ![p] = "idle"]
      /\ plan' = [w \in Writers |-> IF w = p THEN NoPlan ELSE plan[w]]
  BY DEF Crash, Goto, logVars, stVars
<1>2. Disturbances' # 0
  BY <1>1 DEF IInv, TypeOK, Disturbances
<1>3. \A w \in Writers : pc'[w] \in WriteSteps => pc'[w] = pc[w] /\ plan'[w] = plan[w]
  BY <1>1 DEF IInv, TypeOK, WriteSteps
<1> QED BY <1>1, <1>2, <1>3, QuietStep

\* A failing call ends the critical section: what it leaves need not be readable.
LEMMA FaultRInv ==
    ASSUME IInv, RInv, NEW w \in Writers, FileStep(w), Fault(w),
           log' = log, entry' = "absent" => ~torn'
    PROVE  RInv'
<1> USE DEF IInv, TypeOK
<1>1. UNCHANGED <<crashes, powerLosses>> /\ faults' = faults + 1
      /\ \A v \in Writers : pc'[v] \notin WriteSteps
  <2>1. pc' = [pc EXCEPT ![w] = "release"] /\ faults' = faults + 1
    BY DEF Fault, Goto
  <2>2. UNCHANGED <<crashes, powerLosses>> /\ \A v \in Writers \ {w} : pc'[v] = "idle"
    BY FileStepFrame
  <2> QED BY <2>1, <2>2 DEF WriteSteps
<1>2. Disturbances' # 0
  BY <1>1 DEF Disturbances
<1>3. \A v \in Writers : SectionIsSound(v)'
  BY <1>1 DEF SectionIsSound, BeforeInstall, WriteSteps
<1> QED BY <1>2, <1>3 DEF RInv, NamesSessions

\* A call that succeeds hands the section to the next one.
LEMMA SectionRInv ==
    ASSUME IInv, RInv, NEW w \in Writers, FileStep(w), pc'[w] \in WriteSteps,
           SectionIsSound(w)', NamesSessions(log)'
    PROVE  RInv'
<1>1. \A v \in Writers \ {w} : pc'[v] = "idle"
  BY FileStepFrame
<1>2. \A v \in Writers \ {w} : SectionIsSound(v)'
  BY <1>1 DEF SectionIsSound, BeforeInstall, WriteSteps
<1>3. (entry = "absent" => ~torn)'
  BY DEF SectionIsSound
<1> QED BY <1>2, <1>3 DEF RInv

LEMMA FileStepRInv == ASSUME IInv, RInv, NEW w \in Writers, FileStep(w) PROVE RInv'
<1> USE DEF IInv, TypeOK
<1>1. SectionIsSound(w) /\ NamesSessions(log) /\ plan' = plan
      /\ UNCHANGED <<crashes, powerLosses>> /\ \A v \in Writers \ {w} : pc'[v] = "idle"
  BY FileStepFrame DEF RInv
<1>2. CASE CreateLog(w)
  <2>1. /\ pc[w] = "create" /\ pc'[w] = "append" /\ entry' = "cached"
        /\ UNCHANGED <<log, torn, st, links>>
    BY <1>2 DEF CreateLog, Goto, stVars
  <2>2. SectionIsSound(w)' /\ NamesSessions(log)'
    BY <1>1, <2>1 DEF SectionIsSound, BeforeInstall, WriteSteps, NamesSessions
  <2> QED BY <2>1, <2>2, SectionRInv DEF WriteSteps
<1>3. CASE AppendEvent(w)
  <2>1. pc[w] = "append" /\ UNCHANGED <<entry, st, links>> /\ entry # "absent"
    BY <1>3 DEF AppendEvent, stVars, PlanFits
  <2>2. CASE log' = log /\ Fault(w)
    BY <2>1, <2>2, FaultRInv
  <2>3. CASE log' = Append(log, plan[w].event) /\ pc'[w] = "fsyncLog" /\ torn' = torn
    <3>1. Sound(log') /\ Len(log') = st.seq + 1
      <4>1. Sound(Append(log, plan[w].event)) /\ Len(log) = st.seq
        BY <1>1, <2>1 DEF SectionIsSound
      <4> QED BY <2>3, <4>1
    <3>2. ~torn /\ (st # NoState => links = 1)
      BY <1>1, <2>1 DEF SectionIsSound, BeforeInstall, WriteSteps
    <3>3. SectionIsSound(w)'
      BY <2>1, <2>3, <3>1, <3>2 DEF SectionIsSound, BeforeInstall, WriteSteps, Sound,
         SingleRun, NamesSessions
    <3> QED BY <2>3, <3>1, <3>3, SectionRInv DEF WriteSteps, Sound, NamesSessions
  <2> QED BY <1>3, <2>2, <2>3 DEF AppendEvent, Goto
<1>4. CASE FsyncLog(w) \/ FsyncLogDirectory(w) \/ StageState(w)
  <2>1. /\ UNCHANGED <<log, torn, st, links>>
        /\ entry' = "absent" => entry = "absent"
        /\ pc[w] \in {"fsyncLog", "fsyncLogDir", "stage"}
        /\ Fault(w) \/ pc'[w] \in {"fsyncLogDir", "stage", "install"}
    <3>1. CASE FsyncLog(w)
      BY <3>1 DEF FsyncLog, Goto, stVars
    <3>2. CASE FsyncLogDirectory(w)
      BY <3>2 DEF FsyncLogDirectory, SyncDirectory, Goto
    <3>3. CASE StageState(w)
      BY <3>3 DEF StageState, Goto, logVars, stVars
    <3> QED BY <1>4, <3>1, <3>2, <3>3
  <2>2. CASE Fault(w)
    BY <2>1, <2>2, FaultRInv DEF RInv
  <2>3. CASE pc'[w] \in {"fsyncLogDir", "stage", "install"}
    <3>1. ~torn /\ Sound(log) /\ Len(log) = st.seq + 1 /\ (st # NoState => links = 1)
      BY <1>1, <2>1 DEF SectionIsSound, BeforeInstall, WriteSteps
    <3>2. Sound(log)'
      BY <2>1, <3>1
    <3>3. SectionIsSound(w)' /\ NamesSessions(log)'
      BY <2>1, <2>3, <3>1, <3>2 DEF SectionIsSound, BeforeInstall, WriteSteps, Sound
    <3> QED BY <2>3, <3>3, SectionRInv DEF WriteSteps
  <2> QED BY <2>1, <2>2, <2>3
<1>5. CASE InstallState(w)
  <2>1. pc[w] = "install" /\ UNCHANGED <<log, torn, entry>>
    BY <1>5 DEF InstallState, logVars
  <2>2. CASE Fault(w)
    BY <2>1, <2>2, FaultRInv DEF RInv
  <2>3. CASE st' = plan[w].snapshot /\ pc'[w] = "fsyncStateDir"
    <3>1. ReaderAccepts(st', log)
      <4>1. Sound(log) /\ plan[w].snapshot = SnapshotOf(log)
        BY <1>1, <2>1 DEF SectionIsSound, PlanFits
      <4> QED BY <2>3, <4>1, SnapshotIsReadable
    <3>2. ReaderAccepts(st, log)' /\ NamesSessions(log)'
      BY <1>1, <2>1, <3>1 DEF NamesSessions
    <3>3. ~torn /\ entry = "durable"
      BY <1>1, <2>1 DEF SectionIsSound, WriteSteps, PlanFits
    <3>4. SectionIsSound(w)'
      BY <2>1, <2>3, <3>2, <3>3 DEF SectionIsSound, BeforeInstall, WriteSteps
    <3> QED BY <2>3, <3>2, <3>4, SectionRInv DEF WriteSteps
  <2> QED BY <1>5, <2>2, <2>3 DEF InstallState, Goto
<1>6. CASE FsyncStateDirectory(w) \/ UnlinkStaged(w)
  <2>1. /\ UNCHANGED <<log, torn, st>>
        /\ entry' = "absent" => entry = "absent"
        /\ pc[w] \in {"fsyncStateDir", "unlink"}
        /\ \/ Fault(w)
           \/ pc'[w] = "unlink"
           \/ pc'[w] = "fsyncUnlink" /\ links' = 1
    <3>1. CASE FsyncStateDirectory(w)
      BY <3>1 DEF FsyncStateDirectory, SyncDirectory, Goto
    <3>2. CASE UnlinkStaged(w)
      BY <3>2 DEF UnlinkStaged, Goto, logVars
    <3> QED BY <1>6, <3>1, <3>2
  <2>2. CASE Fault(w)
    BY <2>1, <2>2, FaultRInv DEF RInv
  <2>3. CASE pc'[w] = "unlink" \/ (pc'[w] = "fsyncUnlink" /\ links' = 1)
    <3>1. ~torn /\ ReaderAccepts(st, log) /\ entry # "absent"
      BY <1>1, <2>1 DEF SectionIsSound, WriteSteps
    <3>2. ReaderAccepts(st, log)' /\ NamesSessions(log)'
      BY <1>1, <2>1, <3>1 DEF NamesSessions
    <3>3. SectionIsSound(w)'
      BY <2>1, <2>3, <3>1, <3>2 DEF SectionIsSound, BeforeInstall, WriteSteps
    <3> QED BY <2>3, <3>2, <3>3, SectionRInv DEF WriteSteps
  <2> QED BY <2>1, <2>2, <2>3
<1>7. CASE FsyncUnlink(w)
  <2>1. /\ UNCHANGED <<log, torn, st, links>> /\ pc[w] = "fsyncUnlink"
        /\ entry' = "absent" => entry = "absent"
        /\ Fault(w) \/ pc'[w] = "release"
    BY <1>7 DEF FsyncUnlink, SyncDirectory, Goto
  <2>2. CASE Fault(w)
    BY <2>1, <2>2, FaultRInv DEF RInv
  <2>3. CASE pc'[w] = "release"
    <3>1. ~torn /\ ReaderAccepts(st, log) /\ entry # "absent" /\ links = 1
      BY <1>1, <2>1 DEF SectionIsSound, WriteSteps
    <3>2. Readable' /\ NamesSessions(log)'
      BY <1>1, <2>1, <3>1 DEF Readable, NamesSessions
    <3>3. \A v \in Writers : SectionIsSound(v)'
      BY <1>1, <2>3 DEF SectionIsSound, BeforeInstall, WriteSteps
    <3> QED BY <2>1, <3>1, <3>2, <3>3 DEF RInv
  <2> QED BY <2>1, <2>2, <2>3
<1> QED BY <1>2, <1>3, <1>4, <1>5, <1>6, <1>7 DEF FileStep

\* A loss of power leaves a prefix of the log.
LEMMA PowerLossRInv == ASSUME IInv, RInv, PowerLoss PROVE RInv'
<1> USE DEF IInv, TypeOK
<1>1. powerLosses' = powerLosses + 1 /\ UNCHANGED <<faults, crashes>>
      /\ pc' = [p \in Writers \cup Readers |-> "idle"]
  BY DEF PowerLoss
<1>2. Disturbances' # 0
  BY <1>1 DEF Disturbances
<1>3. \A v \in Writers : SectionIsSound(v)'
  BY <1>1 DEF SectionIsSound, BeforeInstall, WriteSteps
<1>4. NamesSessions(log)' /\ (entry' = "absent" => ~torn')
  <2>1. CASE log' = << >> /\ torn' = FALSE
    BY <2>1 DEF NamesSessions
  <2>2. ASSUME entry' = IF entry = "cached" THEN "durable" ELSE entry,
               NEW k \in synced..Len(log), log' = SubSeq(log, 1, k),
               torn' \in IF k < Len(log) \/ torn THEN BOOLEAN ELSE {FALSE}
        PROVE  NamesSessions(log)' /\ (entry' = "absent" => ~torn')
    <3>1. /\ k \in 0..Len(log) /\ \A i \in 1..k : log'[i] = log[i]
          /\ DOMAIN log' = 1..k /\ 1..k \subseteq DOMAIN log
      BY <2>2
    <3>2. NamesSessions(log')
      BY <3>1 DEF RInv, NamesSessions
    <3>3. ASSUME entry' = "absent" PROVE ~torn'
      <4>1. log = << >> /\ ~torn
        BY <2>2, <3>3 DEF RInv, LogShape
      <4>2. ~(k < Len(log) \/ torn)
        BY <3>1, <4>1
      <4> QED BY <2>2, <4>2
    <3> QED BY <3>2, <3>3
  <2> QED BY <2>1, <2>2 DEF PowerLoss, KeepDirectory, LoseDirectory
<1> QED BY <1>2, <1>3, <1>4 DEF RInv

LEMMA InitRInv == Init => RInv
BY DEF Init, RInv, NamesSessions, SectionIsSound, WriteSteps, BeforeInstall, NothingThere

LEMMA StepRInv == IInv /\ RInv /\ [Next]_vars => RInv'
<1> SUFFICES ASSUME IInv, RInv, [Next]_vars PROVE RInv'
  OBVIOUS
<1>1. ASSUME NEW w \in Writers, WriterStep(w) PROVE RInv'
  BY <1>1, BracketRInv, FileStepRInv DEF WriterStep, FileStep
<1>2. ASSUME NEW r \in Readers, ReaderStep(r) PROVE RInv'
  BY <1>2, ReaderStepRInv
<1>3. ASSUME NEW p \in Writers \cup Readers, Crash(p) PROVE RInv'
  BY <1>3, CrashRInv
<1>4. CASE PowerLoss
  BY <1>4, PowerLossRInv
<1>5. CASE UNCHANGED vars
  BY <1>5, QuietStep DEF vars, Disturbances
<1> QED BY <1>1, <1>2, <1>3, <1>4, <1>5 DEF Next

-----------------------------------------------------------------------------
(* The refinement *)

\* The directory on disk never names a later snapshot than the page cache does.
DiskIsBehind == stOnDisk.seq <= st.seq

\* Only installing a snapshot, or losing one, changes the sequence number.
LEMMA OtherStepsKeepState ==
    ASSUME IInv, [Next]_vars
    PROVE  \/ st' = st /\ stOnDisk' \in {st, stOnDisk}
           \/ \E w \in Writers : InstallState(w)
           \/ PowerLoss
<1>1. ASSUME NEW w \in Writers, WriterStep(w), ~InstallState(w)
      PROVE  st' = st /\ stOnDisk' \in {st, stOnDisk}
  BY <1>1 DEF WriterStep, Lock, Release, Plan, CreateLog, AppendEvent, FsyncLog,
     FsyncLogDirectory, StageState, FsyncStateDirectory, UnlinkStaged, FsyncUnlink,
     SyncDirectory, stVars
<1>2. ASSUME NEW r \in Readers, ReaderStep(r) PROVE UNCHANGED <<st, stOnDisk>>
  BY <1>2 DEF ReaderStep, LockShared, ReadWithoutLock, CheckExistence, ReadState, ReadEvents,
     stVars
<1>3. ASSUME NEW p \in Writers \cup Readers, Crash(p) PROVE UNCHANGED <<st, stOnDisk>>
  BY <1>3 DEF Crash, stVars
<1>4. CASE UNCHANGED vars
  BY <1>4 DEF vars
<1> QED BY <1>1, <1>2, <1>3, <1>4 DEF Next

\* What InstallState installs.
LEMMA InstallCommits ==
    ASSUME IInv, RInv, NEW w \in Writers, InstallState(w), st' # st
    PROVE  /\ st'.seq = Len(log) /\ Len(log) = st.seq + 1 /\ Sound(log) /\ log' = log
           /\ ReaderAccepts(st', log)
           /\ entry' # "absent" /\ ~torn'
           /\ pc[w] \in WriteSteps
           /\ pc'[w] \in WriteSteps \/ links' = 1
<1> USE DEF IInv, TypeOK
<1>1. /\ pc[w] = "install" /\ UNCHANGED <<log, torn, entry>>
      /\ st' = plan[w].snapshot
      /\ pc'[w] = "fsyncStateDir" \/ (links' = links /\ st # NoState)
  BY DEF InstallState, Goto, logVars
<1>2. /\ Sound(log) /\ Len(log) = st.seq + 1 /\ ~torn
      /\ st # NoState => links = 1
  BY <1>1 DEF RInv, SectionIsSound, BeforeInstall, WriteSteps
<1>3. plan[w].snapshot = SnapshotOf(log) /\ entry = "durable"
  BY <1>1 DEF PlanFits
<1>4. st'.seq = Len(log) /\ ReaderAccepts(st', log)
  BY <1>1, <1>2, <1>3, SnapshotLength, SnapshotIsReadable
<1> QED BY <1>1, <1>2, <1>3, <1>4 DEF WriteSteps

LEMMA StepDiskIsBehind == IInv /\ RInv /\ DiskIsBehind /\ [Next]_vars => DiskIsBehind'
<1> SUFFICES ASSUME IInv, RInv, DiskIsBehind, [Next]_vars PROVE DiskIsBehind'
  OBVIOUS
<1>1. st.seq \in Nat /\ stOnDisk.seq \in Nat
  BY DEF IInv, TypeOK, States
<1>2. CASE st' = st /\ stOnDisk' \in {st, stOnDisk}
  BY <1>1, <1>2 DEF DiskIsBehind
<1>3. ASSUME NEW w \in Writers, InstallState(w), st' # st PROVE DiskIsBehind'
  <2>1. stOnDisk' = stOnDisk
    BY <1>3 DEF InstallState
  <2> QED BY <1>1, <1>3, <2>1, InstallCommits DEF DiskIsBehind
<1>4. ASSUME NEW w \in Writers, InstallState(w), st' = st PROVE DiskIsBehind'
  BY <1>4 DEF InstallState, DiskIsBehind
<1>5. CASE PowerLoss
  <2>1. stOnDisk' = st'
    BY <1>5 DEF PowerLoss
  <2>2. CASE KeepDirectory
    BY <1>1, <2>1, <2>2 DEF KeepDirectory, DiskIsBehind
  <2>3. CASE LoseDirectory
    <3>1. st' = NoState /\ NoState.seq = 0
      BY <2>3 DEF LoseDirectory, NoState
    <3> HIDE DEF NoState
    <3> QED BY <2>1, <3>1 DEF DiskIsBehind
  <2> QED BY <1>5, <2>2, <2>3 DEF PowerLoss
<1> QED BY <1>2, <1>3, <1>4, <1>5, OtherStepsKeepState

-----------------------------------------------------------------------------
(* Results *)

LEMMA InvariantHolds == Spec => [](IInv /\ RInv /\ DiskIsBehind)
<1>1. Init => DiskIsBehind
  BY DEF Init, DiskIsBehind, NoState
<1>2. IInv /\ RInv /\ DiskIsBehind /\ [Next]_vars => (IInv /\ RInv /\ DiskIsBehind)'
  BY StepIInv, StepRInv, StepDiskIsBehind
<1> QED BY InitIInv, InitRInv, <1>1, <1>2, PTL DEF Spec

\* The guards of persist_initial, transition and observe let nothing through that
\* status and run refuse: without a failure the pair is readable between any two
\* critical sections.
THEOREM GuardsAreEnough == Spec => []UndisturbedIsReadable
<1>1. IInv /\ RInv => UndisturbedIsReadable
  <2> SUFFICES ASSUME IInv, RInv, faults + crashes + powerLosses = 0, holder = None
               PROVE  NothingThere \/ Readable
    BY DEF UndisturbedIsReadable
  <2>1. \A w \in Writers : pc[w] \notin WriteSteps
    BY LogAssumption DEF IInv, OneWriter, LogAssumption, WriteSteps
  <2> QED BY <2>1 DEF RInv, Disturbances
<1> QED BY InvariantHolds, <1>1, PTL

\* _load_durable_pair and persist_initial refuse inconsistent evidence before they
\* touch it, whatever left it behind.
THEOREM EvidenceStays == Spec => InconsistentEvidenceUntouched
<1> DEFINE Touched(w) == Writing(w) /\ (pc[w] = FirstWrite(w) => NothingThere \/ Readable)
<1>1. ASSUME IInv, RInv, [Next]_vars, UNCHANGED powerLosses,
             ~UNCHANGED <<log, torn, entry, st, links>>
      PROVE  \E w \in Writers : Touched(w)
  <2>1. ASSUME NEW w \in Writers, FileStep(w) PROVE Touched(w)
    <3>1. pc[w] \in WriteSteps
      BY <1>1, <2>1, FileStepFrame
    <3>2. pc[w] = FirstWrite(w) => NothingThere \/ Readable
      BY <1>1 DEF RInv, SectionIsSound, FirstWrite
    <3> QED BY <3>1, <3>2 DEF Writing
  <2>2. ASSUME NEW w \in Writers, WriterStep(w), ~FileStep(w) PROVE FALSE
    BY <1>1, <2>2 DEF WriterStep, FileStep, Lock, Release, Plan, logVars, stVars
  <2>3. ASSUME NEW r \in Readers, ReaderStep(r) PROVE FALSE
    BY <1>1, <2>3 DEF ReaderStep, LockShared, ReadWithoutLock, CheckExistence, ReadState,
       ReadEvents, logVars, stVars
  <2>4. ASSUME NEW p \in Writers \cup Readers, Crash(p) PROVE FALSE
    BY <1>1, <2>4 DEF Crash, logVars, stVars
  <2>5. PowerLoss => powerLosses' # powerLosses
    BY <1>1 DEF PowerLoss, IInv, TypeOK
  <2> QED BY <1>1, <2>1, <2>2, <2>3, <2>4, <2>5 DEF Next, vars
<1>2. IInv /\ RInv /\ [Next]_vars =>
          [ \/ powerLosses' # powerLosses
            \/ \E w \in Writers :
                  /\ Writing(w)
                  /\ pc[w] = FirstWrite(w) => NothingThere \/ Readable
          ]_<<log, torn, entry, st, links>>
  BY <1>1
<1>3. Spec => [](IInv /\ RInv) /\ [][Next]_vars
  BY InvariantHolds, PTL DEF Spec
<1> QED BY <1>2, <1>3, PTL DEF InconsistentEvidenceUntouched

-----------------------------------------------------------------------------
(* Every step maps to a step of the record or to none *)

Committed == SubSeq(log, 1, st.seq)
Damaged == (\A w \in Writers : ~Writing(w)) /\ ~NothingThere /\ ~Readable

LEMMA CommittedHistory ==
    ASSUME IInv
    PROVE  /\ log \in Seq(Events) /\ st.seq \in 0..Len(log)
           /\ Committed \in Seq(Events) /\ Len(Committed) = st.seq
           /\ Record!Extends(Committed, Committed)
<1>1. log \in Seq(Events) /\ st.seq \in 0..Len(log)
  BY DEF IInv, TypeOK, LogShape, SnapshotsBacked, Backed, States
<1>2. Committed \in Seq(Events) /\ Len(Committed) = st.seq
  BY <1>1 DEF Committed
<1>3. SubSeq(Committed, 1, Len(Committed)) = Committed
  BY <1>2, SubSeqFull
<1> QED BY <1>1, <1>2, <1>3 DEF Record!Extends

LEMMA OnlyPowerLossCounts == ASSUME IInv, [Next]_vars, ~PowerLoss PROVE powerLosses' = powerLosses
<1>1. ASSUME NEW w \in Writers, WriterStep(w) PROVE powerLosses' = powerLosses
  <2>1. FileStep(w) => powerLosses' = powerLosses
    BY FileStepFrame
  <2> QED BY <1>1, <2>1 DEF WriterStep, FileStep, Lock, Release, Plan, budget
<1>2. ASSUME NEW r \in Readers, ReaderStep(r) PROVE powerLosses' = powerLosses
  BY <1>2 DEF ReaderStep, LockShared, ReadWithoutLock, CheckExistence, ReadState, ReadEvents,
     budget
<1>3. ASSUME NEW p \in Writers \cup Readers, Crash(p) PROVE powerLosses' = powerLosses
  BY <1>3 DEF Crash
<1>4. CASE UNCHANGED vars
  BY <1>4 DEF vars
<1> QED BY <1>1, <1>2, <1>3, <1>4 DEF Next

\* Nobody adds to a damaged record, nor repairs it: writers plan only on a pair
\* that readers accept.
LEMMA DamageStays ==
    ASSUME IInv, RInv, [Next]_vars, ~PowerLoss, Damaged
    PROVE  Damaged'
<1> USE DEF IInv, TypeOK
<1> SUFFICES /\ UNCHANGED <<log, torn, entry, st, links>>
             /\ \A w \in Writers : pc'[w] \notin WriteSteps
  BY DEF Damaged, Writing, NothingThere, Readable
<1>1. /\ \A w \in Writers : pc[w] \notin WriteSteps
      /\ ~NothingThere /\ ~Readable
  BY DEF Damaged, Writing
<1> DEFINE Quiet == /\ UNCHANGED <<log, torn, entry, st, links>>
                    /\ \A w \in Writers : pc'[w] \notin WriteSteps
<1>2. ASSUME NEW w \in Writers, WriterStep(w) PROVE Quiet
  <2>1. ~FileStep(w)
    BY <1>1, FileStepFrame
  <2>2. CASE Lock(w)
    BY <1>1, <2>2 DEF Lock, Goto, WriteSteps, logVars, stVars
  <2>3. CASE Release(w)
    BY <1>1, <2>3 DEF Release, Goto, WriteSteps, logVars, stVars
  <2>4. ASSUME NEW r \in Requests, Plan(w, r) PROVE Quiet
    <3>1. ~(/\ r.kind = "initial" \/ (entry # "absent" /\ ~torn /\ links = 1)
            /\ MayWrite(st, log, entry # "absent", r))
      BY <1>1, PlannedIsSound DEF Readable
    <3>2. pc' = [pc EXCEPT ![w] = "release"] /\ UNCHANGED <<log, torn, entry, st, links>>
      BY <2>4, <3>1 DEF Plan, Goto, stVars
    <3> QED BY <1>1, <3>2 DEF WriteSteps
  <2> QED BY <1>2, <2>1, <2>2, <2>3, <2>4 DEF WriterStep, FileStep
<1>3. ASSUME NEW r \in Readers, ReaderStep(r) PROVE Quiet
  <2>1. UNCHANGED <<log, torn, entry, st, links>> /\ \A w \in Writers : pc'[w] = pc[w]
    BY <1>3, LogAssumption DEF LogAssumption, ReaderStep, LockShared, ReadWithoutLock,
       CheckExistence, ReadState, ReadEvents, Conclude, Goto, logVars, stVars
  <2> QED BY <1>1, <2>1
<1>4. ASSUME NEW p \in Writers \cup Readers, Crash(p) PROVE Quiet
  BY <1>1, <1>4 DEF Crash, Goto, WriteSteps, logVars, stVars
<1>5. CASE UNCHANGED vars
  BY <1>1, <1>5 DEF vars
<1> QED BY <1>2, <1>3, <1>4, <1>5 DEF Next

\* Other steps that leave the committed events alone damage the record, or do not
\* show.
LEMMA SameCommitted ==
    ASSUME IInv, RInv, [Next]_vars, ~PowerLoss, Committed' = Committed
    PROVE  Record!Damage \/ UNCHANGED Record!recordVars
<1>1. Damaged' \in BOOLEAN /\ Damaged \in BOOLEAN /\ powerLosses' = powerLosses
  BY OnlyPowerLossCounts DEF Damaged
<1>2. CASE Damaged' = TRUE
  BY <1>1, <1>2 DEF Record!Damage, Committed, Damaged
<1>3. CASE Damaged' = FALSE
  <2>1. Damaged' = Damaged
    BY <1>1, <1>3, DamageStays
  <2> QED BY <1>1, <2>1 DEF Record!recordVars, Committed, Damaged
<1> QED BY <1>1, <1>2, <1>3

\* The record is held to the same rules as the log.
LEMMA SameRules == \A h : Record!ValidHistory(h) <=> ValidHistory(h)
BY DEF Record!ValidHistory, Record!EventIsValid, Record!FirstIsValid,
   Record!ObservationIsValid, Record!TransitionIsValid, Record!ProbeRunning, Record!Before,
   Record!Allowed, Record!Terminal, Record!EndTypes, Record!Placeholder,
   ValidHistory, EventIsValid, FirstIsValid, ObservationIsValid, TransitionIsValid,
   ProbeRunning, Before, Allowed, Terminal, EndTypes, Placeholder

\* Writers only ever append.
LEMMA LogOnlyGrows ==
    ASSUME IInv, [Next]_vars
    PROVE  log' = log \/ (\E e \in Events : log' = Append(log, e)) \/ PowerLoss
<1>1. ASSUME NEW w \in Writers, WriterStep(w)
      PROVE  log' = log \/ \E e \in Events : log' = Append(log, e)
  <2>1. CASE AppendEvent(w)
    <3>1. plan[w].event \in Events
      BY <2>1 DEF IInv, PlanFits, AppendEvent, WriteSteps
    <3> QED BY <2>1, <3>1 DEF AppendEvent
  <2>2. CASE ~AppendEvent(w)
    BY <1>1, <2>2 DEF WriterStep, Lock, Release, Plan, CreateLog, FsyncLog, FsyncLogDirectory,
       StageState, InstallState, FsyncStateDirectory, UnlinkStaged, FsyncUnlink, logVars
  <2> QED BY <2>1, <2>2
<1>2. ASSUME NEW r \in Readers, ReaderStep(r) PROVE log' = log
  BY <1>2 DEF ReaderStep, LockShared, ReadWithoutLock, CheckExistence, ReadState, ReadEvents,
     logVars
<1>3. ASSUME NEW p \in Writers \cup Readers, Crash(p) PROVE log' = log
  BY <1>3 DEF Crash, logVars
<1>4. CASE UNCHANGED vars
  BY <1>4 DEF vars
<1> QED BY <1>1, <1>2, <1>3, <1>4 DEF Next

\* Installing a snapshot commits the event it is the snapshot of.
LEMMA InstallStep ==
    ASSUME IInv, RInv, NEW w \in Writers, InstallState(w), st' # st
    PROVE  Record!Commit
<1>1. /\ st'.seq = Len(log) /\ Len(log) = st.seq + 1 /\ Sound(log) /\ log' = log
      /\ ReaderAccepts(st', log) /\ entry' # "absent" /\ ~torn'
      /\ pc[w] \in WriteSteps /\ (pc'[w] \in WriteSteps \/ links' = 1)
  BY InstallCommits
<1>2. log \in Seq(Events) /\ Len(Committed) = st.seq
  BY CommittedHistory
<1>3. Committed' = log
  BY <1>1, <1>2, SubSeqFull DEF Committed
<1>4. Record!Extends(Committed', Committed)
  <2>1. Len(Committed') = Len(log) /\ Len(Committed) <= Len(log)
    BY <1>1, <1>2, <1>3
  <2>2. SubSeq(Committed', 1, Len(Committed)) = SubSeq(log, 1, st.seq)
    BY <1>2, <1>3
  <2>3. SubSeq(Committed', 1, Len(Committed)) = Committed
    BY <2>2 DEF Committed
  <2> QED BY <2>1, <2>3 DEF Record!Extends
<1>5. Record!ValidHistory(Committed')
  BY <1>1, <1>3, SameRules DEF Sound
<1>6. Damaged = FALSE
  BY <1>1 DEF Damaged, Writing
<1>7. Damaged' = FALSE
  <2>1. CASE pc'[w] \in WriteSteps
    BY <2>1 DEF Damaged, Writing
  <2>2. CASE links' = 1
    BY <1>1, <2>2 DEF Damaged, Readable
  <2> QED BY <1>1, <2>1, <2>2
<1>8. powerLosses' = powerLosses
  BY FileStepFrame DEF FileStep
<1> QED BY <1>1, <1>2, <1>3, <1>4, <1>5, <1>6, <1>7, <1>8 DEF Record!Commit, Committed, Damaged

\* A loss of power that takes the newest snapshot leaves its event in the log: the
\* record is damaged.  One that takes the directory leaves no record.
LEMMA PowerLossStep ==
    ASSUME IInv, DiskIsBehind, PowerLoss
    PROVE  Record!Lose
<1> USE DEF IInv, TypeOK
<1>1. /\ synced \in 0..Len(log)
      /\ st.seq \in Nat /\ stOnDisk.seq \in Nat /\ stOnDisk.seq <= st.seq /\ st.seq <= synced
      /\ pc' = [p \in Writers \cup Readers |-> "idle"]
      /\ powerLosses' = powerLosses + 1
  BY DEF PowerLoss, DiskIsBehind, SnapshotsBacked, Backed, LogShape, States
<1>2. Damaged' \in BOOLEAN
  BY DEF Damaged
<1> SUFFICES \/ Committed' = Committed
             \/ Record!Extends(Committed, Committed') /\ Damaged'
             \/ Committed' = << >> /\ ~Damaged'
  BY <1>1, <1>2 DEF Record!Lose, Committed, Damaged
<1>3. CASE LoseDirectory
  <2>1. log' = << >> /\ st'.seq = 0 /\ NothingThere'
    BY <1>3 DEF LoseDirectory, NoState, NothingThere
  <2>2. Committed' = << >>
    BY <2>1, SubSeqEmpty DEF Committed
  <2> QED BY <2>1, <2>2 DEF Damaged
<1>4. CASE KeepDirectory
  <2>1. st' \in {st, stOnDisk} /\ st'.seq \in Nat /\ st'.seq <= st.seq
    BY <1>1, <1>4 DEF KeepDirectory
  <2>2. CASE entry = "cached" /\ log' = << >>
    <3>1. st = NoState /\ st' = NoState
      BY <2>1, <2>2 DEF SnapshotsBacked, Backed
    <3>2. st'.seq = 0 /\ st.seq = 0
      BY <3>1 DEF NoState
    <3>3. Committed = << >> /\ Committed' = << >>
      BY <2>2, <3>2, SubSeqEmpty DEF Committed
    <3> QED BY <3>3
  <2>3. ASSUME entry' = IF entry = "cached" THEN "durable" ELSE entry,
               NEW k \in synced..Len(log), log' = SubSeq(log, 1, k)
        PROVE  Committed' = Committed \/ (Record!Extends(Committed, Committed') /\ Damaged')
    <3>1. k \in 0..Len(log) /\ st'.seq \in 0..k /\ Len(log') = k /\ st.seq <= k
      BY <1>1, <2>1, <2>3
    <3>2. Committed' = SubSeq(log, 1, st'.seq)
      BY <2>3, <3>1, PrefixOfPrefix DEF Committed
    <3>3. CASE st'.seq = st.seq
      BY <3>2, <3>3 DEF Committed
    <3>4. CASE st'.seq < st.seq
      <4>1. Record!Extends(Committed, Committed')
        <5>1. st'.seq \in 0..st.seq /\ st.seq \in 0..Len(log)
          BY <1>1, <3>1, <3>4
        <5>2. SubSeq(SubSeq(log, 1, st.seq), 1, st'.seq) = SubSeq(log, 1, st'.seq)
          BY <5>1, PrefixOfPrefix
        <5>3. Len(Committed') = st'.seq /\ Len(Committed) = st.seq
          BY <3>2, <5>1 DEF Committed
        <5>4. Len(Committed') <= Len(Committed)
          BY <1>1, <3>4, <5>3
        <5>5. SubSeq(Committed, 1, Len(Committed')) = Committed'
          BY <3>2, <5>2, <5>3 DEF Committed
        <5> QED BY <5>4, <5>5 DEF Record!Extends
      <4>2. ~NothingThere'
        <5>1. st # NoState
          BY <3>1, <3>4 DEF NoState
        <5>2. entry = "durable"
          BY <5>1 DEF SnapshotsBacked, Backed
        <5> QED BY <2>3, <5>2 DEF NothingThere
      <4>3. ~Readable'
        <5>1. Len(log') # st'.seq
          BY <1>1, <3>1, <3>4
        <5>2. ~PairAgrees(st', log')
          BY <5>1 DEF PairAgrees
        <5> QED BY <5>2 DEF Readable, ReaderAccepts
      <4>4. \A w \in Writers : ~Writing(w)'
        BY <1>1 DEF Writing, WriteSteps
      <4> QED BY <4>1, <4>2, <4>3, <4>4 DEF Damaged
    <3> QED BY <1>1, <2>1, <3>1, <3>3, <3>4
  <2> QED BY <1>4, <2>2, <2>3 DEF KeepDirectory
<1> QED BY <1>3, <1>4 DEF PowerLoss

\* state.json and events.jsonl implement one record that only grows by valid events,
\* to which nothing is added while its readers refuse it, and of which only a loss
\* of power takes anything back.
THEOREM FilesImplementRecord == Spec => ImplementsRecord
<1>1. Init => Record!RecordInit
  <2> SUFFICES ASSUME Init PROVE Record!RecordInit
    OBVIOUS
  <2>1. log = << >> /\ st.seq = 0 /\ NothingThere
    BY DEF Init, NoState, NothingThere
  <2>2. Committed = << >>
    BY <2>1, SubSeqEmpty DEF Committed
  <2>3. Damaged = FALSE
    BY <2>1 DEF Damaged
  <2>4. powerLosses = 0
    BY DEF Init
  <2> QED BY <2>2, <2>3, <2>4 DEF Record!RecordInit, Committed, Damaged
<1>2. IInv /\ RInv /\ DiskIsBehind /\ [Next]_vars => [Record!RecordNext]_Record!recordVars
  <2> SUFFICES ASSUME IInv, RInv, DiskIsBehind, [Next]_vars
               PROVE  Record!RecordNext \/ UNCHANGED Record!recordVars
    OBVIOUS
  <2>1. CASE PowerLoss
    BY <2>1, PowerLossStep DEF Record!RecordNext
  <2>2. ASSUME NEW w \in Writers, InstallState(w), st' # st PROVE Record!RecordNext
    BY <2>2, InstallStep DEF Record!RecordNext
  <2>3. CASE st' = st /\ ~PowerLoss
    <3>1. log \in Seq(Events) /\ st.seq \in 0..Len(log)
      BY CommittedHistory
    <3>2. Committed' = Committed
      BY <2>3, <3>1, LogOnlyGrows, PrefixOfAppend DEF Committed
    <3> QED BY <2>3, <3>2, SameCommitted DEF Record!RecordNext
  <2> QED BY <2>1, <2>2, <2>3, OtherStepsKeepState
<1> QED BY <1>1, <1>2, InvariantHolds, PTL DEF Spec, ImplementsRecord, Record!RecordSpec
=============================================================================
