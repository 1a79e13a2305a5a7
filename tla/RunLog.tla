------------------------------- MODULE RunLog -------------------------------
(***************************************************************************)
(* events.jsonl and state.json, written and read one system call at a time *)
(* (transitions.py, append_event_at, write_state_atomic_at, and the reads  *)
(* of validate_persistence).                                               *)
(*                                                                         *)
(* Writers hold the persistence lock exclusively, readers share it; one    *)
(* kind of reader, _existing_run_before_preflight on a repository without  *)
(* lock directories, reads without it.  Every write can fail or be short,  *)
(* every fsync can fail, a process can be killed between two calls, and a  *)
(* loss of power keeps only what fsync has made durable and any part of    *)
(* the rest.  The runtime directory itself, which the first run makes, is  *)
(* never synced in its parent: a loss of power can take it with all that   *)
(* is in it, synced or not.                                                *)
(***************************************************************************)
EXTENDS RunHistory, FiniteSets

CONSTANTS
    Writers,          \* controller processes
    Readers,          \* status processes, and runs before their preflight
    MaxFaults,        \* bounds on failing system calls,
    MaxCrashes,       \* killed processes
    MaxPowerLosses    \* and losses of power

ASSUME LogAssumption ==
    /\ Writers \cap Readers = {}
    /\ None \notin Writers
    /\ MaxFaults \in Nat /\ MaxCrashes \in Nat /\ MaxPowerLosses \in Nat

VARIABLES
    directory,   \* the runtime directory's own entry: "absent", "cached", "durable"
    log,         \* the complete lines of events.jsonl
    torn,        \* a partial line follows them
    entry,       \* events.jsonl's directory entry: "absent", "cached", "durable"
    synced,      \* how many of the lines survive a loss of power
    st,          \* the snapshot state.json names
    links,       \* its link count: 2 while the first one is also named *.tmp
    stOnDisk,    \* the snapshot the directory on disk names
    settled,     \* the directory on disk agrees about links as well
    holder,      \* who holds the persistence lock exclusively
    pc,          \* the next system call of each writer and reader
    plan,        \* the event and the snapshot a writer is about to persist
    view,        \* what a reader has read so far
    seen,        \* history: the longest log any reader has accepted, and
    acknowledged,\* the events whose writer reported success, in this directory
    faults, crashes, powerLosses

logVars == <<directory, log, torn, entry, synced>>
stVars == <<st, links, stOnDisk, settled>>
readVars == <<view, seen>>
budget == <<faults, crashes, powerLosses>>
vars == <<directory, log, torn, entry, synced, st, links, stOnDisk, settled, holder, pc,
          plan, view, seen, acknowledged, faults, crashes, powerLosses>>

WriteSteps == {"create", "append", "fsyncLog", "fsyncLogDir", "stage", "install",
               "fsyncStateDir", "unlink", "fsyncUnlink"}
WriterSteps == {"idle", "plan", "release"} \cup WriteSteps
ReaderSteps == {"idle", "exist", "state", "events"}

NoPlan == [event |-> NoState, snapshot |-> NoState]
NoView == [locked |-> FALSE, st |-> NoState]

TypeOK ==
    /\ directory \in {"absent", "cached", "durable"}
    /\ log \in Seq(Events) /\ torn \in BOOLEAN
    /\ entry \in {"absent", "cached", "durable"}
    /\ synced \in Nat
    /\ st \in States /\ stOnDisk \in States
    /\ links \in 0..2 /\ settled \in BOOLEAN
    /\ holder \in Writers \cup {None}
    /\ pc \in [Writers \cup Readers -> WriterSteps \cup ReaderSteps]
    /\ plan \in [Writers -> [event: Events, snapshot: States] \cup {NoPlan}]
    /\ view \in [Readers -> [locked: BOOLEAN, st: States]]
    /\ seen \in Seq(Events)
    /\ acknowledged \in Nat
    /\ faults \in 0..MaxFaults /\ crashes \in 0..MaxCrashes
    /\ powerLosses \in 0..MaxPowerLosses

Init ==
    /\ directory = "absent"
    /\ log = << >> /\ torn = FALSE /\ entry = "absent" /\ synced = 0
    /\ st = NoState /\ links = 0 /\ stOnDisk = NoState /\ settled = TRUE
    /\ holder = None
    /\ pc = [p \in Writers \cup Readers |-> "idle"]
    /\ plan = [w \in Writers |-> NoPlan]
    /\ view = [r \in Readers |-> NoView]
    /\ seen = << >> /\ acknowledged = 0
    /\ faults = 0 /\ crashes = 0 /\ powerLosses = 0

Sharing == {r \in Readers : view[r].locked}

Goto(p, step) == pc' = [pc EXCEPT ![p] = step]

\* A system call of writer w fails; the exception releases the lock.
Fault(w) ==
    /\ faults < MaxFaults
    /\ faults' = faults + 1
    /\ Goto(w, "release")
    /\ UNCHANGED <<crashes, powerLosses>>

-----------------------------------------------------------------------------
(* Writers *)

Lock(w) ==
    /\ pc[w] = "idle" /\ holder = None /\ Sharing = {}
    /\ holder' = w
    /\ Goto(w, "plan")
    /\ UNCHANGED <<logVars, stVars, plan, readVars, acknowledged, budget>>

\* persist_initial opens the runtime directory with create=True before it looks
\* into it; open_directory syncs no parent.
MakeDirectory(r) ==
    directory' = IF r.kind = "initial" /\ directory = "absent" THEN "cached" ELSE directory

\* Mutant of Plan: a partial last line or a doubly linked snapshot is let pass.
PlanUnread(w, r) ==
    /\ pc[w] = "plan"
    /\ LET e == NextEvent(st, r) IN
       IF MayWrite(st, log, entry # "absent", r)
         THEN /\ plan' = [plan EXCEPT ![w] = [event |-> e, snapshot |-> Apply(st, e)]]
              /\ Goto(w, IF r.kind = "initial" THEN "create" ELSE "append")
         ELSE /\ Goto(w, "release")
              /\ UNCHANGED plan
    /\ MakeDirectory(r)
    /\ UNCHANGED <<log, torn, entry, synced, stVars, holder, readVars, acknowledged, budget>>

\* For request r: load the durable pair, check the guards and compute the next
\* pair from the durable snapshot, never from the caller's copy.
Plan(w, r) ==
    /\ pc[w] = "plan"
    /\ LET e == NextEvent(st, r)
           readable == r.kind = "initial" \/ (entry # "absent" /\ ~torn /\ links = 1)
       IN  IF readable /\ MayWrite(st, log, entry # "absent", r)
             THEN /\ plan' = [plan EXCEPT ![w] = [event |-> e, snapshot |-> Apply(st, e)]]
                  /\ Goto(w, IF r.kind = "initial" THEN "create" ELSE "append")
             ELSE /\ Goto(w, "release")
                  /\ UNCHANGED plan
    /\ MakeDirectory(r)
    /\ UNCHANGED <<log, torn, entry, synced, stVars, holder, readVars, acknowledged, budget>>

\* append_event_at opens the first log with O_CREAT | O_EXCL.
CreateLog(w) ==
    /\ pc[w] = "create"
    /\ entry' = "cached"
    /\ Goto(w, "append")
    /\ UNCHANGED <<directory, log, torn, synced, stVars, holder, plan, readVars,
                   acknowledged, budget>>

AppendEvent(w) ==
    /\ pc[w] = "append"
    /\ \/ /\ log' = Append(log, plan[w].event)
          /\ Goto(w, "fsyncLog")
          /\ UNCHANGED <<torn, budget>>
       \/ \* a short write, or none at all
          /\ torn' \in BOOLEAN
          /\ Fault(w)
          /\ UNCHANGED log
    /\ UNCHANGED <<directory, entry, synced, stVars, holder, plan, readVars, acknowledged>>

\* Mutant of FsyncLog: the appended line is not synced.
SkipFsyncLog(w) ==
    /\ pc[w] = "fsyncLog"
    /\ Goto(w, "fsyncLogDir")
    /\ UNCHANGED <<logVars, stVars, holder, plan, readVars, acknowledged, budget>>

FsyncLog(w) ==
    /\ pc[w] = "fsyncLog"
    /\ \/ synced' = Len(log) /\ Goto(w, "fsyncLogDir") /\ UNCHANGED budget
       \/ Fault(w) /\ UNCHANGED synced
    /\ UNCHANGED <<directory, log, torn, entry, stVars, holder, plan, readVars,
                   acknowledged>>

\* An fsync of the directory makes every one of its entries durable.
SyncDirectory ==
    /\ entry' = IF entry = "absent" THEN "absent" ELSE "durable"
    /\ stOnDisk' = st
    /\ settled' = TRUE

\* Mutant of FsyncLogDirectory: the new log's directory entry is not synced.
SkipFsyncLogDirectory(w) ==
    /\ pc[w] = "fsyncLogDir"
    /\ Goto(w, "stage")
    /\ UNCHANGED <<logVars, stVars, holder, plan, readVars, acknowledged, budget>>

FsyncLogDirectory(w) ==
    /\ pc[w] = "fsyncLogDir"
    /\ \/ SyncDirectory /\ Goto(w, "stage") /\ UNCHANGED budget
       \/ Fault(w) /\ UNCHANGED <<entry, stOnDisk, settled>>
    /\ UNCHANGED <<directory, log, torn, synced, st, links, holder, plan, readVars,
                   acknowledged>>

\* Write and fsync .state-*.tmp; a failure removes it again.
StageState(w) ==
    /\ pc[w] = "stage"
    /\ \/ Goto(w, "install") /\ UNCHANGED budget
       \/ Fault(w)
    /\ UNCHANGED <<logVars, stVars, holder, plan, readVars, acknowledged>>

\* The first snapshot is linked to its name, a later one exchanged with its
\* predecessor.
InstallState(w) ==
    /\ pc[w] = "install"
    /\ \/ /\ st' = plan[w].snapshot
          /\ links' = IF st = NoState THEN 2 ELSE 1
          /\ settled' = FALSE
          /\ Goto(w, "fsyncStateDir")
          /\ UNCHANGED budget
       \/ Fault(w) /\ UNCHANGED <<st, links, settled>>
       \/ \* the check after the exchange fails, and so does exchanging back
          /\ st # NoState
          /\ st' = plan[w].snapshot
          /\ settled' = FALSE
          /\ Fault(w)
          /\ UNCHANGED links
    /\ UNCHANGED <<logVars, stOnDisk, holder, plan, readVars, acknowledged>>

\* When this fsync fails the new snapshot stays in place: only the temporary
\* name is removed, and the directory is synced again if that works now.
FsyncStateDirectory(w) ==
    /\ pc[w] = "fsyncStateDir"
    /\ \/ SyncDirectory /\ Goto(w, "unlink") /\ UNCHANGED <<links, budget>>
       \/ /\ Fault(w)
          /\ links' = 1
          /\ SyncDirectory \/ UNCHANGED <<entry, stOnDisk, settled>>
    /\ UNCHANGED <<directory, log, torn, synced, st, holder, plan, readVars, acknowledged>>

UnlinkStaged(w) ==
    /\ pc[w] = "unlink"
    /\ \/ /\ links' = 1 /\ settled' = FALSE
          /\ Goto(w, "fsyncUnlink")
          /\ UNCHANGED budget
       \/ \* the finally block tries once more
          Fault(w) /\ links' \in {links, 1} /\ settled' = (settled /\ links' = links)
    /\ UNCHANGED <<logVars, st, stOnDisk, holder, plan, readVars, acknowledged>>

\* Only now does the caller learn of success.
FsyncUnlink(w) ==
    /\ pc[w] = "fsyncUnlink"
    /\ \/ /\ SyncDirectory
          /\ acknowledged' = st.seq
          /\ Goto(w, "release")
          /\ UNCHANGED budget
       \/ Fault(w) /\ UNCHANGED <<entry, stOnDisk, settled, acknowledged>>
    /\ UNCHANGED <<directory, log, torn, synced, st, links, holder, plan, readVars>>

Release(w) ==
    /\ pc[w] = "release"
    /\ holder' = None
    /\ Goto(w, "idle")
    /\ plan' = [plan EXCEPT ![w] = NoPlan]
    /\ UNCHANGED <<logVars, stVars, readVars, acknowledged, budget>>

-----------------------------------------------------------------------------
(* Readers *)

LockShared(r) ==
    /\ pc[r] = "idle" /\ holder = None
    /\ view' = [view EXCEPT ![r] = [NoView EXCEPT !.locked = TRUE]]
    /\ Goto(r, "exist")
    /\ UNCHANGED <<logVars, stVars, holder, plan, seen, acknowledged, budget>>

\* _existing_run_before_preflight, when the lock directories are not there.
ReadWithoutLock(r) ==
    /\ pc[r] = "idle"
    /\ Goto(r, "exist")
    /\ UNCHANGED <<logVars, stVars, holder, plan, readVars, acknowledged, budget>>

Conclude(r) ==
    /\ Goto(r, "idle")
    /\ view' = [view EXCEPT ![r] = NoView]

\* Both files must exist; otherwise there is no run, or an inconsistent one.
CheckExistence(r) ==
    /\ pc[r] = "exist"
    /\ IF st # NoState /\ entry # "absent"
         THEN Goto(r, "state") /\ UNCHANGED view
         ELSE Conclude(r)
    /\ UNCHANGED <<logVars, stVars, holder, plan, seen, acknowledged, budget>>

\* open_regular_at refuses a snapshot that still has its temporary name.
ReadState(r) ==
    /\ pc[r] = "state"
    /\ IF links = 1
         THEN /\ view' = [view EXCEPT ![r].st = st]
              /\ Goto(r, "events")
         ELSE Conclude(r)
    /\ UNCHANGED <<logVars, stVars, holder, plan, seen, acknowledged, budget>>

\* load_events_at refuses a partial line; the cross-check decides the rest.
ReadEvents(r) ==
    /\ pc[r] = "events"
    /\ seen' = IF ~torn /\ ReaderAccepts(view[r].st, log) THEN log ELSE seen
    /\ Conclude(r)
    /\ UNCHANGED <<logVars, stVars, holder, plan, acknowledged, budget>>

-----------------------------------------------------------------------------
(* Failures *)

\* Process p is killed: the kernel releases its lock, nothing else happens.
Crash(p) ==
    /\ crashes < MaxCrashes
    /\ pc[p] # "idle"
    /\ crashes' = crashes + 1
    /\ Goto(p, "idle")
    /\ holder' = IF holder = p THEN None ELSE holder
    /\ plan' = [w \in Writers |-> IF w = p THEN NoPlan ELSE plan[w]]
    /\ view' = [r \in Readers |-> IF r = p THEN NoView ELSE view[r]]
    /\ UNCHANGED <<logVars, stVars, seen, acknowledged, faults, powerLosses>>

\* The directory survives.  Whatever was not synced survives in part: unsynced
\* lines from the end backwards, the last of them possibly cut; unsynced directory
\* entries either way, the two of them independently.
KeepDirectory ==
    /\ directory' = IF directory = "cached" THEN "durable" ELSE directory
    /\ \/ /\ entry = "cached"
          /\ entry' = "absent" /\ log' = << >> /\ torn' = FALSE
       \/ /\ entry' = IF entry = "cached" THEN "durable" ELSE entry
          /\ \E k \in synced..Len(log) :
                /\ log' = SubSeq(log, 1, k)
                /\ torn' \in IF k < Len(log) \/ torn THEN BOOLEAN ELSE {FALSE}
    /\ st' \in {st, stOnDisk}
    /\ links' \in CASE st' = NoState -> {0}
                    [] settled -> {links}
                    [] OTHER -> IF st'.seq = 1 THEN {1, 2} ELSE {1}
    /\ UNCHANGED <<seen, acknowledged>>

\* The directory goes, with the synced files in it; what was read from it or
\* reported of it is counted anew.
LoseDirectory ==
    /\ directory = "cached" /\ directory' = "absent"
    /\ log' = << >> /\ torn' = FALSE /\ entry' = "absent"
    /\ st' = NoState /\ links' = 0
    /\ seen' = << >> /\ acknowledged' = 0

PowerLoss ==
    /\ powerLosses < MaxPowerLosses
    /\ powerLosses' = powerLosses + 1
    /\ KeepDirectory \/ LoseDirectory
    /\ synced' = Len(log')
    /\ stOnDisk' = st'
    /\ settled' = TRUE
    /\ holder' = None
    /\ pc' = [p \in Writers \cup Readers |-> "idle"]
    /\ plan' = [w \in Writers |-> NoPlan]
    /\ view' = [r \in Readers |-> NoView]
    /\ UNCHANGED <<faults, crashes>>

-----------------------------------------------------------------------------
WriterStep(w) ==
    \/ \E r \in Requests : Plan(w, r)
    \/ Lock(w) \/ CreateLog(w) \/ AppendEvent(w) \/ FsyncLog(w)
    \/ FsyncLogDirectory(w) \/ StageState(w) \/ InstallState(w)
    \/ FsyncStateDirectory(w) \/ UnlinkStaged(w) \/ FsyncUnlink(w) \/ Release(w)

ReaderStep(r) ==
    LockShared(r) \/ ReadWithoutLock(r) \/ CheckExistence(r) \/ ReadState(r) \/ ReadEvents(r)

Next ==
    \/ \E w \in Writers : WriterStep(w)
    \/ \E r \in Readers : ReaderStep(r)
    \/ \E p \in Writers \cup Readers : Crash(p)
    \/ PowerLoss

Spec == Init /\ [][Next]_vars

-----------------------------------------------------------------------------
(* Properties *)

\* What a reader with the lock would make of the files now.
Readable == entry # "absent" /\ ~torn /\ links = 1 /\ ReaderAccepts(st, log)
NothingThere == entry = "absent" /\ st = NoState
Writing(w) == pc[w] \in WriteSteps

\* The event is made durable before the snapshot is installed: at every moment,
\* and after any crash, failed call or loss of power, the snapshot is
\* what a prefix of the log leads to ("Event log is behind persisted state" is
\* unreachable).
StateNeverAhead ==
    st # NoState => /\ st.seq <= Len(log)
                    /\ st = SnapshotOf(SubSeq(log, 1, st.seq))

\* An observation or a transition that returned survives every failed call, every
\* death, and every loss of power that leaves the runtime directory: its event is
\* synced and the snapshot has caught up with it.  A loss of power that takes the
\* directory, which nobody syncs in its parent, takes everything.
AcknowledgedSurvives ==
    acknowledged <= synced /\ acknowledged <= Len(log) /\ acknowledged <= st.seq

\* Whatever the guards of transition and observe let through, in any order of
\* requests, readers accept: without a failure nobody who holds the lock ever
\* sees an inconsistent pair.
UndisturbedIsReadable ==
    faults + crashes + powerLosses = 0 /\ holder = None => NothingThere \/ Readable

\* What readers accept only ever grows: no status reports a run in an earlier
\* state, or another run, than a status before it, with or without the lock, after
\* a loss of power as well; unless that takes the runtime directory, and then it
\* leaves no run at all to report.
AcceptedOnlyGrows ==
    [][ \/ Len(seen) <= Len(seen') /\ SubSeq(seen', 1, Len(seen)) = seen
        \/ /\ powerLosses' # powerLosses
           /\ directory' = "absent" /\ NothingThere'
      ]_seen

\* No writer begins to write on a pair that readers refuse: inconsistent evidence
\* stays as the failure left it, whichever process comes next.
FirstWrite(w) == IF plan[w].event.type = "run.started" THEN "create" ELSE "append"

InconsistentEvidenceUntouched ==
    [][ \/ powerLosses' # powerLosses
        \/ \E w \in Writers :
              /\ Writing(w)
              /\ pc[w] = FirstWrite(w) => NothingThere \/ Readable
      ]_<<log, torn, entry, st, links>>

\* The two files implement one record that grows event by event.
Record == INSTANCE RunRecord WITH
    committed <- SubSeq(log, 1, st.seq),
    damaged <- (\A w \in Writers : ~Writing(w)) /\ ~NothingThere /\ ~Readable,
    losses <- powerLosses

ImplementsRecord == Record!RecordSpec
=============================================================================
