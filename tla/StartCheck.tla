----------------------------- MODULE StartCheck -----------------------------
(***************************************************************************)
(* How "sprint-loop run" finds out whether a run exists, while other runs  *)
(* start, progress and die.                                                *)
(*                                                                         *)
(* Before anything is created a starter looks at the state and the event   *)
(* log under a shared persistence lock, but only if the lock's directories *)
(* exist (cli._existing_run_before_preflight): where one is missing it     *)
(* looks without a lock and starts over if the anchor has appeared since.  *)
(* Having passed, it takes ownership, looks again under the exclusive      *)
(* lock and writes the first event and the first state                     *)
(* (transitions.persist_initial); every later event and state is a pair of *)
(* the same kind (transitions.transition, observe).                        *)
(*                                                                         *)
(* A log and a state that agree are then compared with the records of the  *)
(* invocation (invocations.validate_invocation_records).  Those are        *)
(* written without the persistence lock, between two events, and are not   *)
(* acceptable while that lasts, nor from the event agent.started until the *)
(* metadata names the session: "records" says whether they are, whatever   *)
(* they contain.  InvocationFiles and Controller say what they contain.    *)
(*                                                                         *)
(* The directories are those of AnchorLock, here with the operations on    *)
(* one of them taken in one step where nothing else can tell: a missing    *)
(* directory is made and opened, and a lock released, atomically.  Status  *)
(* and a run take the lock alike, so a status process adds nothing.        *)
(***************************************************************************)
EXTENDS Naturals, FiniteSets

CONSTANTS
    Starters,    \* processes running "sprint-loop run"
    Nobody,      \* the ownership lock is free
    LastEvent,   \* the events a run writes
    MaxRemovals, \* bound on lock directories removed by something else
    MaxDeaths    \* bound on starters killed

ASSUME StartAssumption ==
    /\ Nobody \notin Starters
    /\ LastEvent \in Nat \ {0}
    /\ MaxRemovals \in Nat
    /\ MaxDeaths \in Nat

Levels == {"namespace", "anchor"}
Absent == 0                   \* no directory at the path; inodes are 1, 2, ...

VARIABLES
    path,      \* path[l]: the inode the lock directory's path names
    fresh,     \* the next inode number
    removals,  \* lock directories removed so far
    deaths,    \* starters killed so far
    owner,     \* the holder of the ownership lock
    events,    \* the sequence of the last event in the log, 0: no log
    state,     \* the last_event_sequence of the state, 0: no state
    records,   \* "settled": the invocation's records fit events and state
    exposed,   \* the starters that read them when, or while, they did not
    pc,        \* pc[p]: what p does next
    work,      \* work[p]: what p takes the persistence lock for
    at,        \* at[p]: the level p is locking
    fd,        \* fd[p][l]: the inode p opened
    held,      \* held[p]: the levels p holds a flock on
    saw,       \* saw[p]: what p has read: the state and the event log
    answer,    \* answer[p]: what p's run has come to
    late       \* late[p]: the log had its first event when p began

vars == <<path, fresh, removals, deaths, owner, events, state, records, exposed,
          pc, work, at, fd, held, saw, answer, late>>
files == <<events, state, records, exposed>>
locks == <<path, fresh, at, fd, held>>
faults == <<removals, deaths>>

Steps == {"off", "open", "flock", "current", "lookState", "lookEvents", "loadState",
          "loadEvents", "loadRecords", "anchorExists", "preflight", "own", "append", "install",
          "between", "recording", "ended", "dead"}
\* "bare" is the check without a lock, "initial" the locked section of a new
\* run, "later" that of each further event
Works == {"check", "bare", "initial", "later"}
Answers == {"none", "run_already_exists", "inconsistent_persistence",
            "inconsistent_invocation_record", "run_already_active", "persistence_failed",
            "preflight", "finished"}

TypeOK ==
    /\ path \in [Levels -> 0 .. fresh - 1]
    /\ fresh \in Nat \ {0}
    /\ removals \in 0 .. MaxRemovals
    /\ deaths \in 0 .. MaxDeaths
    /\ owner \in Starters \cup {Nobody}
    /\ events \in 0 .. LastEvent
    /\ state \in 0 .. LastEvent
    /\ records \in {"settled", "unsettled"}
    /\ exposed \subseteq Starters
    /\ pc \in [Starters -> Steps]
    /\ work \in [Starters -> Works]
    /\ at \in [Starters -> Levels]
    /\ fd \in [Starters -> [Levels -> 0 .. fresh - 1]]
    /\ held \in [Starters -> SUBSET Levels]
    /\ saw \in [Starters -> [state : 0 .. LastEvent, events : 0 .. LastEvent]]
    /\ answer \in [Starters -> Answers]
    /\ late \in [Starters -> BOOLEAN]

Unread == [state |-> 0, events |-> 0]

Init ==
    /\ path = [l \in Levels |-> Absent]
    /\ fresh = 1
    /\ removals = 0
    /\ deaths = 0
    /\ owner = Nobody
    /\ events = 0
    /\ state = 0
    /\ records = "settled"
    /\ exposed = {}
    /\ pc = [p \in Starters |-> "off"]
    /\ work = [p \in Starters |-> "check"]
    /\ at = [p \in Starters |-> "namespace"]
    /\ fd = [p \in Starters |-> [l \in Levels |-> Absent]]
    /\ held = [p \in Starters |-> {}]
    /\ saw = [p \in Starters |-> Unread]
    /\ answer = [p \in Starters |-> "none"]
    /\ late = [p \in Starters |-> FALSE]

----------------------------------------------------------------------------
(* The persistence lock. *)

Exclusive(p) == work[p] \in {"initial", "later"}

GoTo(p, s) == pc' = [pc EXCEPT ![p] = s]

\* The process leaves the lock: unlocked and closed, innermost first.
Release(p) == held' = [held EXCEPT ![p] = {}] /\ UNCHANGED <<path, fresh, at, fd>>

\* The run of p ends with an answer: every lock it holds goes with it.
End(p, a) ==
    /\ answer' = [answer EXCEPT ![p] = a]
    /\ GoTo(p, "ended")
    /\ Release(p)
    /\ owner' = IF owner = p THEN Nobody ELSE owner
    /\ UNCHANGED <<work, saw>>

\* Begin taking the lock for w.
Take(p, w) ==
    /\ work' = [work EXCEPT ![p] = w]
    /\ at' = [at EXCEPT ![p] = "namespace"]
    /\ saw' = [saw EXCEPT ![p] = Unread]
    /\ GoTo(p, "open")

Start(p) ==
    /\ pc[p] = "off"
    /\ Take(p, "check")
    /\ late' = [late EXCEPT ![p] = events > 0]
    /\ UNCHANGED <<path, fresh, fd, held, owner, answer, files, faults>>

\* open_directory: a check does not create, a run does.
Open(p) ==
    /\ pc[p] = "open"
    /\ \/ /\ path[at[p]] # Absent
          /\ fd' = [fd EXCEPT ![p][at[p]] = path[at[p]]]
          /\ GoTo(p, "flock")
          /\ UNCHANGED <<path, fresh, at, held, work, saw>>
       \/ /\ path[at[p]] = Absent
          /\ Exclusive(p)
          /\ path' = [path EXCEPT ![at[p]] = fresh]
          /\ fd' = [fd EXCEPT ![p][at[p]] = fresh]
          /\ fresh' = fresh + 1
          /\ GoTo(p, "flock")
          /\ UNCHANGED <<at, held, work, saw>>
       \/ /\ path[at[p]] = Absent
          /\ ~Exclusive(p)
          /\ work' = [work EXCEPT ![p] = "bare"]
          /\ saw' = [saw EXCEPT ![p] = Unread]
          /\ GoTo(p, "lookState")
          /\ Release(p)
    /\ UNCHANGED <<owner, answer, files, faults, late>>

Conflict(p, l) ==
    \E q \in Starters \ {p} :
        l \in held[q] /\ fd[q][l] = fd[p][l] /\ (Exclusive(p) \/ Exclusive(q))

\* Mutant of Flock: a shared lock does not wait for an exclusive one.
FlockWithoutWaiting(p) ==
    /\ pc[p] = "flock"
    /\ Exclusive(p) => ~Conflict(p, at[p])
    /\ held' = [held EXCEPT ![p] = @ \cup {at[p]}]
    /\ GoTo(p, "current")
    /\ UNCHANGED <<path, fresh, at, fd, work, saw, owner, answer, files, faults, late>>

\* flock, which blocks; both modes go by what the lock is for.
Flock(p) ==
    /\ pc[p] = "flock"
    /\ ~Conflict(p, at[p])
    /\ held' = [held EXCEPT ![p] = @ \cup {at[p]}]
    /\ GoTo(p, "current")
    /\ UNCHANGED <<path, fresh, at, fd, work, saw, owner, answer, files, faults, late>>

\* Mutant of Current: the exclusive section does not look again.
CurrentWithoutRecheck(p) ==
    /\ pc[p] = "current"
    /\ path[at[p]] = fd[p][at[p]]
    /\ \/ /\ at[p] = "namespace"
          /\ at' = [at EXCEPT ![p] = "anchor"]
          /\ GoTo(p, "open")
       \/ /\ at[p] = "anchor"
          /\ GoTo(p, IF Exclusive(p) THEN "append" ELSE "lookState")
          /\ UNCHANGED at
    /\ UNCHANGED <<path, fresh, fd, held, work, saw, owner, answer, files, faults, late>>

\* ensure_current, then the inner lock or the work itself.
Current(p) ==
    /\ pc[p] = "current"
    /\ \/ /\ path[at[p]] # fd[p][at[p]]
          /\ End(p, "persistence_failed")
          /\ UNCHANGED <<files, faults, late>>
       \/ /\ path[at[p]] = fd[p][at[p]]
          /\ at[p] = "namespace"
          /\ at' = [at EXCEPT ![p] = "anchor"]
          /\ GoTo(p, "open")
          /\ UNCHANGED <<path, fresh, fd, held, work, saw, owner, answer, files, faults, late>>
       \/ /\ path[at[p]] = fd[p][at[p]]
          /\ at[p] = "anchor"
          /\ GoTo(p, IF work[p] = "later" THEN "append" ELSE "lookState")
          /\ UNCHANGED <<locks, work, saw, owner, answer, files, faults, late>>

----------------------------------------------------------------------------
(* _existing_run, under the lock or without it. *)

LookState(p) ==
    /\ pc[p] = "lookState"
    /\ saw' = [saw EXCEPT ![p].state = state]
    /\ GoTo(p, "lookEvents")
    /\ UNCHANGED <<locks, work, owner, answer, files, faults, late>>

\* There is no run: a check goes on to the preflight, without its lock; one
\* made without the lock first asks for the anchor; a run starts.
NoRunFound(p) ==
    /\ saw[p].state = 0
    /\ events = 0
    /\ CASE work[p] = "check" -> GoTo(p, "preflight") /\ Release(p)
         [] work[p] = "bare" -> GoTo(p, "anchorExists") /\ UNCHANGED locks
         [] OTHER -> GoTo(p, "append") /\ UNCHANGED locks
    /\ UNCHANGED <<work, saw, owner, answer>>

LookEvents(p) ==
    /\ pc[p] = "lookEvents"
    /\ \/ NoRunFound(p)
       \/ /\ (saw[p].state = 0) # (events = 0)
          /\ End(p, "inconsistent_persistence")
       \/ /\ saw[p].state > 0
          /\ events > 0
          /\ GoTo(p, "loadState")
          /\ UNCHANGED <<locks, work, saw, owner, answer>>
    /\ UNCHANGED <<files, faults, late>>

\* validate_persistence: the state, then the log, then whether they agree.
LoadState(p) ==
    /\ pc[p] = "loadState"
    /\ saw' = [saw EXCEPT ![p].state = state]
    /\ GoTo(p, "loadEvents")
    /\ UNCHANGED <<locks, work, owner, answer, files, faults, late>>

LoadEvents(p) ==
    /\ pc[p] = "loadEvents"
    /\ \/ /\ events # saw[p].state
          /\ End(p, "inconsistent_persistence")
          /\ UNCHANGED exposed
       \/ /\ events = saw[p].state
          /\ GoTo(p, "loadRecords")
          /\ exposed' = IF records = "settled" THEN exposed \ {p} ELSE exposed \cup {p}
          /\ UNCHANGED <<locks, work, saw, owner, answer>>
    /\ UNCHANGED <<events, state, records, faults, late>>

\* validate_invocation_records, from its first reading (with LoadEvents) to its
\* last: records that were settled all the time are accepted, any others may be.
LoadRecords(p) ==
    /\ pc[p] = "loadRecords"
    /\ \/ End(p, "run_already_exists")
       \/ p \in exposed /\ End(p, "inconsistent_invocation_record")
    /\ UNCHANGED <<files, faults, late>>

\* Mutant of AnchorExists: the check is repeated until the lock can be taken.
AnchorExistsAlways(p) ==
    /\ pc[p] = "anchorExists"
    /\ Take(p, "check")
    /\ UNCHANGED <<path, fresh, fd, held, owner, answer, files, faults, late>>

\* persistence_lock.exists(), asked after a look without the lock.
AnchorExists(p) ==
    /\ pc[p] = "anchorExists"
    /\ \/ /\ path["anchor"] = Absent
          /\ GoTo(p, "preflight")
          /\ UNCHANGED <<at, work, saw>>
       \/ /\ path["anchor"] # Absent
          /\ Take(p, "check")
    /\ UNCHANGED <<path, fresh, fd, held, owner, answer, files, faults, late>>

----------------------------------------------------------------------------
(* The run itself. *)

\* validate_preflight and the server validation pass before ownership is
\* asked for; the preflight is repeated in the first locked section.
PreflightPasses(p) ==
    /\ pc[p] = "preflight"
    /\ GoTo(p, "own")
    /\ UNCHANGED <<locks, work, saw, owner, answer, files, faults, late>>

PreflightFails(p) ==
    /\ pc[p] = "preflight" \/ (pc[p] = "append" /\ work[p] = "initial")
    /\ End(p, "preflight")
    /\ UNCHANGED <<files, faults, late>>

\* ownership_lock(blocking=False).
Own(p) ==
    /\ pc[p] = "own"
    /\ \/ /\ owner = Nobody
          /\ owner' = p
          /\ Take(p, "initial")
          /\ UNCHANGED <<path, fresh, fd, held, answer>>
       \/ /\ owner # Nobody
          /\ End(p, "run_already_active")
    /\ UNCHANGED <<files, faults, late>>

\* The records stop fitting, in front of whoever is reading them.
Unsettle ==
    /\ records' = "unsettled"
    /\ exposed' = exposed \cup {q \in Starters : pc[q] = "loadRecords"}

\* The event, after the check of what it is appended to: nothing by
\* persist_initial, a pair that agrees by transition and observe.  An event
\* that is agent.started leaves the metadata behind.
Append(p) ==
    /\ pc[p] = "append"
    /\ IF IF work[p] = "initial" THEN events = 0 /\ state = 0 ELSE events = state
         THEN /\ events' = events + 1
              /\ GoTo(p, "install")
              /\ (work[p] = "later" /\ Unsettle) \/ UNCHANGED <<records, exposed>>
              /\ UNCHANGED <<locks, work, saw, owner, answer>>
         ELSE End(p, "inconsistent_persistence") /\ UNCHANGED <<events, records, exposed>>
    /\ UNCHANGED <<state, faults, late>>

\* The state, and the end of the locked section: the next event takes the
\* lock anew, after the last one the run is over.
Install(p) ==
    /\ pc[p] = "install"
    /\ state' = events
    /\ \/ /\ events < LastEvent
          /\ Release(p)
          /\ work' = [work EXCEPT ![p] = "later"]
          /\ GoTo(p, "between")
          /\ UNCHANGED <<saw, owner, answer>>
       \/ /\ events = LastEvent
          /\ End(p, "finished")
    /\ UNCHANGED <<events, records, exposed, faults, late>>

\* allocate_paths, write_metadata, write_prompt; write_result and the rest:
\* writes of records between two events, under no lock, with one begin and one
\* end for what is written before the next event.
BeginRecords(p) ==
    /\ pc[p] = "between"
    /\ Unsettle
    /\ GoTo(p, "recording")
    /\ UNCHANGED <<locks, work, saw, owner, answer, events, state, faults, late>>

\* The records fit again: all of them are written, or the metadata has caught
\* up with agent.started.
SettleRecords(p) ==
    /\ pc[p] \in {"between", "recording"}
    /\ records = "unsettled"
    /\ records' = "settled"
    /\ UNCHANGED <<locks, work, saw, owner, answer, pc, events, state, exposed, faults, late>>

\* The next event, whether the records were written or a write failed.
NextEvent(p) ==
    /\ pc[p] \in {"between", "recording"}
    /\ Take(p, "later")
    /\ UNCHANGED <<path, fresh, fd, held, owner, answer, files, faults, late>>

Starter(p) ==
    \/ Start(p) \/ Open(p) \/ Flock(p) \/ Current(p)
    \/ LookState(p) \/ LookEvents(p) \/ LoadState(p) \/ LoadEvents(p) \/ LoadRecords(p)
    \/ AnchorExists(p)
    \/ PreflightPasses(p) \/ PreflightFails(p) \/ Own(p)
    \/ Append(p) \/ Install(p)
    \/ BeginRecords(p) \/ SettleRecords(p) \/ NextEvent(p)

----------------------------------------------------------------------------
(* What else can happen. *)

\* The process is killed: the kernel drops its locks.
Die(p) ==
    /\ pc[p] \notin {"off", "ended", "dead"}
    /\ deaths < MaxDeaths
    /\ deaths' = deaths + 1
    /\ GoTo(p, "dead")
    /\ Release(p)
    /\ owner' = IF owner = p THEN Nobody ELSE owner
    /\ UNCHANGED <<removals, work, saw, answer, files, late>>

\* Something else removes a lock directory, which is always empty.
Remove(l) ==
    /\ path[l] # Absent
    /\ removals < MaxRemovals
    /\ removals' = removals + 1
    /\ path' = [path EXCEPT ![l] = Absent]
    /\ UNCHANGED <<fresh, at, fd, held, deaths, owner, files, pc, work, saw, answer, late>>

Next ==
    \/ \E p \in Starters : Starter(p) \/ Die(p)
    \/ \E l \in Levels : Remove(l)

\* A starter that has begun keeps running, and the kernel grants a flock that
\* stays free; whether a starter begins, is killed or loses a directory is
\* left open.
Fairness == \A p \in Starters : WF_vars(pc[p] # "off" /\ Starter(p))

Spec == Init /\ [][Next]_vars
FairSpec == Spec /\ Fairness

----------------------------------------------------------------------------
(* Properties. *)

\* A run was killed between its event and its state: nothing repairs that.
Broken == events # state /\ \A p \in Starters : pc[p] # "install"

Told(p, a) == pc[p] = "ended" /\ answer[p] = a

\* A starter that looked under the lock and was told that state and log do not
\* fit (cli.py:181, transitions.py:101) has something to inspect, even if one of
\* the two lock directories was removed under it; a pair that another process
\* is just writing is never reported.  It does not speak of the alarm over the
\* records: those are written without the lock.
LockedAlarmIsTrue ==
    removals <= 1 =>
        \A p \in Starters :
            (Told(p, "inconsistent_persistence") /\ work[p] # "bare") => Broken

\* Who begins when the first event is already in the log waits for its state
\* and is told of the run, although the run may be writing all the time, or
\* else was reading the records while the run wrote some (cli.py:713-714 and
\* 754-770) and may be sent to inspect those.  That it took the pair for
\* broken, saw no run and went on to the preflight, met the owner's lock or
\* could not take its own: for that it takes a death or a removed directory.
LateStarterIsToldOfTheRun ==
    (removals = 0 /\ deaths = 0) =>
        \A p \in Starters : (late[p] /\ pc[p] = "ended") =>
            \/ answer[p] = "run_already_exists"
            \/ answer[p] = "inconsistent_invocation_record" /\ p \in exposed

\* Whoever begins comes to an end: the lock of a run that writes is given
\* back after every event, ownership is never waited for, and the check starts
\* over only finitely often, each time it finds a directory missing and then
\* the anchor present; that goes on for ever only where the namespace is gone
\* for good under an anchor that is still there.
OrphanedAnchor == path["namespace"] = Absent /\ path["anchor"] # Absent
EveryStarterEnds ==
    \A p \in Starters :
        (pc[p] = "open" ~> pc[p] \in {"ended", "dead"}) \/ <>[]OrphanedAnchor
=============================================================================
