--------------------------- MODULE ProcessRunning ---------------------------
(***************************************************************************)
(* Ownership of a sprint and what status makes of it: the processes that   *)
(* contend for ownership_lock (AnchorLock), the process that the state     *)
(* names, and process_running (status._process_running), which is found    *)
(* out in three looks at the kernel while processes start, end and inherit *)
(* each other's numbers.                                                   *)
(*                                                                         *)
(* Each process of AnchorLock is a process number here.  A process takes   *)
(* ownership at most once.  The run records its number and its start       *)
(* (state.new_state).  Status opens the run anchor and takes its inode,    *)
(* looks /proc/locks up for it, then reads the start of the process of     *)
(* that number.  It holds the shared persistence lock meanwhile, so what   *)
(* is recorded stays; everything else may change.                          *)
(***************************************************************************)
EXTENDS AnchorLock

CONSTANTS
    None,        \* no process
    MaxStarts    \* bound on processes started

ASSUME StartAssumption == MaxStarts \in Nat

Unknown == 0       \* process_start_identity returned None; no process has start 0

VARIABLES
    start,     \* start[p]: when the process numbered p started, 0: there is none
    starts,    \* processes started so far: the start of the latest
    recorded,  \* the process that the state names: number and start as recorded,
               \* Unknown if it could not read its own, and the start it really had
    look,      \* the next look of status
    visible,   \* whether status can read the start of a process
    inode,     \* the inode it opened
    answer,    \* process_running
    owned,     \* the recorded process owned the run at some moment of the query
    unowned    \* and at some moment it did not

processes == <<start, starts>>
query == <<look, visible, inode, answer>>
runVars == <<vars, processes, recorded, query, owned, unowned>>

NoProcess == [pid |-> None, start |-> Unknown, real |-> 0]

QueryTypeOK ==
    /\ start \in [Procs -> 0 .. MaxStarts]
    /\ starts \in 0 .. MaxStarts
    /\ recorded \in [pid : Procs \cup {None}, start : 0 .. MaxStarts, real : 0 .. MaxStarts]
    /\ look \in {"none", "open", "locks", "start", "kill", "told"}
    /\ inode \in 0 .. fresh - 1
    /\ visible \in BOOLEAN /\ answer \in BOOLEAN /\ owned \in BOOLEAN /\ unowned \in BOOLEAN
    /\ \A p \in Procs : held[p] # {} => start[p] # 0

RunInit ==
    /\ Init
    /\ start = [p \in Procs |-> 0] /\ starts = 0
    /\ recorded = NoProcess
    /\ look = "none" /\ visible = TRUE /\ inode = Absent /\ answer = FALSE
    /\ owned = FALSE /\ unowned = FALSE

IsRecorded(p) == recorded.pid = p /\ start[p] = recorded.real

\* The recorded process is there and holds the directory the run anchor names.
RecordedOwns ==
    \E p \in Procs :
        IsRecorded(p) /\ path["anchor"] # Absent
        /\ "anchor" \in held[p] /\ fd[p]["anchor"] = path["anchor"]

Looking == look \in {"open", "locks", "start", "kill"}

\* Whatever else happens changes what status could have seen.  One query is
\* followed, from any moment on; what happens after its answer says nothing.
Observed ==
    /\ look # "told"
    /\ owned' = (owned \/ (Looking /\ RecordedOwns'))
    /\ unowned' = (unowned \/ (Looking /\ ~RecordedOwns'))

-----------------------------------------------------------------------------
(* The processes *)

\* A process of any program gets the number p; "sprint-loop run" goes on to
\* ask for ownership, once.
StartProcess(p) ==
    /\ start[p] = 0
    /\ starts < MaxStarts
    /\ starts' = starts + 1
    /\ start' = [start EXCEPT ![p] = starts + 1]
    /\ Begin(p) \/ UNCHANGED vars
    /\ UNCHANGED <<recorded, query>>
    /\ Observed

\* Its next step in taking the lock or giving it back.
LockStep(p) ==
    /\ Advance(p) \/ FlockRefused(p)
    /\ UNCHANGED <<processes, recorded, query>>
    /\ Observed

\* The process ends by itself or is killed, the kernel dropping its locks.
EndProcess(p) ==
    /\ start[p] # 0
    /\ Crash(p) \/ (pc[p] = "idle" /\ UNCHANGED vars)
    /\ start' = [start EXCEPT ![p] = 0]
    /\ UNCHANGED <<starts, recorded, query>>
    /\ Observed

\* The first owner finds no run and writes the state that every later one
\* finds, with what it takes to be its start.
Record(p, value) ==
    /\ Owner(p) /\ recorded = NoProcess
    /\ recorded' = [pid |-> p, start |-> value, real |-> start[p]]
    /\ UNCHANGED <<vars, processes, query, owned, unowned>>

RecordRun(p) == Record(p, start[p]) \/ Record(p, Unknown)

AnchorMoves(l) ==
    /\ MoveAway(l)
    /\ UNCHANGED <<processes, recorded, query>>
    /\ Observed

-----------------------------------------------------------------------------
(* The query *)

Looks == UNCHANGED <<vars, processes, recorded, visible, owned, unowned>>
Tell(a) == look' = "told" /\ answer' = a /\ inode' = Absent

Ask ==
    /\ look = "none" /\ recorded # NoProcess
    /\ look' = "open" /\ visible' \in BOOLEAN /\ UNCHANGED <<inode, answer>>
    /\ owned' = RecordedOwns /\ unowned' = ~RecordedOwns
    /\ UNCHANGED <<vars, processes, recorded>>

\* exclusive_lock_pid: a missing anchor is held by nobody.
OpenAnchor ==
    /\ look = "open"
    /\ IF path["anchor"] = Absent
         THEN Tell(FALSE)
         ELSE look' = "locks" /\ inode' = path["anchor"] /\ UNCHANGED answer
    /\ Looks

Holds(p) == "anchor" \in held[p] /\ fd[p]["anchor"] = inode

ReadLocks ==
    /\ look = "locks"
    /\ IF \E p \in Procs : Holds(p) /\ p = recorded.pid
         THEN look' = "start" /\ UNCHANGED <<inode, answer>>
         ELSE Tell(FALSE)
    /\ Looks

CurrentStart == IF visible THEN start[recorded.pid] ELSE Unknown

\* Mutant of ReadStart: a process of that number is taken to be the run.
ReadAnyStart ==
    /\ look = "start"
    /\ Tell(CurrentStart # Unknown \/ recorded.start = Unknown)
    /\ Looks

\* The recorded start decides; where there is none, the process must not have
\* one either and must take a signal.
ReadStart ==
    /\ look = "start"
    /\ CASE recorded.start # Unknown -> Tell(recorded.start = CurrentStart)
         [] recorded.start = Unknown /\ CurrentStart # Unknown -> Tell(FALSE)
         [] OTHER -> look' = "kill" /\ UNCHANGED <<inode, answer>>
    /\ Looks

SendSignalZero ==
    /\ look = "kill"
    /\ Tell(start[recorded.pid] # 0)
    /\ Looks

RunNext ==
    \/ \E p \in Procs : StartProcess(p) \/ LockStep(p) \/ EndProcess(p) \/ RecordRun(p)
    \/ \E l \in Levels : AnchorMoves(l)
    \/ Ask \/ OpenAnchor \/ ReadLocks \/ ReadStart \/ SendSignalZero

RunSpec == RunInit /\ [][RunNext]_runVars

-----------------------------------------------------------------------------
(* Properties *)

Told(a) == look = "told" /\ answer = a

\* process_running true (README.md:33 and 283): the very process that the state
\* names, not one that has inherited its number and holds the same lock, owned
\* the run at some moment of the query.  It takes a run that could read its
\* own start.  process_running false (README.md:40 and 279): at some moment of
\* the query that process had ended, had given the run up, or held a directory
\* that had been moved away.  Status has to see of /proc what the run saw.
AnswerWasTrue ==
    /\ Told(TRUE) /\ recorded.start # Unknown => owned
    /\ Told(FALSE) /\ visible = (recorded.start # Unknown) => unowned
=============================================================================
