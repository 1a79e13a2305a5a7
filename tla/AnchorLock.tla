----------------------------- MODULE AnchorLock -----------------------------
(***************************************************************************)
(* The two-anchor advisory locks of locking.py, at the granularity of the  *)
(* system calls they are made of.                                          *)
(*                                                                         *)
(* A lock is a pair of directories, a "namespace" anchor and an inner      *)
(* "anchor": ownership_lock nests <git>/opencode-sprint-loop/run inside    *)
(* .../ownership, persistence_lock nests .../persistence inside            *)
(* .../persistence-namespace.  Either lock is taken by opening a directory *)
(* (creating it when asked to), calling flock on the descriptor, and only  *)
(* then asking whether the path still names the locked inode.  Directories *)
(* can be renamed away or replaced between any two of those calls, and a   *)
(* process can die at any point: the kernel then drops its flocks.         *)
(***************************************************************************)
EXTENDS Naturals, FiniteSets

CONSTANTS
    Procs,       \* processes using the lock
    Exclusive,   \* those that take it exclusively; the others take it shared
    Creators,    \* those that create a missing anchor (create=True)
    Ownership,   \* TRUE: ownership_lock, FALSE: persistence_lock
    MaxChanges   \* bound on how often something else moves an anchor away

ASSUME LockAssumption ==
    /\ Exclusive \subseteq Procs
    /\ Creators \subseteq Procs
    /\ Ownership \in BOOLEAN
    /\ MaxChanges \in Nat
    /\ Ownership => Exclusive = Procs  \* cli.py only asks for exclusive ownership

Levels == {"namespace", "anchor"}
Absent == 0                       \* no directory at the path; inodes are 1, 2, ...

VARIABLES
    path,     \* path[l]: the inode the anchor's path names
    fresh,    \* the next inode number the file system hands out
    changes,  \* how often the environment has moved an anchor
    pc,       \* pc[p]: the next system call of process p
    at,       \* at[p]: the anchor that call is about
    fd,       \* fd[p][l]: the inode behind p's open descriptor of level l
    held,     \* held[p]: the levels p holds a flock on
    lost,     \* lost[p]: the levels whose path moved since p found it current
    outcome   \* outcome[p]: how p's last attempt ended

vars == <<path, fresh, changes, pc, at, fd, held, lost, outcome>>

Steps == {"idle", "open", "mkdir", "reopen", "flock", "current", "recheck", "owner", "unwind"}
Outcomes == {"none", "ok", "contended", "changed", "missing"}

TypeOK ==
    /\ path \in [Levels -> Nat]
    /\ fresh \in Nat \ {0}
    /\ changes \in Nat
    /\ pc \in [Procs -> Steps]
    /\ at \in [Procs -> Levels]
    /\ fd \in [Procs -> [Levels -> Nat]]
    /\ held \in [Procs -> SUBSET Levels]
    /\ lost \in [Procs -> SUBSET Levels]
    /\ outcome \in [Procs -> Outcomes]

Init ==
    /\ path = [l \in Levels |-> Absent]
    /\ fresh = 1
    /\ changes = 0
    /\ pc = [p \in Procs |-> "idle"]
    /\ at = [p \in Procs |-> "namespace"]
    /\ fd = [p \in Procs |-> [l \in Levels |-> Absent]]
    /\ held = [p \in Procs |-> {}]
    /\ lost = [p \in Procs |-> {}]
    /\ outcome = [p \in Procs |-> "none"]

Conflict(p, q) == p # q /\ (p \in Exclusive \/ q \in Exclusive)

\* Whether flock on the inode p has open at level l would have to wait.
Contended(p, l) ==
    \E q \in Procs : Conflict(p, q) /\ l \in held[q] /\ fd[q][l] = fd[p][l]

\* ensure_current: the path still names the inode behind the descriptor.
Current(p, l) == path[l] = fd[p][l]

Goto(p, step, level) ==
    /\ pc' = [pc EXCEPT ![p] = step]
    /\ at' = [at EXCEPT ![p] = level]

\* Mutant of Fail: an early exit that forgets to unlock and close.
FailKeepingLocks(p, why) ==
    /\ pc' = [pc EXCEPT ![p] = "idle"]
    /\ outcome' = [outcome EXCEPT ![p] = why]
    /\ UNCHANGED at

\* Leave through the finally blocks, remembering why.
Fail(p, why) ==
    /\ pc' = [pc EXCEPT ![p] = "unwind"]
    /\ outcome' = [outcome EXCEPT ![p] = why]
    /\ UNCHANGED at

-----------------------------------------------------------------------------
(* Taking the lock *)

Begin(p) ==
    /\ pc[p] = "idle"
    /\ Goto(p, "open", "namespace")
    /\ outcome' = [outcome EXCEPT ![p] = "none"]
    /\ UNCHANGED <<path, fresh, changes, fd, held, lost>>

\* open_directory finds the anchor, at the first or at the second try.
OpenDirectory(p) ==
    /\ pc[p] \in {"open", "reopen"}
    /\ path[at[p]] # Absent
    /\ fd' = [fd EXCEPT ![p][at[p]] = path[at[p]]]
    /\ Goto(p, "flock", at[p])
    /\ UNCHANGED <<path, fresh, changes, held, lost, outcome>>

\* The first try found nothing, and the caller wants the anchor created.
OpenFindsNothing(p) ==
    /\ pc[p] = "open"
    /\ p \in Creators
    /\ path[at[p]] = Absent
    /\ Goto(p, "mkdir", at[p])
    /\ UNCHANGED <<path, fresh, changes, fd, held, lost, outcome>>

\* Mutant of MakeDirectory: FileExistsError is not caught.
MakeDirectoryOnce(p) ==
    /\ pc[p] = "mkdir"
    /\ IF path[at[p]] = Absent
         THEN /\ path' = [path EXCEPT ![at[p]] = fresh]
              /\ fresh' = fresh + 1
              /\ Goto(p, "reopen", at[p])
              /\ UNCHANGED outcome
         ELSE Fail(p, "missing") /\ UNCHANGED <<path, fresh>>
    /\ UNCHANGED <<changes, fd, held, lost>>

\* mkdir creates the directory, or loses to whoever just did
\* (FileExistsError); either way the path is opened once more.
MakeDirectory(p) ==
    /\ pc[p] = "mkdir"
    /\ IF path[at[p]] = Absent
         THEN /\ path' = [path EXCEPT ![at[p]] = fresh]
              /\ fresh' = fresh + 1
         ELSE UNCHANGED <<path, fresh>>
    /\ Goto(p, "reopen", at[p])
    /\ UNCHANGED <<changes, fd, held, lost, outcome>>

\* Mutant of OpenFails: the missing directory is passed on without a name of its
\* own (FileNotFoundError escapes as it is).
OpenFailsUnnamed(p) ==
    /\ \/ pc[p] = "open" /\ p \notin Creators
       \/ pc[p] = "reopen"
    /\ path[at[p]] = Absent
    /\ Fail(p, "unnamed")
    /\ UNCHANGED <<path, fresh, changes, fd, held, lost>>

\* FileNotFoundError of a caller that does not create, or at the second try.
OpenFails(p) ==
    /\ \/ pc[p] = "open" /\ p \notin Creators
       \/ pc[p] = "reopen"
    /\ path[at[p]] = Absent
    /\ Fail(p, "missing")
    /\ UNCHANGED <<path, fresh, changes, fd, held, lost>>

Flock(p) ==
    /\ pc[p] = "flock"
    /\ ~Contended(p, at[p])
    /\ held' = [held EXCEPT ![p] = @ \cup {at[p]}]
    /\ Goto(p, "current", at[p])
    /\ UNCHANGED <<path, fresh, changes, fd, lost, outcome>>

\* LOCK_NB: ownership is refused at once (run_already_active); a persistence
\* lock waits, so it has no such step.
FlockRefused(p) ==
    /\ pc[p] = "flock"
    /\ Ownership
    /\ Contended(p, at[p])
    /\ Fail(p, "contended")
    /\ UNCHANGED <<path, fresh, changes, fd, held, lost>>

\* Mutant of EnsureCurrent: the path is not compared with the locked inode.
EnsureNothing(p) ==
    /\ pc[p] = "current"
    /\ lost' = [lost EXCEPT ![p] = @ \ {at[p]}]
    /\ IF at[p] = "namespace"
         THEN Goto(p, "open", "anchor")
         ELSE Goto(p, "recheck", IF Ownership THEN "namespace" ELSE "anchor")
    /\ UNCHANGED <<path, fresh, changes, fd, held, outcome>>

\* The check inside advisory_lock: from the namespace to the anchor, from the
\* anchor to the check of the combined lock, which starts with the namespace
\* for ownership and is the anchor alone for persistence.
EnsureCurrent(p) ==
    /\ pc[p] = "current"
    /\ Current(p, at[p])
    /\ lost' = [lost EXCEPT ![p] = @ \ {at[p]}]
    /\ IF at[p] = "namespace"
         THEN Goto(p, "open", "anchor")
         ELSE Goto(p, "recheck", IF Ownership THEN "namespace" ELSE "anchor")
    /\ UNCHANGED <<path, fresh, changes, fd, held, outcome>>

\* Mutant of Recheck: OwnershipLock.ensure_current looks at the run anchor only.
RecheckAnchorOnly(p) ==
    /\ pc[p] = "recheck"
    /\ Current(p, "anchor")
    /\ Goto(p, "owner", "anchor")
    /\ outcome' = [outcome EXCEPT ![p] = "ok"]
    /\ UNCHANGED <<path, fresh, changes, fd, held, lost>>

\* lock.ensure_current() of the combined lock, before it is yielded.
Recheck(p) ==
    /\ pc[p] = "recheck"
    /\ Current(p, at[p])
    /\ IF at[p] = "namespace"
         THEN Goto(p, "recheck", "anchor") /\ UNCHANGED outcome
         ELSE Goto(p, "owner", "anchor") /\ outcome' = [outcome EXCEPT ![p] = "ok"]
    /\ UNCHANGED <<path, fresh, changes, fd, held, lost>>

\* Any of these checks finds the path moved: persistence_failed.  The owner
\* repeats the check before its durable writes.
EnsureFails(p) ==
    /\ \/ pc[p] \in {"current", "recheck"} /\ ~Current(p, at[p])
       \/ /\ pc[p] = "owner"
          /\ \E l \in (IF Ownership THEN Levels ELSE {"anchor"}) : ~Current(p, l)
    /\ Fail(p, "changed")
    /\ UNCHANGED <<path, fresh, changes, fd, held, lost>>

-----------------------------------------------------------------------------
(* Giving it up *)

Leave(p) ==
    /\ pc[p] = "owner"
    /\ Goto(p, "unwind", at[p])
    /\ UNCHANGED <<path, fresh, changes, fd, held, lost, outcome>>

\* The finally blocks run from the inside out: the anchor first.
Unlock(p) ==
    /\ pc[p] = "unwind"
    /\ LET l == IF fd[p]["anchor"] # Absent THEN "anchor" ELSE "namespace" IN
       /\ fd' = [fd EXCEPT ![p][l] = Absent]
       /\ held' = [held EXCEPT ![p] = @ \ {l}]
       /\ lost' = [lost EXCEPT ![p] = @ \ {l}]
       /\ IF l = "anchor" THEN UNCHANGED <<pc, at>> ELSE Goto(p, "idle", "namespace")
    /\ UNCHANGED <<path, fresh, changes, outcome>>

\* The process dies; the kernel closes its descriptors, flocks included.
Crash(p) ==
    /\ pc[p] # "idle"
    /\ Goto(p, "idle", "namespace")
    /\ fd' = [fd EXCEPT ![p] = [l \in Levels |-> Absent]]
    /\ held' = [held EXCEPT ![p] = {}]
    /\ lost' = [lost EXCEPT ![p] = {}]
    /\ outcome' = [outcome EXCEPT ![p] = "none"]
    /\ UNCHANGED <<path, fresh, changes>>

-----------------------------------------------------------------------------
(* The environment: something renames the directory away, and may put a new *)
(* one in its place at once.                                                 *)

MoveAway(l) ==
    /\ changes < MaxChanges
    /\ path[l] # Absent
    /\ changes' = changes + 1
    /\ \/ path' = [path EXCEPT ![l] = Absent] /\ UNCHANGED fresh
       \/ path' = [path EXCEPT ![l] = fresh] /\ fresh' = fresh + 1
    /\ lost' = [p \in Procs |-> lost[p] \cup {l}]
    /\ UNCHANGED <<pc, at, fd, held, outcome>>

Step(p) ==
    \/ Begin(p) \/ OpenDirectory(p) \/ OpenFindsNothing(p) \/ MakeDirectory(p)
    \/ OpenFails(p) \/ Flock(p) \/ FlockRefused(p) \/ EnsureCurrent(p)
    \/ Recheck(p) \/ EnsureFails(p) \/ Leave(p) \/ Unlock(p) \/ Crash(p)

Next ==
    \/ \E p \in Procs : Step(p)
    \/ \E l \in Levels : MoveAway(l)

Spec == Init /\ [][Next]_vars

-----------------------------------------------------------------------------
(* Properties *)

Owner(p) == pc[p] = "owner"

\* Two conflicting holders are never inside together unless, for each of the
\* two anchors, one of them had it moved away after finding it current:
\* replacing a single anchor never breaks the exclusion (the reason each lock
\* of locking.py has a second, "namespace" anchor).
ExclusionUnlessBothMoved ==
    \A p, q \in Procs :
        Conflict(p, q) /\ Owner(p) /\ Owner(q) => lost[p] \cup lost[q] = Levels

\* ownership_lock is stronger, because OwnershipLock.ensure_current looks at
\* the namespace again once the run anchor is locked: a second controller gets
\* in only when one of the two lost both of its anchors.
OwnershipExclusion ==
    Ownership =>
        \A p, q \in Procs :
            Conflict(p, q) /\ Owner(p) /\ Owner(q) =>
                lost[p] = Levels \/ lost[q] = Levels

\* On an undisturbed file system a process that creates anchors never fails for
\* a reason other than contention, however many start at once on a fresh
\* repository (the mkdir race of open_directory).
UndisturbedNeverFails ==
    changes = 0 => \A p \in Creators : outcome[p] \in {"none", "ok", "contended"}

-----------------------------------------------------------------------------
(* Liveness.  A process keeps executing its next system call unless it waits *)
(* in flock; nothing is assumed about which waiter the kernel wakes, and     *)
(* processes that die are left out.  LiveSpec is about the blocking lock,    *)
(* which is never refused: ownership adds FlockRefused to the steps.         *)

Advance(p) ==
    \/ OpenDirectory(p) \/ OpenFindsNothing(p) \/ MakeDirectory(p) \/ OpenFails(p)
    \/ Flock(p) \/ EnsureCurrent(p) \/ Recheck(p)
    \/ EnsureFails(p) \/ Leave(p) \/ Unlock(p)

LiveNext ==
    \/ \E p \in Procs : Begin(p) \/ Advance(p)
    \/ \E l \in Levels : MoveAway(l)

LiveSpec == Init /\ [][LiveNext]_vars /\ \A p \in Procs : WF_vars(Advance(p))

\* Nested blocking locks never lock everyone out: while a process waits in
\* flock, some process keeps getting in, being refused, or finding the anchor
\* moved, so the anchors are never left locked by nobody (every early exit of
\* advisory_lock unlocks and closes) nor locked crosswise.
NoLockout ==
    (\E p \in Procs : pc[p] = "flock") ~> (\E p \in Procs : pc[p] \in {"owner", "unwind"})
=============================================================================
