----------------------------- MODULE ProbeGuard -----------------------------
(***************************************************************************)
(* The guard around the probe: the preflight that must pass before a run   *)
(* begins, the snapshot taken after it, and the comparison and second      *)
(* preflight made after the probe (git.py), while the agent or the user    *)
(* edits the two repositories.                                             *)
(*                                                                         *)
(* Every inspection is a git command or a look at a file of its own, and   *)
(* the repositories can change between any two of them.  One command is    *)
(* taken to see one moment.  What a command finds is abstracted to what    *)
(* the code decides by; the runtime files a run may leave untracked are    *)
(* not a change.  Changes of tracked paths that carry an index flag are    *)
(* not shown by git status (git.py:135), which is why flags are looked for *)
(* first, by a command of its own; which paths are changed and which are   *)
(* flagged is left open, so flags may hide changes or not.  Both           *)
(* directories stay git worktrees: what git answers in one that is taken   *)
(* away meanwhile is not modelled.                                         *)
(***************************************************************************)
EXTENDS Naturals, Sequences

CONSTANTS
    SprintCommits,   \* commits of the sprint repository
    ManagedCommits,  \* commits of the managed repository, a submodule of it
    LinkOf,          \* LinkOf[c]: the managed commit that sprint commit c records
    Branches,        \* branch names
    Expected,        \* the branch configured for the managed repository
    None,            \* no gitlink in the index; no branch checked out
    MaxEdits         \* bound on what the agent and the user do

ASSUME GuardAssumption ==
    /\ LinkOf \in [SprintCommits -> ManagedCommits]
    /\ Expected \in Branches
    /\ None \notin ManagedCommits \cup Branches
    /\ MaxEdits \in Nat

\* What an inspection of one thing can find wrong.
Marks == {"noAgentsFile", "unregistered", "noRemote", "sprintOperation",
          "managedOperation", "managedFlags", "sprintFlags", "managedChanges",
          "sprintChanges"}

Repositories ==
    [sprintHead : SprintCommits, managedHead : ManagedCommits,
     sprintBranch : Branches \cup {None}, managedBranch : Branches \cup {None},
     gitlink : ManagedCommits \cup {None}, marks : SUBSET Marks]

\* RepositorySnapshot
Snapshots ==
    [sprintHead : SprintCommits, managedHead : ManagedCommits,
     sprintBranch : Branches \cup {None}, managedBranch : Branches \cup {None}]
Identity == {"sprintHead", "managedHead", "sprintBranch", "managedBranch"}

VARIABLES
    repo,      \* the two repositories
    edits,     \* edits made so far
    phase,     \* what the controller is doing
    todo,      \* the inspections left in this phase
    seen,      \* what the phase has read
    snapshot,  \* the snapshot of the run
    outcome,   \* how the run ended
    right,     \* what has been right, or hidden by index flags, at some
               \* moment of the current check
    wrong      \* what has been wrong at some moment of the current check

vars == <<repo, edits, phase, todo, seen, snapshot, outcome, right, wrong>>

Phases == {"start", "capture", "probe", "recapture", "verify", "ended"}

Codes == {"none", "placeholder", "unexpected_agent_repository_change",
          "missing_required_file", "invalid_submodule", "submodule_sha_mismatch",
          "git_operation_in_progress", "wrong_branch", "missing_remote",
          "dirty_managed_repository", "dirty_sprint_repository"}

----------------------------------------------------------------------------
(* The inspections, in the order of the code. *)

\* _ensure_submodule
Submodule == <<"gitlink", "unregistered", "managedHead">>

\* validate_preflight
Preflight ==
    <<"noAgentsFile", "sprintHead", "sprintOperation">> \o Submodule \o
    <<"managedOperation", "branchExpected", "noRemote", "managedFlags", "managedChanges",
      "sprintFlags", "sprintStatus">>

\* capture_probe_snapshot
Capture == <<"sprintHead">> \o Submodule \o <<"sprintBranch", "managedBranch">>

\* Inspections that refuse a mark, and with which code
CodeOf ==
    [noAgentsFile |-> "missing_required_file",
     sprintOperation |-> "git_operation_in_progress",
     unregistered |-> "invalid_submodule",
     managedOperation |-> "git_operation_in_progress",
     noRemote |-> "missing_remote",
     managedFlags |-> "dirty_managed_repository",
     managedChanges |-> "dirty_managed_repository",
     sprintFlags |-> "dirty_sprint_repository"]

\* git status in the sprint repository: its own files, the index against the
\* commit, and the submodule with its files (--ignore-submodules=none).
SprintClean(r) ==
    /\ r.marks \cap {"sprintChanges", "managedChanges"} = {}
    /\ r.gitlink = LinkOf[r.sprintHead]
    /\ r.managedHead = r.gitlink

\* Flags in an index hide changes of tracked files from git status, those in
\* the sprint repository's index the submodule as well; not what is staged.
NoManagedChangeShows(r) ==
    "managedChanges" \notin r.marks \/ "managedFlags" \in r.marks

NothingShows(r) ==
    /\ r.gitlink = LinkOf[r.sprintHead]
    /\ \/ "sprintFlags" \in r.marks
       \/ /\ "sprintChanges" \notin r.marks
          /\ r.managedHead = r.gitlink
          /\ NoManagedChangeShows(r)

\* What the guard is about, beyond the marks themselves.
Aspects == Marks \cup Identity \cup {"link", "branchExpected", "sprintStatus"}

\* What is right in r, or what flags in an index may hide ...
RightIn(r, snap) ==
    (Marks \ r.marks)
    \cup {m \in {"managedChanges"} : NoManagedChangeShows(r)}
    \cup {f \in Identity : r[f] = snap[f]}
    \cup {a \in {"link"} : r.gitlink = r.managedHead}
    \cup {a \in {"link", "sprintChanges"} : "sprintFlags" \in r.marks}
    \cup {a \in {"branchExpected"} : r.managedBranch = Expected}
    \cup {a \in {"sprintStatus"} : NothingShows(r)}

\* ... and what is wrong, hidden or not.
WrongIn(r, snap) ==
    r.marks
    \cup {f \in Identity : r[f] # snap[f]}
    \cup {a \in {"link"} : r.gitlink # r.managedHead}
    \cup {a \in {"branchExpected"} : r.managedBranch # Expected}
    \cup {a \in {"sprintStatus"} : ~SprintClean(r)}

\* A check begins, with the repositories as they are.
Begin(checks, snap) ==
    /\ todo' = checks
    /\ seen' = [f \in Identity \cup {"gitlink"} |-> None]
    /\ right' = RightIn(repo, snap)
    /\ wrong' = WrongIn(repo, snap)

IdentityOf(r) == [f \in Identity |-> r[f]]

FitRepositories ==
    {r \in Repositories :
        r.marks = {} /\ SprintClean(r) /\ r.managedBranch = Expected}

TypeOK ==
    /\ repo \in Repositories
    /\ edits \in 0 .. MaxEdits
    /\ phase \in Phases
    /\ todo \in Seq(Aspects \cup {"gitlink"})
    /\ snapshot \in Snapshots
    /\ outcome \in Codes
    /\ right \subseteq Aspects
    /\ wrong \subseteq Aspects
    /\ right \cup wrong = Aspects

\* The locked preflight of a run, on repositories that were fit for it.
Init ==
    /\ repo \in FitRepositories
    /\ edits = 0
    /\ phase = "start"
    /\ todo = Preflight
    /\ seen = [f \in Identity \cup {"gitlink"} |-> None]
    /\ snapshot = IdentityOf(repo)
    /\ outcome = "none"
    /\ right = RightIn(repo, snapshot)
    /\ wrong = WrongIn(repo, snapshot)

----------------------------------------------------------------------------
(* One inspection. *)

\* verify_probe_snapshot renames what it takes to be the agent's doing.
AgentCodes == {"dirty_sprint_repository", "dirty_managed_repository", "wrong_branch",
               "git_operation_in_progress", "submodule_sha_mismatch"}

Fail(code) ==
    /\ outcome' = IF phase \in {"recapture", "verify"} /\ code \in AgentCodes
                    THEN "unexpected_agent_repository_change" ELSE code
    /\ phase' = "ended"
    /\ todo' = <<>>
    /\ UNCHANGED seen

Pass ==
    /\ todo' = Tail(todo)
    /\ UNCHANGED <<phase, outcome>>

Inspecting(what) ==
    /\ phase # "ended"
    /\ todo # <<>>
    /\ Head(todo) = what
    /\ UNCHANGED <<repo, edits, snapshot, right, wrong>>

\* Remote, operation, registration, index flags and the like; the files of the
\* managed repository by git status, after its flags.
InspectMark(m) ==
    /\ Inspecting(m)
    /\ \/ /\ m \in repo.marks
          /\ Fail(CodeOf[m])
       \/ /\ m \notin repo.marks \/ (m = "managedChanges" /\ NoManagedChangeShows(repo))
          /\ Pass
          /\ UNCHANGED seen

\* validate_root
InspectSprint ==
    /\ Inspecting("sprintHead")
    /\ Pass
    /\ seen' = [seen EXCEPT !.sprintHead = repo.sprintHead]

\* git ls-files --stage
InspectGitlink ==
    /\ Inspecting("gitlink")
    /\ \/ /\ repo.gitlink = None
          /\ Fail("invalid_submodule")
       \/ /\ repo.gitlink # None
          /\ Pass
          /\ seen' = [seen EXCEPT !.gitlink = repo.gitlink]

\* The managed worktree, and whether its HEAD is the gitlink read before.
InspectManaged ==
    /\ Inspecting("managedHead")
    /\ \/ /\ repo.managedHead # seen.gitlink
          /\ Fail("submodule_sha_mismatch")
       \/ /\ repo.managedHead = seen.gitlink
          /\ Pass
          /\ seen' = [seen EXCEPT !.managedHead = repo.managedHead]

\* The two branches of the snapshot; a detached HEAD has none.
ReadBranch(f) ==
    /\ f \in {"sprintBranch", "managedBranch"}
    /\ Inspecting(f)
    /\ Pass
    /\ seen' = [seen EXCEPT ![f] = repo[f]]

InspectBranch ==
    /\ Inspecting("branchExpected")
    /\ \/ /\ repo.managedBranch # Expected
          /\ Fail("wrong_branch")
       \/ /\ repo.managedBranch = Expected
          /\ Pass
          /\ UNCHANGED seen

InspectSprintStatus ==
    /\ Inspecting("sprintStatus")
    /\ \/ /\ ~SprintClean(repo)
          /\ Fail("dirty_sprint_repository")
       \/ /\ NothingShows(repo)
          /\ Pass
          /\ UNCHANGED seen

Inspect ==
    \/ \E m \in DOMAIN CodeOf : InspectMark(m)
    \/ InspectSprint \/ InspectGitlink \/ InspectManaged
    \/ ReadBranch("sprintBranch") \/ ReadBranch("managedBranch")
    \/ InspectBranch \/ InspectSprintStatus

----------------------------------------------------------------------------
(* The phases of a run. *)

\* The preflight under the lock has passed; the first records are written and
\* the snapshot is taken.
StartCapture ==
    /\ phase = "start"
    /\ todo = <<>>
    /\ phase' = "capture"
    /\ Begin(Capture, snapshot)
    /\ UNCHANGED <<repo, edits, snapshot, outcome>>

KeepSnapshot ==
    /\ phase = "capture"
    /\ todo = <<>>
    /\ snapshot' = IdentityOf(seen)
    /\ phase' = "probe"
    /\ UNCHANGED <<repo, edits, todo, seen, outcome, right, wrong>>

\* The probe has completed (or has ended in another way, which leaves the
\* guard out).
ProbeEnds ==
    /\ phase = "probe"
    /\ phase' = "recapture"
    /\ Begin(Capture, snapshot)
    /\ UNCHANGED <<repo, edits, snapshot, outcome>>

\* Mutant of Compare: the preflight alone decides, which a clean commit passes.
CompareNothing ==
    /\ phase = "recapture"
    /\ todo = <<>>
    /\ phase' = "verify"
    /\ todo' = Preflight
    /\ UNCHANGED <<repo, edits, seen, snapshot, outcome, right, wrong>>

\* The snapshot is taken again and compared, then the preflight is repeated.
Compare ==
    /\ phase = "recapture"
    /\ todo = <<>>
    /\ \/ /\ IdentityOf(seen) # snapshot
          /\ Fail("unexpected_agent_repository_change")
       \/ /\ IdentityOf(seen) = snapshot
          /\ phase' = "verify"
          /\ todo' = Preflight
          /\ UNCHANGED <<seen, outcome>>
    /\ UNCHANGED <<repo, edits, snapshot, right, wrong>>

\* The run ends as this version ends a completed probe.
EndProbe ==
    /\ phase = "verify"
    /\ todo = <<>>
    /\ phase' = "ended"
    /\ outcome' = "placeholder"
    /\ UNCHANGED <<repo, edits, todo, seen, snapshot, right, wrong>>

Controller == Inspect \/ StartCapture \/ KeepSnapshot \/ ProbeEnds \/ Compare \/ EndProbe

----------------------------------------------------------------------------
(* The agent and the user: one change of one thing, at any moment. *)

Edits(r) ==
    {[r EXCEPT !.marks = (@ \ {m}) \cup ({m} \ @)] : m \in Marks}
    \cup {[r EXCEPT !.sprintHead = c] : c \in SprintCommits}
    \cup {[r EXCEPT !.managedHead = c] : c \in ManagedCommits}
    \cup {[r EXCEPT !.gitlink = c] : c \in ManagedCommits \cup {None}}
    \cup {[r EXCEPT !.sprintBranch = b] : b \in Branches \cup {None}}
    \cup {[r EXCEPT !.managedBranch = b] : b \in Branches \cup {None}}

Edit ==
    /\ phase # "ended"
    /\ edits < MaxEdits
    /\ edits' = edits + 1
    /\ repo' \in Edits(repo) \ {repo}
    /\ right' = right \cup RightIn(repo', snapshot)
    /\ wrong' = wrong \cup WrongIn(repo', snapshot)
    /\ UNCHANGED <<phase, todo, seen, snapshot, outcome>>

Next == Controller \/ Edit

Spec == Init /\ [][Next]_vars

----------------------------------------------------------------------------
(* Properties. *)

Blamed(code) ==
    CASE code = "missing_required_file" -> {"noAgentsFile"}
      [] code = "invalid_submodule" -> {"unregistered", "link"}
      [] code = "submodule_sha_mismatch" -> {"link"}
      [] code = "git_operation_in_progress" -> {"sprintOperation", "managedOperation"}
      [] code = "wrong_branch" -> {"branchExpected"}
      [] code = "missing_remote" -> {"noRemote"}
      [] code = "dirty_managed_repository" -> {"managedFlags", "managedChanges"}
      [] code = "dirty_sprint_repository" -> {"sprintFlags", "sprintStatus"}
      [] OTHER -> Identity \cup {"link", "sprintOperation", "managedOperation",
                                 "branchExpected", "managedFlags", "managedChanges",
                                 "sprintFlags", "sprintStatus"}

\* A check that passes saw a repository that had each thing right at some
\* moment of the check (git.py:285 and 349), changes of files and of the
\* submodule at least hidden by a flag in an index, the flags themselves not
\* set: before a run, what the preflight asks for; after the probe, the heads
\* and branches of the snapshot as well.  So a commit, a branch or an operation
\* that lasts from the probe to the end of the check, a commit that leaves
\* everything clean included, is never taken for a completed probe, and a
\* change of a file only if flags that were not set when git ls-files looked
\* for them are set when git status is asked (git.py:102 and 103 are two
\* commands).  A refusal names something that was wrong at some moment of the
\* check that refuses, although no two inspections see the repositories at one
\* moment: a HEAD is compared with a gitlink read earlier.
VerdictIsTrue ==
    /\ (phase = "start" /\ todo = <<>>) => Aspects \ Identity \subseteq right
    /\ outcome = "placeholder" => Aspects \subseteq right
    /\ outcome \notin {"none", "placeholder"} => Blamed(outcome) \cap wrong # {}
=============================================================================
