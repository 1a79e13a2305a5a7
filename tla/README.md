# A verification of Sprint Loop Controller

TLA+ models of `sprint-loop` (package `src/src/opencode_sprint_loop`), TLC
configurations that check them on small instances, and TLAPS proofs of the
results that should hold for every instance.  Paths below are relative to the
package unless they start with `docs/` or `README.md` of the repository.

`sprint-loop run` takes an exclusive lock on a sprint, creates a durable run
(`state.json` and `events.jsonl`), asks an OpenCode server for one session,
sends it one prompt, keeps the answer as evidence and blocks the run on
purpose (`execution_not_implemented`).  `sprint-loop status` reads all of that
at any time.  There is no resume: what a crash or an error leaves behind stays.

## 1. Inventory

### 1.1 Components

| Component | State it keeps | Operations | Where it is hard |
|---|---|---|---|
| advisory locks (`locking.py`, `safeio.py`) | two pairs of directories under `<git>/opencode-sprint-loop`, flocks on their inodes | `ownership_lock`, `persistence_lock`, `advisory_lock`, `ensure_current`, `open_directory` | directories can be created, moved or replaced between open, flock and check; processes die |
| event log (`events.py`) | `events.jsonl` | `append_event_at`, `load_events_at`, `validate_event_history` | short writes, fsync order, power loss |
| state snapshot (`state.py`) | `state.json`, `.state-*.tmp` | `new_state`, `write_state_atomic_at`, `load_state_at` | link / exchange / unlink can each fail after the previous one |
| durable transitions (`transitions.py`) | the pair of both | `persist_initial`, `transition`, `observe` | two files, no transaction: event first, snapshot second |
| invocation records (`invocations.py`) | `metadata.json`, `prompt.md`, `result.json`, `transcript.json` | `allocate_paths`, `write_*`, `validate_metadata`, `validate_invocation_records` | prefixes of four writes, a file linked twice, an error after the file was installed, evidence cut to a bound inside a character |
| run orchestration (`cli.py`, `errors.py`) | local variables of `_run` | `_run`, its three `except` clauses, `_interrupt_active_invocation`, `_finalize_pre_session_cancellation`, `_persist_best_effort_failure` | failures and signals between any two durable steps |
| signals and the synchronous wait (`cli.py`) | first signal and its time, a queue, a daemon thread | `_Cancellation`, `_wait_for_synchronous_response`, `_arbitrate_synchronous_completion` | three actors with clock readings |
| OpenCode client (`opencode_runner.py`, `agent_runner.py`) | known session ids | `existing_session_ids`, `create_session`, `execute_prompt`, `observe_status`, `abort` | two non-idempotent POSTs whose answer can be lost; timeouts that bound a socket operation, not a request |
| status (`status.py`) | none | `validate_persistence`, `project_status`, `_process_running` | reads while the controller writes; asks the kernel about a process that can be gone and its number reused |
| Git preflight and probe snapshot (`git.py`) | the snapshot of a run | `validate_preflight`, `capture_probe_snapshot`, `verify_probe_snapshot` | a dozen git commands on two repositories that the agent and the user edit meanwhile |
| configuration, paths, JSON (`config.py`, `paths.py`, `jsonio.py`) | none | pure validation | - |
| redaction (`security.py`) | none | pure text | - |
| package metadata (`__init__.py`) | none | - | - |
| demonstration script (`scripts/demo_sprint1.py`) | throw-away repositories | drives the installed program | no part of the system |

### 1.2 Interaction

* `run` reads the existing pair under the shared persistence lock (or, on a
  repository where the lock directories do not exist yet, without it), does its
  preflight, then holds the **ownership lock** until it ends.
* Each of `persist_initial`, `transition` and `observe` takes the **persistence
  lock** exclusively for its whole duration, checks the durable pair again,
  appends one event and installs one snapshot.  `status` takes it shared.
* The invocation records are written by `run` under the ownership lock only.
  `status` reads them under the persistence lock, so the two do not exclude each
  other.
* The prompt is sent by a daemon thread that hands its completion, with a time
  stamp, to the controller through a queue; the signal handler only records the
  first signal with its time.
* Exceptions carry control: every `ControllerError` of the body reaches one
  handler, a `_CancellationRequested` another, anything else a third.

### 1.3 What makes each part correct

* Locks: at most one owner; writers exclude writers and readers, as long as the
  two anchors of a lock are not both replaced; nobody is locked out for ever.
* Event log and snapshot: the snapshot is always what a prefix of the log leads
  to; what was acknowledged survives a loss of power that leaves the runtime directory;
  what one reader accepted no later reader contradicts, unless that directory is lost and with
  it the whole run; what the guards let through the readers accept.
* Invocation records: terminal metadata tells the truth about result and
  transcript; events never run ahead of the records they are about.
* Orchestration: one session, one prompt and one abort at most; a terminal run
  is never touched again; the placeholder reason means a completed invocation;
  an undisturbed run ends readable, blocked, with no active invocation.
* Wait: a response counts only when it is strictly older than the deadline and
  the signal; one in the queue in time is not lost to the deadline; the wait ends.
* Cancellation: an invocation is recorded as confirmed idle only if it was, an idle
  session is found idle, and the wait for it is bounded.
* Artifact files: a name never leads to part of a file, an acknowledged file is not
  lost, an error says whether the file is there; evidence is cut to its bound, to
  nothing less, and never silently.
* Status: what it accepts was acceptable at some moment of the query, and the process
  it calls running did own the run at some moment of it.
* Start: a starter is told of a run that exists, or at worst to inspect records the run was just
  writing; under the lock it never takes the pair of another for inconsistent; it comes to an end.
* Git guard: what passes was right, or hidden by index flags set during the check, and what is
  refused was wrong, at some moment of the check.

The hazards behind these, each at its line, are the list `hazards` of
`PROJECT.json`.

## 2. The modules

| Module | Models | Run or proof modules |
|---|---|---|
| `AnchorLock` | `locking.py`, `open_directory`, one system call per action | `MCAnchorLock`, `AnchorLockProofs` |
| `ProcessRunning` | `AnchorLock` with processes that start and end, and `_process_running` beside them | `MCProcessRunning`, `AnchorLockProofs` |
| `StartCheck` | `_existing_run_before_preflight` and the beginning of a run, with both locks | itself, `StartCheckProofs` |
| `RunHistory` | events, transitions, the guards of writers and the checks of readers, as operators | used by the next three |
| `RunRecord` | abstract: one record that grows by valid events | refined by `RunLog` |
| `RunLog` | `transitions.py`, `append_event_at`, `write_state_atomic_at`, the reads of `validate_persistence`, one system call per action | `MCRunLog`, `RunLogProofs` |
| `InvocationFiles` | the four artifacts and what `validate_invocation_records` makes of them, as operators | used by the next four |
| `ArtifactOutcome` | abstract: a write of an artifact is one step with a known outcome | refined by `ArtifactWrite` |
| `ArtifactWrite` | `_atomic_write`, one system call per action, with failures, deaths, loss of power | `MCArtifactWrite`, `ArtifactWriteProofs` |
| `RecordReader` | `validate_invocation_records`, call by call, beside a controller that writes with `ArtifactWrite` | `MCRecordReader`, `ArtifactWriteProofs` |
| `TranscriptBound` | `_truncate_text`, `transcript_wrapper`, as operators | `MCArtifactWrite` |
| `Controller` | `_run` with its handlers, the invocation records, server, worker and signals; two invocations | `MCController`, `ControllerProofs` |
| `SyncWait` | `_wait_for_synchronous_response` against clock, worker and signal | itself, `SyncWaitProofs` |
| `AbortConfirmation` | the abort and the wait for its confirmation, against clock, sockets and server | itself, `AbortConfirmationProofs` |
| `ProbeGuard` | `validate_preflight`, `capture_probe_snapshot`, `verify_probe_snapshot`, one inspection per action | `MCProbeGuard`, `ProbeGuardProofs` |

The composition is by granularity.  `AnchorLock` shows what the two locks give;
`RunLog` assumes that the persistence lock excludes (as `AnchorLock` shows for anchors
in place) and shows what the durable pair can look like after each operation;
`ArtifactWrite` does the same for one artifact.  `Controller` takes each operation on
the pair, and each artifact write, as one step with exactly those outcomes
(`ImplementsRecord`, `ImplementsOutcome`).  `SyncWait` refines the one step `Receive` /
`GiveUp` of `Controller`, `AbortConfirmation` its `Abort`, `ProbeGuard` its verdicts of
the preflight and of the check after the probe.  `RunHistory` and
`InvocationFiles` are shared, so that the guards a writer of `RunLog` obeys are
those of `Controller`, and the records `RecordReader` judges are those it
leaves.

### AnchorLock

`path[l]` is the inode the path of anchor `l` names, `fd[p][l]` what process `p` has
opened, `held[p]` its flocks.  `pc[p]`, `at[p]` say which call comes next and on which
anchor.  `Ownership` selects `ownership_lock` (non-blocking, both anchors checked
again by `OwnershipLock.ensure_current`) or `persistence_lock` (blocking, only the
inner anchor checked again).  `MoveAway` is somebody renaming or replacing one of
the directories; `lost[p]` is a history variable that says which anchors were moved after `p`
had found them current.  The checks an owner makes before its durable writes are
`EnsureFails` in step `owner`.

### RunHistory, RunRecord, RunLog

An event keeps its type, the states before and after, the session, and the reason
as far as a rule looks at it; a snapshot keeps state, sequence number, active
session, reason and whether the server was validated.  Timestamps and texts are
left out.  `MayWrite` is what `persist_initial`, `transition` and `observe`
check, `ValidHistory` what `validate_event_history` checks, `ReaderAccepts` what
`validate_persistence` makes of both files.  They are separate code in the
program and separate definitions here.  `SnapshotOf` is the snapshot a history
leads to.

In `RunLog` the writers issue any request at any time, a superset of what `cli.py`
does.  Every write may be short, every fsync may fail, a process may die
anywhere.  While the directory stays, `PowerLoss` keeps everything fsync made durable (`synced`, `entry`,
`stOnDisk`, `settled`) and any part of the rest, file contents and directory
entries independently.  The descriptor of `.state-*.tmp` is synced before it is installed, so a
snapshot is never torn.  The runtime directory is `directory`: `MakeDirectory` makes it, as
`open_directory` does for `persist_initial`, and as nobody syncs its parent, a loss of power keeps it
(`KeepDirectory`) or takes it with everything in it (`LoseDirectory`).  After that nothing is left that a
reader could take for a run, and a new one may begin: `seen` and `acknowledged` are about the
directory that is there.

### Controller

One process of the model is one `sprint-loop run`.  `pc` names the next call
of `_run`, `mem` its local variables under their own meaning (`known` is `state is not
None`, `pending` is `terminal_metadata_pending`, `evidence` is
`transcript_evidence`).  `Durable` and `WriteFile` are the two kinds of durable step,
each with success, error and death, and with every prefix that can stay behind
(`Prefixes` for `_atomic_write`: an empty directory, a temporary file, a file linked
twice, the installed file with an error).  `Handle` merges the two `except` clauses for
`_CancellationRequested` and `ControllerError` with
`_finalize_pre_session_cancellation`: they choose between the same cleanups, and
`Cleanup`, `ClosingStatus` and `Cancelled` say which, with what status and with which exit.
`Unexpected` is the last clause.  `Accepted` is `validate_persistence` with
`validate_invocation_records`, used by the handlers and by the properties.

Facts of the code the model follows and a reader might not expect:

* `ControllerError.completed_at` is set nowhere in the package, so that
  `_cancellation_wins_pre_session_error` always lets a recorded signal win over an error
  that comes before the session.
* An error in the transition to `validating` leaves the run `initializing`; the
  handlers block only a run that is `validating`.
* When `agent.started` is installed although its call failed, the metadata is closed as
  `failed` while the snapshot keeps the active invocation; no later step resolves that.
* A session whose creation is answered with properties that do not match the request is
  neither recorded nor aborted.
* The worker may send the prompt after the controller has stopped waiting.  It is
  then a prompt to an aborted session, still the only one.

### SyncWait

One clock, advanced by `Tick` at any time; the worker's stamp and its put are two
steps; the controller's wait is `LookAtClock`, then `Take` or `FindEmpty`, then
`CheckCancellation` or `Arbitrate`.  `delayed` is a history variable: time has passed
while the controller or the worker could have gone on.

### AbortConfirmation

The controller aborts once, sets its deadline, and asks for the status until an idle, an
error, or the deadline.  A request is several socket operations (`NextOperation`), each
with the timeout that was given to the request as a whole, because that is what
`http.client` does with it.  The server looks at the session at a moment of its own
(`ServerLooks`), and the session changes as it likes (`SessionChanges`).  `wasIdle`,
`hampered` and `delay` are history.

### InvocationFiles, ArtifactOutcome, ArtifactWrite

`InvocationFiles` has the directory of one invocation as a record: which artifacts are
there with what value, which of them still share a temporary name (`linked`), and whether
another temporary name is left (`stray`).  `Prefixes` is everything a write that does not return can leave.
`ArtifactWrite` is the same directory as inodes, names and link counts, with what a
loss of power can make of each; `View` maps it to the record, and `ImplementsOutcome`
says that a call is one step of `ArtifactOutcome`.  That justifies the steps of
`Controller` and `Prefixes`.  `TranscriptBound` has no state: a text is a short
sequence of kinds of characters, told apart by the length of their two encodings, and the cut is
checked for every text up to `MaxLength` at every bound of `Limits`.

### RecordReader

`validate_persistence` and `project_status` each go through the records; `query` is where the reader is,
and what it has listed, stated and read.  The module extends `ArtifactWrite`: the controller follows one of the `Courses` of
`_run` and writes with the actions of that module, system calls that fail and losses of power left out
(`ReaderWatchesWrites`: it is one of the controllers `ArtifactWrite` describes).  `answers` is
history: what `RecordsAccepted`, the operator the handlers and the other modules use, would have
answered at each moment of the query.  The listing (`ListNames`) is one moment: `os.listdir` of a handful of names
is one `getdents`, which the kernel answers under the directory's lock.

### ProcessRunning

Extends `AnchorLock`: a process of `AnchorLock` is a process number here.  `StartProcess`
uses a number again, with another start time; `RecordRun` is what `new_state` records.
Status asks in four steps: open the run anchor, look its inode up in `/proc/locks`,
read the start of the process, send signal 0.  `owned` and `unowned` are history.

### StartCheck

`pc[p]` goes through the look before the preflight, with or without the lock, the second
look under ownership and the exclusive lock, and then one locked section per event.  Lock directories are
those of `AnchorLock`, with a coarser grain where nothing else can tell.  `late[p]` is history: the first event was
in the log when `p` began.

A pair that agrees is compared with the invocation records (`LoadRecords`, for `validate_invocation_records`, which
`validate_persistence` calls last).  What they contain is a matter of `InvocationFiles`, `RecordReader` and
`Controller`; here `records` says only whether they fit.  They do not between `BeginRecords` and `SettleRecords`, which stand for the
writes of the run between two events (`cli.py:713` to `714`, the results, the cleanups), nor between an `agent.started` in the log
and the metadata that names the session (`cli.py:754` to `770`).  None of this is under the persistence lock, so `exposed` notes who
read them when, or while, they did not fit: such a starter may accept or refuse.

### ProbeGuard

`todo` is the list of inspections left in the present phase, in the order of the code; `seen`
what the phase has read.  `Edit` is anything the agent or the user does to either repository.
`right` and `wrong` are history: what has been right, and what has been wrong, at some moment of the
current check.  `assume-unchanged` and `skip-worktree` hide changes of tracked files, and in the sprint repository
those of the submodule, from `git status`, not what is staged (`NoManagedChangeShows`, `NothingShows`);
`_ensure_clean` looks for such flags first, in a command of its own, so that an `Edit` between the two can hide what
an earlier one changed.  A flagged repository may still show changes, of files that are not flagged: then both outcomes
are possible.

## 3. The runs

| Run | Question | Bounds |
|---|---|---|
| `MCAnchorLockOwnership` | can two controllers own a sprint, and does `process_running` tell? | 2 process numbers, 2 processes started, 2 moved directories |
| `MCAnchorLockPersistence` | can a writer be inside with anyone, and is anybody locked out by nobody? | 2 writers, 1 reader that does not create, 2 moved directories |
| `MCRunLog` | what can the two files look like, what do readers make of them, and do they implement `RunRecord`? | 2 writers, 1 reader, 2 sessions, 1 fault, 1 crash, 1 power loss |
| `MCController` | what does a run do to the server, what does it leave, and does it end? | 2 invocations, 1 fresh and 1 existing session, 3 faults, 2 crashes, 2 signals |
| `MCControllerStatus` | does status always work? (violated) | as `MCController` |
| `MCSyncWait` | which responses are accepted, how soon is a signal noticed, and does the wait end? | deadline 6, slice 2, clock to 9 |
| `MCSyncWaitRetained` | is an earlier response always retained? (violated) | as `MCSyncWait` |
| `MCAbortConfirmation` | what does a confirmation mean, and how late can it come? | budget 3, pause 2, timeout 3, 2 operations per request, clock to 13, delay 1 |
| `MCArtifactWrite` | what does one `_atomic_write` after another leave, and is each one step? | 3 writes, 2 faults, 1 loss of power, deaths at will; texts of 4 characters |
| `MCRecordReader` | is what status says of the records true? | all courses of one invocation, killed anywhere |
| `MCStartCheck` | what is a starter told of the others, and of the records they write? | 2 starters, 2 events, 2 removed directories, 1 death |
| `MCProbeGuard` | does the guard pass what is wrong, or refuse what is right? | 2 commits and 2 branches each, 3 edits |

Why the bounds are enough.  *Locks*: exclusion is a property of two processes; a
third is the one that creates or holds the replaced directory in the meantime, and as a
process number is used again the two of the ownership run are enough for it.  It takes two moved
anchors to break exclusion, and the runs allow two.  *Log*: an execution contains at most six
events (the histories `ValidHistory` accepts are finite: one run, one invocation), so nothing is cut
off; a call that fails ends the section of its writer, with the outcomes of a failed repair among its own, so that a second
fault strikes a later section, which finds evidence that nobody writes on, the files as they were before, or a new
snapshot not yet synced; a death leaves the same three, so a death and a fault stand for two faults (the
theorems of section 5 are for any number); two writers are needed for one to find what the other left.  *Controller*: the second invocation is the one that comes later or
competes; three faults cover an error, the failure of its cleanup and the failure of the
fallback.  *Wait*: a deadline of three slices has a first, a middle and a last one, and the clock runs three
ticks past it.  *Abort*: a budget that is no multiple of the pause has the shortened last one, a
timeout as long as the budget is the code's (ten seconds both), and two operations are what
distinguishes a request from an operation.  *Artifacts*: two versions of the
metadata and an immutable file, in any order; two faults are a failed call and a
failed repair.  *Transcripts*: the limits go from the fixed bytes and the marker to
more than the longest text takes.  *Reader*: the controller's courses are finite and complete.  *Start*: one
removal exposes the check without a lock, two the loss of the exclusion itself.
*Guard*: what passes wrongly needs an edit and its return, or one that hides another; the third edit is the one that must not be
seen.  `CHECK_DEADLOCK FALSE` is said where the system does stop: when every invocation, query or check
has ended, and when the clock has reached its bound.

Every property has a mutant (`mutants` in `PROJECT.json`): a bug it is there for, such
as a retried POST, a skipped fsync, a lock that is kept on an early exit, or an
arbitration with `>` for `>=`, which makes the property fail on its run.  Modules
state a `TypeOK` each, for their readers and for proofs; the runs check those
that a theorem rests on.

### Two disagreements with the documents

* `MCControllerStatus`: `docs/v1_final_software_specification.md:268` says "Status must work
  while the controller is running and after it exits."  `_run` writes `metadata.json`, then
  `prompt.md`, and appends `agent.started` before the metadata carries the session, none of
  it under the persistence lock.  A status in between gets `inconsistent_invocation_record`
  from a run nothing has disturbed.
* `MCSyncWaitRetained`: `README.md:338` says "A response completed before a later
  cancellation is retained".  After `queue.Empty`, `cancellation.check()` does not look at the
  queue again: a response put after the `Empty` and before the signal is dropped, and the
  invocation is recorded as interrupted.

### Observations

Where a property that holds is weaker than a reader of the documents might expect,
the difference is a behaviour of the code:

* `OvershootBounded`: `README.md:238` gives every status observation of a cancellation one
  deadline of ten seconds.  The remaining time goes to `http.client` as a socket timeout
  (`opencode_runner.py:239`), which starts again with every connect, send and receive: the last request
  can outlive the deadline by a timeout per further operation, and an idle it brings then still confirms.
* `SteadyAnswerIsGiven`: `validate_invocation_records` can refuse records that were acceptable before and
  after a change, because it saw a bit of either; the specification's sentence on status above
  concerns this as well.
* `AcceptanceWasTrue`: a pair of names that the controller is about to clean up is
  accepted as one that was left behind, and reported in the words of `status.py:88`, as if
  the cleanup had failed.
* `LockedAlarmIsTrue`: the look without a lock (`cli.py:631`, `cli.py:196`) can find the first event of a healthy run
  before its state, and sends its user to a manual inspection.  It takes a repository whose lock
  directories are being made at that moment.
* `EveryStarterEnds`: if only the namespace directory is removed for good, the loop of
  `cli.py:190` does not end.
* `AcknowledgedSurvives`, `AcceptedOnlyGrows` (of `RunLog`): `open_directory` syncs no parent (`safeio.py:34`), so a loss
  of power soon after the first run of a sprint can take the runtime directory with an event log and a snapshot that were
  synced, reported and read.  Nothing inconsistent is left, but the run is gone and can be started again, with another
  session and another prompt.
* `LateStarterIsToldOfTheRun`: `validate_persistence` compares the records as well (`status.py:243`), so a second `run` can be answered
  `inconsistent_invocation_record` by a run that is well, in the windows of `MCControllerStatus`.
* `VerdictIsTrue`: `_ensure_clean` asks for index flags and for the status in two commands (`git.py:102`): a change that
  is flagged between them passes, and stays unseen.
* `VerdictIsTrue`: what was changed between the preflight and the snapshot is blamed on the
  probe, or taken for part of the snapshot (`git.py:357`): the guard says what was wrong, not who did it.
* `CreatedSessionIsIdentified`: speaks of a session the controller was told of.  When the answer
  to the POST names a session but does not match the request, `create_session` raises before it returns
  (`opencode_runner.py:478`), and no record names the session;
  `docs/v1_final_software_specification.md:415` wants it recorded.
* `ErrorsTellTheTruth`: when the call that installed an artifact reports an error and the `stat` that should
  tell fails as well, an installed result is recorded as absent.
* `TranscriptsAreCutRight`: the content of the wrapper can end in half a surrogate pair, which
  `json.loads` accepts (`invocations.py:913`).

## 4. Fairness

* `MCAnchorLockPersistence`: weak fairness of each process's next system call; processes do not die there.  A
  process that waits in `flock` has no enabled step, so nothing is assumed about whom the
  kernel wakes.  A death is a step of `MCAnchorLockOwnership` and of the theorems.
* `MCController`: weak fairness of a controller's own steps (it is a sequential program
  whose calls have timeouts: `_request`, the git calls, and the wait itself, whose `GiveUp` is always enabled and
  whose end `MCSyncWait` shows).  Nothing is assumed of the worker, the server or signals, and a crash
  is an end.
* `MCSyncWait`: weak fairness of the controller and of time.  The worker may never return.
* `MCStartCheck`: weak fairness of each starter's next step.  Nobody is assumed to put a removed
  directory back, or to die.

## 5. What is proved

For every value of the constants, `tlapm` proves the following.  The assumptions are the
named ASSUMEs of the modules: `LockAssumption`, `HistoryAssumption`, `LogAssumption`,
`ControllerAssumption`, `WriteAssumption`, `ReaderAssumption`, `CoursesAssumption`, `WaitAssumption`, `ConfirmationAssumption`,
`GuardAssumption` and, of `ProcessRunning` and of `StartCheck`, `StartAssumption`, which say that the bounds are naturals,
that `None` is nobody, that the sets of writers and readers are disjoint, that what is on the server beforehand are sessions, and
that what is written to an artifact has its type, metadata being valid (`write_metadata` checks it first), and that
what the courses of `RecordReader` write is among what is written.  The bounds on faults, crashes, losses of power,
moved directories and time are constants too, so the theorems hold for any number of them.

| Theorem | Property | For every |
|---|---|---|
| `AnchorLockProofs!TypeCorrect` | `TypeOK` | set of processes, number of moves |
| `AnchorLockProofs!AnchorExclusion` | `ExclusionUnlessBothMoved` | the same |
| `AnchorLockProofs!SingleOwner` | `OwnershipExclusion` | the same |
| `AnchorLockProofs!CreatorsOnlyContend` | `UndisturbedNeverFails` | the same |
| `AnchorLockProofs!QueryTypeCorrect` | - (`QueryTypeOK`) | set of processes, number of moves and starts |
| `AnchorLockProofs!StatusSeesTheOwner` | `AnswerWasTrue` | the same |
| `RunLogProofs!TypeCorrect` | `TypeOK` | set of writers, readers, runs, sessions |
| `RunLogProofs!SnapshotFollowsLog` | `StateNeverAhead` | the same |
| `RunLogProofs!Durability` | `AcknowledgedSurvives` | the same |
| `RunLogProofs!ReadersAgree` | `AcceptedOnlyGrows` | the same |
| `RunLogProofs!GuardsAreEnough` | `UndisturbedIsReadable` | the same |
| `RunLogProofs!EvidenceStays` | `InconsistentEvidenceUntouched` | the same |
| `RunLogProofs!FilesImplementRecord` | `ImplementsRecord`, the refinement | the same |
| `ControllerProofs!TypeCorrect` | - (`TypeOK`) | set of invocations, sessions, number of faults, deaths, signals |
| `ControllerProofs!PostsAreSentOnce` | `SubmittedOnce` | the same |
| `ControllerProofs!AbortIsSentOnce` | `AbortedOnce` | the same |
| `ControllerProofs!RecordsTellTheTruth` | `RecordsTruthful` | the same |
| `ControllerProofs!EventsComeSecond` | `EventsFollowRecords` | the same |
| `ControllerProofs!PlaceholderIsEarned` | `PlaceholderMeansCompleted` | the same |
| `ControllerProofs!NoSessionIsLeft` | `NoSessionAbandoned` | the same |
| `ControllerProofs!EndedRunsAreLeftAlone` | `TerminalIsFinal` | the same |
| `ControllerProofs!UndisturbedRunsEndReadable` | `EndsReadable` | the same |
| `ControllerProofs!SessionsAreIdentified` | `CreatedSessionIsIdentified` | the same |
| `ArtifactWriteProofs!Typing` | - (`TypeOK`) | contents of the artifacts, number of calls, faults, losses of power |
| `ArtifactWriteProofs!AcknowledgedArtifactsSurvive` | `AcknowledgedSurvives` | the same |
| `ArtifactWriteProofs!ErrorsAreTrue` | `ErrorsTellTheTruth` | the same |
| `ArtifactWriteProofs!CallsHaveTheirOutcomes` | `ImplementsOutcome`, the refinement | the same |
| `ArtifactWriteProofs!ReaderWatchesWrites` | - (`Spec` of `ArtifactWrite`) | contents of the artifacts, number of calls and queries |
| `ArtifactWriteProofs!ReaderTyping` | - (`ReaderTypeOK`) | the same |
| `ArtifactWriteProofs!AcceptancesAreTrue` | `AcceptanceWasTrue` | the same |
| `ArtifactWriteProofs!SteadyAnswersAreGiven` | `SteadyAnswerIsGiven` | the same |
| `SyncWaitProofs!TypeCorrect` | - (`TypeOK`) | deadline, slice, delay |
| `SyncWaitProofs!OnlyInTime` | `AcceptedInTime` | the same |
| `SyncWaitProofs!NoLostCompletion` | `QueuedInTimeNeverTimesOut` | the same |
| `SyncWaitProofs!NoticedInTime` | `NoticedWithinSlice` | the same |
| `AbortConfirmationProofs!ConfirmationIsTrue` | `ConfirmedWasIdle` | budget, pause, timeout, number of operations |
| `AbortConfirmationProofs!IdleIsFound` | `IdleIsConfirmed` | the same |
| `AbortConfirmationProofs!CancellationIsBounded` | `OvershootBounded` | the same |
| `StartCheckProofs!TypeCorrect` | - (`TypeOK`) | set of starters, number of events, deaths, replaced directories |
| `StartCheckProofs!AlarmsAreTrue` | `LockedAlarmIsTrue` | the same |
| `StartCheckProofs!LateStartersAreTold` | `LateStarterIsToldOfTheRun` | the same |
| `ProbeGuardProofs!TypeCorrect` | - (`TypeOK`) | set of commits and branches, number of edits |
| `ProbeGuardProofs!VerdictsAreTrue` | `VerdictIsTrue` | the same |

Each module has an inductive invariant (`IInv`; an `RInv` on top of it in the second parts of `RunLogProofs` and `ControllerProofs`, a `TInv`
on both in the third part of `ControllerProofs`, `CInv` and `RInv` for the reader in `ArtifactWriteProofs`, `Undisturbed` and `QInv` in `AnchorLockProofs`), a lemma
for the initial states, lemmas for the steps, and theorems that follow from it.

* **Locks.**  Exclusion is not inductive, because a lock is on an inode and the property
  is about a path.  `Nested` fixes which locks a process has at each call, `FlockExcludes` is
  what the kernel gives, `LostMeansMoved` ties the history variable `lost` to the present
  paths (`BelowFresh`: a replaced directory never gets the old inode back).  Two
  conflicting holders with an anchor they both still have would hold flocks on one inode.
  `RecheckedFirst` is what looking at the namespace again, with the run anchor locked,
  adds for owners.
* **Locks, undisturbed.**  `Undisturbed` says that, while nothing has been moved, whatever a process has made or opened is still
  there under its name: the loser of the race for `mkdir` opens the winner's directory, and all that can refuse an attempt
  is the lock of another.
* **Process query.**  The answer joins looks at different moments.  A process has its start and its ownership only once
  (`StartsAreUnique`, `NeverAgain`): what the recorded process holds at one look it has held since the run was recorded.
  `LooksTell` says at each look what the looks before it prove about the time since the query began.
* **Log.**  A snapshot that names a prefix of the log is no consequence of itself: what a
  writer installs was computed several system calls earlier.  `PlanFits` carries the
  planned event and snapshot through the critical section, together with what has been made
  safe so far; `OneWriter` lets nobody append in the meantime; `SnapshotsBacked` says of both
  snapshots, the cached and the durable one, that the prefix they name is synced and
  that the entry of `events.jsonl` is durable.  That is the order of the two files, log
  first, and the reason a loss of power cannot separate them: it keeps both prefixes or, with the directory, neither.  `ReadersBacked` extends it to
  what readers accepted.  The central lemma is `ApplyIsSnapshot`: the successive updates
  `transition` and `observe` make to a snapshot yield `SnapshotOf` of the longer history.
* **Record.**  That a history is valid is a fact about the guard that let its last event in,
  which is over when the event is written.  `Sound` says of a pair that it is absent or readable;
  `SectionIsSound` says what it is at each call between the guard and the return: the
  pair that was read, that pair with a longer log, and `SnapshotIsReadable` at the end, with the planned history
  valid throughout (`PlannedIsSound`: this is where every guard of a writer is shown to imply the rules of
  the reader).  For the refinement a step of the files is a stutter except the one that makes the new pair
  readable, and the one that ends a section with an unreadable pair.  `DiskIsBehind` says that what a loss of power leaves of the
  record is a shorter one, damaged if it lost anything, unless it leaves no record at all: the two cases of `RunRecord!Lose`.
* **Orchestration.**  That nothing is sent twice is a fact about all invocations at once, the dead and the later ones
  too, and the log is what they share.  `Local` says of one invocation where it is and what it has: whoever does not
  own the lock has no run, no session and no worker (`Quiet`); an owner that has not come to `create` found an empty
  log, and so nothing was ever sent; one with `started` set finds `agent.started` with its session in the log.
  `Counted` says what was sent altogether, by the events: a prompt was sent by somebody whose session is in
  the log, and once anything was sent the log is not empty, so no other invocation creates a run.  For the abort, the
  handlers keep `pending` or `completed` from the moment `agent.completed` can be in the log, and `Cleanup` aborts in neither case.
* **Orchestration, records.**  What is on disk is true because of the order in which the owner wrote it, and the owner knows
  that order from its local variables only.  `Keeps` relates the two at every step: `BodyKeeps` says which artifacts are
  there while the body runs, `HandlersKeep` what an error may have left of them by the time a handler closes the metadata
  (the two ways not to know, `pending` and an error that says `installed`, are those that leave everything alone),
  `VariablesAgree` what the variables say of each other and of the worker, `EndsKeep` how far the owner is when the log or the snapshot
  says that something has ended.  `Kept` needs none of this and holds of the dead as well.  No later owner disturbs it:
  it has no run of its own unless the log was empty, and then there were no files.  Every step is shown to change nothing of an
  ended run on the way (`Frozen`), which is `TerminalIsFinal`.
* **Orchestration, undisturbed.**  `EndsReadable` speaks of runs that met no fault, but of what the readers then
  accept, which is what all the guards of the log and all the rules for the records say together.  Without a
  fault there is one course only, up to signals, timeouts and answers.  `Suits` gives it step by step: the stage of the pair (`New`,
  `Entered`, `Validated`, `Begun`, `Closable`) and the exact records (`Filled`), for the body (`BodyFits`) and for the handlers
  (`HandlersFit`); each durable step leads from one stage to the next because its guard is met there.  A run that
  has ended is `Settled`.  After one fault, which can strike at any of these steps, only
  `Held` is left of it: the session is recorded as started, or (`Named`) the metadata that is still to be written by the handlers
  names it.  After two faults nothing is claimed (`Accounted`), which is why `CreatedSessionIsIdentified` counts them.
* **Artifacts.**  `NamesAreGood` says of every name, and of whatever a loss of power can make of it, that it leads to a
  complete, synced write of its own artifact, no older than the one last acknowledged.  `CallKnows` ties the local variables
  of `_atomic_write` to the disk: `installed` is never set without the name leading to the new inode, and not set although
  it does only before the check or after one that failed.  For the refinement, `SinceBegin` compares the directory
  with what it was when the call began: the other artifacts are as they were, and its own can have been replaced, or
  the temporary name can be there, only where the call was allowed to install.  `CallLeaves` turns that into the prefixes of
  `ArtifactOutcome`, with and without the temporary name; the steps before `Finish` are stutters, `Finish` and
  a death are one step each.
* **Reader.**  The proof has two invariants, one of the controller and one of the reader.  `CInv` says where the controller
  is on its course: which artifacts are `Installed` is what the steps done so far write, the last one perhaps not yet
  (`OnCourse`), its calls leave one temporary name at most (`NothingFails`), and `PairTells` has of the log and the snapshot what the
  rules for the artifacts look for.  Hence the result and the transcript agree with the metadata at every moment (`AlwaysAgree`), and what
  an instantaneous reader answers depends on little: the metadata, and whether a temporary name is there and linked (`AnswerTells`,
  `AnswerPlain`, `AnswerLinked`).  Neither property is inductive, because what the reader decides at the end it has seen at the
  beginning.  `AcceptanceRests` (in `RInv`) says at each step which moment of the query will justify an acceptance.  Without a temporary
  name that is the moment of the listing, if the metadata it then reads agree with the log at all; with one it is the
  moment of the second stat, and that the metadata were read before it does not matter: while the temporary name the reader has
  listed is still there, they have not been replaced.  `SteadyRests` is the converse: every change of the
  directory changes the answer or comes with a refusal (`ChangesAreSeen`), so as long as the answer is one and the same nothing has changed, all
  that the reader holds is `Current`, and each of its conditions is met.
* **Wait.**  `StampsArePast` and the fact that `Record` ends with the decision make the moment
  of the decision final.  For the deadline, `LateSawEmpty`: whoever found the queue empty at
  the deadline or later finds every completion put after it.  For promptness, `UndelayedIsPrompt`:
  while nobody is delayed, the clock is never past the moment at which the present step was due.
* **Confirmation.**  `AnswerIsFresh` ties the answer under way to the session as it was when the request
  began or later; `Punctual` bounds the clock at each step by the operations that are left;
  `Attentive` says how long a session can have been idle and unseen.  With a budget that is a multiple
  of the pause, as ten seconds and one second are, the last request goes out one whole pause before
  the deadline and a session that becomes idle at that very moment can be missed: hence the strict bound of `IdleIsConfirmed`.
* **Start.**  The files are written by the owner under the exclusive lock and read under the shared one (`OwnerWrites`), but the
  lock is on inodes, so `FlockExcludes` helps only between those who have a level in common: `OneInode` says which levels
  have been the same directory for everybody, and one removal leaves one of them.  Then what a reader has seen is still there when it decides
  (`SightHolds`), files that differ are being written or were left so by a death (`UnequalIsWritten`), and a starter
  that began after the first event finds the directories and waits its turn (`LateWaits`).  Of the records nothing needs to be
  known but that whoever is refused by them is `exposed`.
* **Git guard.**  A verdict sums up inspections made at different moments, so the invariant accounts for them one by one:
  whatever is no longer in `todo` has been seen right during this check (`PreflightAccounts`, `CaptureAccounts`, `VerifyAccounts`), and
  whatever is right or wrong now is noted (`Noted`).  Only the managed HEAD is compared with something read before, the
  gitlink: `LinkRead` says that the two cannot have drifted apart in one edit without having differed.  `Shown` gives what
  an empty `git status` proves: the repository is clean in each respect, or flags hide that it is not.

Only model-checked:

* the liveness properties (`NoLockout`, `InvocationEnds`, `WaitEnds`, `EveryStarterEnds`): liveness
  under fairness, and ENABLED, are beyond the proof system;
* `TranscriptsAreCutRight` of `TranscriptBound`: a recursive cut of a sequence, whose induction no installed prover does;
* the two violations of section 3.

## 6. What is not modelled, and why

* **Power loss below `Controller`.**  It is in `RunLog` and `ArtifactWrite`; `Controller` has deaths of
  processes, and takes what returned as durable, which those two show.
* **Replacement of `events.jsonl`, `state.json` or `lock.json` by somebody else in the middle of a
  transition**, with the exchanges and roll-backs that answer it (`transitions.py`, `remove_state_atomic_at`):
  `docs/threat_model.md` excludes manual edits during a persistence critical section.
* **The contents** of results, prompts, messages and server responses: their validation is
  one outcome each.  Of transcripts the length is modelled (`TranscriptBound`), not the text.
* **The field-by-field checks of snapshots and events**, and their serialization: only the fields that
  rules tell apart are modelled.
* **In `git.py`**, a worktree that disappears during the check, and the walk that decides which untracked runtime
  files are allowed.
* **`config.py`, `paths.py`, `jsonio.py`, `security.py`**: pure validation and text, no state and nothing
  that interacts.
* **`lock.json`, the formatting of status, diagnostics**: `lock.json` is written once and never read
  back, only that it is there and untracked enters the verdict of the preflight.
* **The package metadata, the demonstration script and the fake runner of the tests**: no part of what runs.

## 7. Plan

Done, each on top of what came before: the locks, the durable pair, the orchestration and
the wait; then the confirmation of an abort, the artifact writes system call by system call, a status that reads
the records step by step, the look of a starter, the process number of a run, and the Git guard.

What is left, in this order:

1. The roll-backs of `transitions.py` and `state.py` under a replaced file, as a module of its own,
   with the replacement as an action the properties condition on.
2. `lock.json` with the runs that status reports as interrupted.
