---------------------------- MODULE ArtifactWrite ----------------------------
(***************************************************************************)
(* _atomic_write (invocations.py), one system call per action: the         *)
(* artifact is written to a temporary name of its directory, made durable, *)
(* and linked or renamed to its own name.  A system call can fail, also    *)
(* after it took effect; the process can die between any two; the power    *)
(* can fail.  Calls follow one another, in any order: the callers hold the *)
(* ownership lock, so that nobody else writes, and names are taken as      *)
(* replaced by nobody.                                                     *)
(***************************************************************************)
EXTENDS InvocationFiles

CONSTANTS
    Content,        \* Content[a]: what is ever written to artifact a
    MaxWrites,      \* bounds on calls,
    MaxFaults,      \* on failing system calls
    MaxPowerLosses  \* and on losses of power

ASSUME WriteAssumption ==
    /\ DOMAIN Content = Artifacts
    /\ \A value \in Content["metadata"] : value \in Metadata /\ LifecycleValid(value)
    /\ Content["prompt"] = {TRUE} /\ Content["transcript"] = {TRUE}
    /\ Content["result"] \subseteq Results
    /\ MaxWrites \in Nat /\ MaxFaults \in Nat /\ MaxPowerLosses \in Nat

VARIABLES
    level,     \* directories on the path that exist: none, all but the last, all
    target,    \* target[a]: the write whose inode the name of a has, or 0
    temps,     \* writes whose temporary name exists
    writes,    \* artifact, value and state of each write's inode
    pc, call,  \* the next system call, and the local variables of _atomic_write
    answer,    \* how the last call ended
    blind,     \* the stat that would have told of an installation failed as well
    before,    \* history: View and Told when the last call began
    kept,      \* kept[a]: what a loss of power can make of target[a]
    keptTemps, \* temporary names a loss of power can keep
    acked,     \* acked[a]: the last write of a that returned
    faults, powerLosses

disk == <<level, target, temps>>
durable == <<kept, keptTemps>>
vars == <<level, target, temps, writes, pc, call, answer, blind, before, kept, keptTemps,
          acked, faults, powerLosses>>

NoCall == [replace |-> FALSE, known |-> FALSE, installed |-> FALSE, error |-> "none"]

Calls == 0..MaxWrites

TypeOK ==
    /\ level \in 0..2
    /\ target \in [Artifacts -> Calls] /\ temps \subseteq Calls
    /\ Len(writes) \in Calls
    /\ \A n \in DOMAIN writes :
          /\ writes[n].artifact \in Artifacts /\ writes[n].value \in Content[writes[n].artifact]
          /\ writes[n].whole \in BOOLEAN /\ writes[n].synced \in BOOLEAN
    /\ pc \in {"idle", "directory", "temporary", "fill", "install", "unlink", "sync", "check",
               "finish", "dead"}
    /\ call \in [replace: BOOLEAN, known: BOOLEAN, installed: BOOLEAN,
                 error: {"none", "os", "refused"}]
    /\ answer \in {"none", "ok", "installed", "other", "dead"}
    /\ blind \in BOOLEAN
    /\ kept \in [Artifacts -> SUBSET Calls] /\ keptTemps \subseteq Calls
    /\ before.files \in FilesSet
    /\ acked \in [Artifacts -> Calls]
    /\ faults \in 0..MaxFaults /\ powerLosses \in 0..MaxPowerLosses

Init ==
    /\ level = 0 /\ target = [a \in Artifacts |-> 0] /\ temps = {} /\ writes = << >>
    /\ pc = "idle" /\ call = NoCall /\ answer = "none" /\ blind = FALSE
    /\ before = [files |-> NoFiles, answer |-> "none"]
    /\ kept = [a \in Artifacts |-> {0}] /\ keptTemps = {}
    /\ acked = [a \in Artifacts |-> 0]
    /\ faults = 0 /\ powerLosses = 0

\* The write in progress, and its artifact.
This == Len(writes)
Name == writes[This].artifact

Links(n) == (IF n \in temps THEN 1 ELSE 0) + Cardinality({a \in Artifacts : target[a] = n})

Value(a) == IF target[a] = 0 THEN NoFiles[a] ELSE writes[target[a]].value

\* The directory as InvocationFiles describes it.
View == [dir |-> level > 0,
         metadata |-> Value("metadata"), prompt |-> Value("prompt"),
         result |-> Value("result"), transcript |-> Value("transcript"),
         linked |-> {a \in Artifacts : target[a] \in temps},
         stray |-> \E n \in temps : target[writes[n].artifact] # n]

\* The answer of the last call as ArtifactOutcome knows it.
Told ==
    CASE answer = "installed" /\ Name \notin Immutable -> "other"
      [] answer = "other" /\ Name \in Immutable /\ target[Name] = This -> "unnoticed"
      [] OTHER -> answer

-----------------------------------------------------------------------------
(* Steps of a call *)

Goto(next, c) == pc' = next /\ call' = c

Fault(c) ==
    /\ faults < MaxFaults /\ faults' = faults + 1
    /\ Goto(IF c.known /\ ~c.installed THEN "check" ELSE "finish", [c EXCEPT !.error = "os"])

\* write_metadata replaces what exists; nothing else does.
Begin(a, value) ==
    /\ pc = "idle" /\ This < MaxWrites
    /\ writes' = Append(writes, [artifact |-> a, value |-> value, whole |-> FALSE,
                                 synced |-> FALSE])
    /\ Goto("directory", [NoCall EXCEPT !.replace = a = "metadata" /\ target[a] # 0])
    /\ blind' = FALSE /\ before' = [files |-> View, answer |-> Told]
    /\ UNCHANGED <<disk, answer, durable, acked, faults, powerLosses>>

\* What exists may only be replaced, and only if it has no second link.
Destination ==
    IF target[Name] # 0 /\ (~call.replace \/ Links(target[Name]) # 1)
      THEN Goto("finish", [call EXCEPT !.error = "refused"])
      ELSE Goto("temporary", call)

\* open_directory creates what is missing, and fsyncs none of it; then the
\* name is looked at.
OpenDirectory ==
    /\ pc = "directory"
    /\ \/ level' = 2 /\ Destination /\ UNCHANGED faults
       \/ level' \in level..2 /\ Fault(call)
    /\ UNCHANGED <<target, temps, writes, answer, blind, before, durable, acked, powerLosses>>

OpenTemporary ==
    /\ pc = "temporary"
    /\ \/ temps' = temps \cup {This} /\ Goto("fill", call) /\ UNCHANGED faults
       \/ temps' \in {temps, temps \cup {This}} /\ Fault(call)
    /\ keptTemps' = keptTemps \cup temps'
    /\ UNCHANGED <<level, target, writes, answer, blind, before, kept, acked, powerLosses>>

\* write, fsync, fstat and close of the temporary file.
Fill ==
    /\ pc = "fill"
    /\ \/ /\ writes' = [writes EXCEPT ![This].whole = TRUE, ![This].synced = TRUE]
          /\ Goto("install", [call EXCEPT !.known = TRUE])
          /\ UNCHANGED faults
       \/ /\ \E whole \in BOOLEAN : writes' = [writes EXCEPT ![This].whole = whole]
          /\ \E known \in BOOLEAN : Fault([call EXCEPT !.known = known])
    /\ UNCHANGED <<disk, answer, blind, before, durable, acked, powerLosses>>

\* The name of the artifact becomes one of the new inode; a rename takes the
\* temporary name along.
Installs ==
    /\ target' = [target EXCEPT ![Name] = This]
    /\ temps' = IF call.replace THEN temps \ {This} ELSE temps

\* Mutant of Install: the old file is removed before the new one takes its name.
InstallAfterRemoval ==
    /\ pc = "install"
    /\ IF call.replace /\ target[Name] # 0
         THEN /\ target' = [target EXCEPT ![Name] = 0]
              /\ UNCHANGED <<temps, pc, call, faults>>
         ELSE \/ /\ Installs
                 /\ Goto(IF call.replace THEN "sync" ELSE "unlink",
                         [call EXCEPT !.installed = TRUE])
                 /\ UNCHANGED faults
              \/ (Installs \/ UNCHANGED <<target, temps>>) /\ Fault(call)
    /\ kept' = [kept EXCEPT ![Name] = @ \cup {target'[Name]}]
    /\ UNCHANGED <<level, writes, answer, blind, before, keptTemps, acked, powerLosses>>

Install ==
    /\ pc = "install"
    /\ \/ /\ Installs
          /\ Goto(IF call.replace THEN "sync" ELSE "unlink", [call EXCEPT !.installed = TRUE])
          /\ UNCHANGED faults
       \/ (Installs \/ UNCHANGED <<target, temps>>) /\ Fault(call)
    /\ kept' = [kept EXCEPT ![Name] = @ \cup {target'[Name]}]
    /\ UNCHANGED <<level, writes, answer, blind, before, keptTemps, acked, powerLosses>>

UnlinkTemporary ==
    /\ pc = "unlink"
    /\ \/ temps' = temps \ {This} /\ Goto("sync", call) /\ UNCHANGED faults
       \/ temps' \in {temps, temps \ {This}} /\ Fault(call)
    /\ UNCHANGED <<level, target, writes, answer, blind, before, durable, acked, powerLosses>>

Settle ==
    /\ kept' = [a \in Artifacts |-> {target[a]}]
    /\ keptTemps' = temps

\* Mutant of SyncDirectory: no fsync of the directory.
SkipSyncDirectory ==
    /\ pc = "sync"
    /\ Goto("finish", call)
    /\ UNCHANGED <<disk, writes, answer, blind, before, durable, acked, faults, powerLosses>>

SyncDirectory ==
    /\ pc = "sync"
    /\ \/ Settle /\ Goto("finish", call) /\ UNCHANGED faults
       \/ (Settle \/ UNCHANGED durable) /\ Fault(call)
    /\ UNCHANGED <<disk, writes, answer, blind, before, acked, powerLosses>>

\* Mutant of CheckInstalled: an error before the end of link or rename is taken
\* to mean that they did nothing.
AssumeNotInstalled ==
    /\ pc = "check"
    /\ Goto("finish", call)
    /\ UNCHANGED <<disk, writes, answer, blind, before, durable, acked, faults, powerLosses>>

\* After an error the destination tells whether it has the inode that was
\* written; that stat can fail as well.
CheckInstalled ==
    /\ pc = "check"
    /\ \/ /\ Goto("finish", [call EXCEPT !.installed = (target[Name] = This)])
          /\ UNCHANGED <<blind, before, faults>>
       \/ /\ faults < MaxFaults /\ faults' = faults + 1
          /\ Goto("finish", call) /\ blind' = TRUE
    /\ UNCHANGED <<disk, writes, answer, before, durable, acked, powerLosses>>

\* The finally clause: the temporary name is removed, the directory closed; an
\* error of theirs is raised if there was none before.
Finish ==
    /\ pc = "finish"
    /\ \E failed \in BOOLEAN :
          LET error == IF failed /\ call.error = "none" THEN "os" ELSE call.error IN
          /\ IF failed
               THEN /\ faults < MaxFaults /\ faults' = faults + 1
                    /\ temps' \in {temps, temps \ {This}}
               ELSE temps' = temps \ {This} /\ UNCHANGED faults
          /\ answer' = CASE error = "none" -> "ok"
                         [] error = "os" /\ call.installed -> "installed"
                         [] OTHER -> "other"
          /\ acked' = IF error = "none" THEN [acked EXCEPT ![Name] = This] ELSE acked
    /\ Goto("idle", NoCall)
    /\ UNCHANGED <<level, target, writes, blind, before, durable, powerLosses>>

Crash ==
    /\ pc # "dead"
    /\ Goto("dead", NoCall)
    /\ answer' = "dead"
    /\ UNCHANGED <<disk, writes, blind, before, durable, acked, faults, powerLosses>>

\* A loss of power keeps what fsync made durable and any part of the rest: of
\* the directories, none of which is ever synced, of names and of contents.
PowerLoss ==
    /\ powerLosses < MaxPowerLosses /\ powerLosses' = powerLosses + 1
    /\ level' \in 0..level
    /\ target' \in IF level' = 2 THEN {t \in [Artifacts -> Calls] :
                                          \A a \in Artifacts : t[a] \in kept[a]}
                                 ELSE {[a \in Artifacts |-> 0]}
    /\ temps' \in SUBSET (IF level' = 2 THEN keptTemps ELSE {})
    /\ \E lost \in SUBSET {n \in DOMAIN writes : ~writes[n].synced} :
          writes' = [n \in DOMAIN writes |->
                        [writes[n] EXCEPT !.whole = @ /\ n \notin lost]]
    /\ Goto("dead", NoCall)
    /\ answer' = "dead"
    /\ UNCHANGED <<blind, before, durable, acked, faults>>

Proceed ==
    \/ OpenDirectory \/ OpenTemporary \/ Fill \/ Install \/ UnlinkTemporary
    \/ SyncDirectory \/ CheckInstalled \/ Finish

Next ==
    \/ \E a \in Artifacts : \E value \in Content[a] : Begin(a, value)
    \/ Proceed \/ Crash \/ PowerLoss

Spec == Init /\ [][Next]_vars

-----------------------------------------------------------------------------
(* Properties *)

\* What a call has reported as written is there, or something newer is, after
\* any error, death or loss of power that leaves the directory itself (nobody
\* fsyncs the directories that open_directory makes), and it is there as a
\* whole: the name of an artifact never leads to a part of it, not even while
\* it is written.
AcknowledgedSurvives ==
    \A a \in Artifacts :
        /\ level = 2 => target[a] >= acked[a]
        /\ target[a] # 0 => writes[target[a]].whole

\* An error says "installed" exactly when the artifact has been installed,
\* whatever failed in between, unless the stat that would tell failed as well.
ErrorsTellTheTruth ==
    pc = "idle" /\ This > 0 =>
        /\ answer \in {"ok", "installed"} => target[Name] = This
        /\ answer = "ok" => This \notin temps
        /\ answer = "other" /\ target[Name] = This => blind

\* Every call, and every death in one, is one step with an outcome that callers
\* know.
Outcome == INSTANCE ArtifactOutcome WITH
    files <- IF pc \in {"idle", "dead"} THEN View ELSE before.files,
    answer <- IF pc \in {"idle", "dead"} THEN Told ELSE before.answer

ImplementsOutcome == Outcome!Spec
=============================================================================
