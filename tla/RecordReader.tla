---------------------------- MODULE RecordReader ----------------------------
(***************************************************************************)
(* validate_invocation_records (invocations.py), system call by system     *)
(* call, as `sprint-loop status` runs it twice (validate_persistence, then *)
(* project_status), against a controller that writes its records at the    *)
(* same time.  The reader holds the persistence lock, so that no event is  *)
(* appended meanwhile; the invocation records are written without it.  The *)
(* controller follows one of the courses of _run and its handlers, writes  *)
(* with ArtifactWrite, and can be killed anywhere, which is also how its   *)
(* temporary names get left behind: its system calls do not fail here, and *)
(* the power stays on.                                                     *)
(***************************************************************************)
EXTENDS ArtifactWrite

CONSTANTS Run, Session  \* the run and its session

ASSUME ReaderAssumption == Run \in Runs /\ Session \in Sessions

VARIABLES
    course, done,  \* what the controller does, and how much of it is done
    log, st,       \* events.jsonl and state.json
    query,         \* the local variables of the reader
    answers        \* history: what an instantaneous reader would have
                   \* answered during the query

pair == <<log, st>>
readerVars == <<vars, course, done, pair, query, answers>>

-----------------------------------------------------------------------------
(* The controller *)

Write(a, value) == [kind |-> "write", artifact |-> a, value |-> value]
Event(request) == [kind |-> "event", request |-> request]
Observe(type, session) == Event([kind |-> "observe", type |-> type, session |-> session])
Enter(to, reason) == Event([kind |-> "transition", to |-> to, reason |-> reason])

RunningMetadata == [Planned EXCEPT !.status = "running", !.session = Session]
Ending(m, status, result, transcript) ==
    [m EXCEPT !.status = status, !.result = result, !.transcript = transcript]

Opening == <<Event([kind |-> "initial", run |-> Run]), Enter("validating", "none"),
             Observe("server.validated", None), Write("metadata", Planned),
             Write("prompt", TRUE)>>

Starting == <<Observe("agent.started", Session), Write("metadata", RunningMetadata)>>

Succeeding ==
    <<Write("result", "completed"), Write("transcript", TRUE),
      Write("metadata", Ending(RunningMetadata, "completed", "completed", "kept")),
      Observe("agent.completed", Session), Enter("blocked", Placeholder)>>

Violating ==
    <<Write("transcript", TRUE),
      Write("metadata", Ending(RunningMetadata, "interrupted", "none", "kept")),
      Observe("agent.interrupted", Session), Enter("blocked", "other")>>

TimingOut ==
    <<Write("metadata", Ending(RunningMetadata, "timed_out", "none", "unavailable")),
      Observe("agent.interrupted", Session), Enter("blocked", "other")>>

Rejected ==
    <<Write("metadata", Ending(Planned, "failed", "none", "unavailable")),
      Enter("blocked", "other")>>

Courses == [completed |-> Opening \o Starting \o Succeeding,
            violating |-> Opening \o Starting \o Violating,
            timed_out |-> Opening \o Starting \o TimingOut,
            rejected |-> Opening \o Rejected]

\* Content is what is ever written, so it has what the courses write.
ASSUME CoursesAssumption ==
    \A c \in DOMAIN Courses : \A i \in DOMAIN Courses[c] :
        LET s == Courses[c][i] IN s.kind = "write" => s.value \in Content[s.artifact]

NoQuery == [step |-> "idle", pass |-> 0, names |-> {}, temporary |-> {}, metadata |-> NoMetadata,
            inode |-> 0, pair |-> 0, result |-> "none", transcript |-> FALSE,
            there |-> {}, verdict |-> "none"]

ReaderInit ==
    /\ Init
    /\ course \in DOMAIN Courses /\ done = 0
    /\ log = << >> /\ st = NoState
    /\ query = NoQuery /\ answers = {}

Due(kind) == done < Len(Courses[course]) /\ Courses[course][done + 1].kind = kind
Step == Courses[course][done + 1]

\* A write goes on whatever readers do.
WriteRecord ==
    /\ \/ Due("write") /\ Begin(Step.artifact, Step.value) /\ done' = done + 1
       \/ (Proceed \/ Crash) /\ UNCHANGED <<faults, done>>
    /\ UNCHANGED <<course, pair, query>>

\* An append takes the persistence lock exclusively.
AppendEvent ==
    /\ pc = "idle" /\ Due("event") /\ query.step = "idle"
    /\ MayWrite(st, log, log # << >>, Step.request)
    /\ LET e == NextEvent(st, Step.request) IN log' = Append(log, e) /\ st' = Apply(st, e)
    /\ done' = done + 1
    /\ UNCHANGED <<vars, course, query>>

-----------------------------------------------------------------------------
(* The reader *)

Refused == "refused"
NoPrefix == "no prefix"

\* What a reader that needs no time answers: a refusal, or the artifact that is
\* still linked twice, if any.
Answer ==
    IF ~RecordsAccepted(View, st, log) THEN Refused
    ELSE IF View.linked = {} THEN NoPrefix
    ELSE CHOOSE a \in View.linked : TRUE

Turn(step) == query' = [query EXCEPT !.step = step]
Refuse == query' = [NoQuery EXCEPT !.step = "answered", !.verdict = Refused]
IfElseRefuse(condition, q) == IF condition THEN query' = q ELSE Refuse

\* A pass that accepts leads to the next one, or to the answer.
Accept(prefix) ==
    query' = IF query.pass = 1 THEN [NoQuery EXCEPT !.step = "base", !.pass = 2]
                               ELSE [NoQuery EXCEPT !.step = "answered", !.verdict = prefix]

\* The persistence lock is taken; the pair is there and consistent.
Ask ==
    /\ query.step = "idle" /\ ReaderAccepts(st, log)
    /\ query' = [NoQuery EXCEPT !.step = "base", !.pass = 1]

OpenBase ==
    /\ query.step = "base"
    /\ IF level = 0
         THEN IF Positions(log, {"agent.started"} \cup EndTypes) = {} THEN Accept(NoPrefix)
                                                                      ELSE Refuse
         ELSE Turn("entries")

ListBase == query.step = "entries" /\ IfElseRefuse(level = 2, [query EXCEPT !.step = "list"])

\* Mutant of ListNames: names that are not those of artifacts are passed over.
ListArtifacts ==
    /\ query.step = "list"
    /\ LET names == {a \in Artifacts : target[a] # 0} IN
       IfElseRefuse({"metadata", "prompt"} \subseteq names,
                    [query EXCEPT !.step = "metadata", !.names = names])

\* os.listdir is one moment: it takes one getdents(2), under the directory's lock,
\* for the handful of names there can be.
ListNames ==
    /\ query.step = "list"
    /\ LET names == {a \in Artifacts : target[a] # 0} IN
       IfElseRefuse({"metadata", "prompt"} \subseteq names,
                    [query EXCEPT !.step = "metadata", !.names = names, !.temporary = temps])

\* open_regular in two steps: the name leads to an inode, whose links are
\* counted afterwards.  A link count of zero is that of a file replaced since.
Open(a, step, next) ==
    /\ query.step = step
    /\ query' = [query EXCEPT !.step = next, !.inode = target[a]]

OpenMetadata == Open("metadata", "metadata", "metadata opened")

ReadMetadata ==
    /\ query.step = "metadata opened"
    /\ LET m == writes[query.inode].value IN
       IfElseRefuse(Links(query.inode) \in {0, 1} /\ LifecycleValid(m),
                    [query EXCEPT !.step = "prompt", !.metadata = m])

OpenPrompt == Open("prompt", "prompt", "prompt opened")

ReadPrompt ==
    /\ query.step = "prompt opened"
    /\ IfElseRefuse(Links(query.inode) \in {0, 1} /\ MetadataAgrees(query.metadata, st, log),
                    [query EXCEPT !.step = "temporary"])

\* _temporary_hardlink_prefix: the conditions on the names and on the run, then
\* a stat of each of the two names.
RecognizePrefix ==
    /\ query.step = "temporary"
    /\ IF query.temporary = {} THEN Turn("result?")
       ELSE IfElseRefuse(
               /\ Cardinality(query.temporary) = 1
               /\ \A n \in query.temporary :
                     writes[n].artifact \in Immutable /\ writes[n].artifact \in query.names
               /\ query.metadata.status = "running"
               /\ ProbeActive(st, log),
               [query EXCEPT !.step = "target"])

Temporary == CHOOSE n \in query.temporary : TRUE

StatTarget ==
    /\ query.step = "target"
    /\ LET n == target[writes[Temporary].artifact] IN
       IfElseRefuse(n # 0 /\ Links(n) = 2, [query EXCEPT !.step = "temp", !.pair = n])

StatTemporary ==
    /\ query.step = "temp"
    /\ IfElseRefuse(Temporary \in temps /\ Links(Temporary) = 2 /\ query.pair = Temporary,
                    [query EXCEPT !.step = "result?"])

\* os.path.lexists of both, before either is read.
LookForResult ==
    /\ query.step = "result?"
    /\ query' = [query EXCEPT !.step = "transcript?",
                              !.there = {a \in {"result"} : target[a] # 0}]

LookForTranscript ==
    /\ query.step = "transcript?"
    /\ query' = [query EXCEPT !.step = "result",
                              !.there = @ \cup {a \in {"transcript"} : target[a] # 0}]

OpenResult ==
    /\ query.step = "result"
    /\ IF "result" \in query.there
         THEN query' = [query EXCEPT !.step = "result opened", !.inode = target["result"]]
         ELSE Turn("transcript")

\* Mutant of Readable: the recognized pair is forgotten.
ReadableAlone(a) == Links(query.inode) \in {0, 1}

\* The recognized pair must still be one; any other file has one link.
Readable(a) ==
    IF query.pair # 0 /\ writes[query.pair].artifact = a
      THEN query.inode = query.pair /\ Links(query.inode) = 2
      ELSE Links(query.inode) \in {0, 1}

ReadResult ==
    /\ query.step = "result opened"
    /\ IfElseRefuse(Readable("result"),
                    [query EXCEPT !.step = "transcript", !.result = writes[query.inode].value])

OpenTranscript ==
    /\ query.step = "transcript"
    /\ IF "transcript" \in query.there
         THEN query' = [query EXCEPT !.step = "transcript opened", !.inode = target["transcript"]]
         ELSE Turn("decide")

ReadTranscript ==
    /\ query.step = "transcript opened"
    /\ IfElseRefuse(Readable("transcript"), [query EXCEPT !.step = "decide", !.transcript = TRUE])

Decide ==
    /\ query.step = "decide"
    /\ IF ArtifactsAgree(query.metadata, query.result, query.transcript, st, log)
         THEN Accept(IF query.pair = 0 THEN NoPrefix ELSE writes[query.pair].artifact)
         ELSE Refuse

\* The answer is printed and the lock released.
Leave == query.step = "answered" /\ query' = NoQuery

Look ==
    \/ OpenBase \/ ListBase \/ ListNames \/ OpenMetadata \/ ReadMetadata \/ OpenPrompt
    \/ ReadPrompt \/ RecognizePrefix \/ StatTarget \/ StatTemporary \/ LookForResult
    \/ LookForTranscript \/ OpenResult \/ ReadResult \/ OpenTranscript \/ ReadTranscript
    \/ Decide

Remember ==
    answers' = IF query'.step = "idle" THEN {}
               ELSE IF query.step = "answered" THEN answers
               ELSE answers \cup {Answer'}

ReaderNext ==
    \/ WriteRecord /\ Remember
    \/ AppendEvent /\ Remember
    \/ (Ask \/ Look \/ Leave) /\ UNCHANGED <<vars, course, done, pair>> /\ Remember

ReaderSpec == ReaderInit /\ [][ReaderNext]_readerVars

-----------------------------------------------------------------------------
(* Properties *)

ReaderTypeOK ==
    /\ course \in DOMAIN Courses /\ done \in 0..Len(Courses[course])
    /\ log \in Seq(Events) /\ st \in States
    /\ query.pass \in 0..2 /\ query.names \subseteq Artifacts
    /\ query.temporary \subseteq DOMAIN writes /\ query.metadata \in Metadata
    /\ query.inode \in {0} \cup DOMAIN writes /\ query.pair \in {0} \cup DOMAIN writes
    /\ query.result \in {"none"} \cup Results /\ query.transcript \in BOOLEAN
    /\ query.verdict \in {"none", Refused, NoPrefix} \cup Immutable
    /\ answers \subseteq {Refused, NoPrefix} \cup Immutable

Answered == query.step = "answered"

\* An acceptance is true: at some moment of the query the records were
\* acceptable, with the prefix that is reported.
AcceptanceWasTrue == Answered /\ query.verdict # Refused => query.verdict \in answers

\* When the answer is the same all through the query, it is the one given: the
\* steps of the reader amount to RecordsAccepted.
SteadyAnswerIsGiven == Answered => \A a \in answers : answers = {a} => query.verdict = a
=============================================================================
