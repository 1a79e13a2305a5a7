--------------------------- MODULE InvocationFiles ---------------------------
(***************************************************************************)
(* The four artifacts of one agent invocation (invocations.py):            *)
(* metadata.json, which is replaced, and prompt.md, result.json and        *)
(* transcript.json, which are created once.  What _atomic_write leaves     *)
(* behind when it does not return, and what validate_invocation_records    *)
(* makes of a directory that does not change while it is read.  No         *)
(* variables.                                                              *)
(***************************************************************************)
EXTENDS RunHistory, FiniteSets

Results == {"completed", "blocked", "failed"}
Final == Results \cup {"timed_out", "interrupted"}
Immutable == {"result", "transcript"}
Artifacts == {"metadata", "prompt"} \cup Immutable

Metadata == [status: {"none", "planned", "session_created", "running"} \cup Final,
             session: Sessions \cup {None},
             result: {"none"} \cup Results,
             transcript: {"pending", "kept", "unavailable"}]

NoMetadata == [status |-> "none", session |-> None, result |-> "none", transcript |-> "pending"]
Planned == [NoMetadata EXCEPT !.status = "planned"]

\* linked: files whose temporary name is still there as a second link; stray:
\* a temporary file that was never installed.
FilesSet == [dir: BOOLEAN, metadata: Metadata, prompt: BOOLEAN,
             result: {"none"} \cup Results, transcript: BOOLEAN,
             linked: SUBSET Artifacts, stray: BOOLEAN]

NoFiles == [dir |-> FALSE, metadata |-> NoMetadata, prompt |-> FALSE, result |-> "none",
            transcript |-> FALSE, linked |-> {}, stray |-> FALSE]

-----------------------------------------------------------------------------
(* Metadata *)

\* The lifecycle rules of validate_metadata, checked before every write and by
\* every reader.
LifecycleValid(m) ==
    CASE m.status = "planned" -> m = Planned
      [] m.status \in {"session_created", "running"} ->
            m.session # None /\ m.result = "none" /\ m.transcript = "pending"
      [] m.status \in {"completed", "blocked"} ->
            m.session # None /\ m.result = m.status /\ m.transcript # "pending"
      [] m.status = "failed" ->
            /\ m.result = "none" \/ (m.result = "failed" /\ m.session # None)
            /\ m.transcript # "pending"
      [] OTHER ->
            /\ m.result = "none" /\ m.transcript # "pending"
            /\ m.session # None \/ m.status = "interrupted"

\* _terminal_metadata
Closed(m, status, transcript) ==
    [m EXCEPT !.status = status, !.result = "none", !.transcript = transcript]

-----------------------------------------------------------------------------
(* Writers *)

Put(files, a, value) == [files EXCEPT !.dir = TRUE, ![a] = value]

\* What _atomic_write can leave behind when it does not return.
Prefixes(files, a, value) ==
    {files, [files EXCEPT !.dir = TRUE], [files EXCEPT !.dir = TRUE, !.stray = TRUE],
     Put(files, a, value)}
    \cup IF files[a] = NoFiles[a]
           THEN {[Put(files, a, value) EXCEPT !.linked = @ \cup {a}]}
           ELSE {}

\* Only metadata is ever replaced, and not while it is linked twice.
MayInstall(files, a, value) ==
    IF a = "metadata" THEN LifecycleValid(value) /\ a \notin files.linked
                      ELSE files[a] = NoFiles[a]

-----------------------------------------------------------------------------
(* Readers *)

Positions(log, types) == {i \in DOMAIN log : log[i].type \in types}

\* The state of the run in which _temporary_hardlink_prefix accepts a temporary
\* name.
ProbeActive(st, log) ==
    /\ Positions(log, {"agent.started"}) # {}
    /\ Positions(log, EndTypes) = {}
    /\ st.state = "validating" /\ st.session # None

\* _temporary_hardlink_prefix: one more name is accepted, that of a result or a
\* transcript which is still linked twice, and only in a running invocation.
TemporaryNamesAccepted(files, st, log) ==
    /\ ~files.stray
    /\ files.linked # {} =>
          /\ files.linked \subseteq Immutable /\ Cardinality(files.linked) = 1
          /\ files.metadata.status = "running"
          /\ ProbeActive(st, log)

\* The metadata is that of the invocation the events and the snapshot tell of.
MetadataAgrees(m, st, log) ==
    /\ m.status # "none" /\ LifecycleValid(m)
    /\ \A i \in Positions(log, {"agent.started"}) : log[i].session = m.session
    /\ Positions(log, {"agent.completed"}) # {} => m.status \in Results
    /\ Positions(log, {"agent.interrupted"}) # {} => m.status \in {"timed_out", "interrupted"}
    /\ st.session # None => st.session = m.session

\* The artifacts are those the metadata tells of.
ArtifactsAgree(m, result, transcript, st, log) ==
    /\ transcript => m.session # None
    /\ m.status \in Final => result = m.result /\ transcript = (m.transcript = "kept")
    /\ m.status = "planned" => result = "none" /\ ~transcript
    /\ st.reason = Placeholder =>
          /\ Positions(log, {"agent.completed"}) # {}
          /\ m.status = "completed" /\ m.transcript = "kept"

\* validate_invocation_records
RecordsAccepted(files, st, log) ==
    IF ~files.dir
    THEN Positions(log, {"agent.started"} \cup EndTypes) = {}
    ELSE /\ MetadataAgrees(files.metadata, st, log)
         /\ files.prompt
         /\ TemporaryNamesAccepted(files, st, log)
         /\ ArtifactsAgree(files.metadata, files.result, files.transcript, st, log)
=============================================================================
