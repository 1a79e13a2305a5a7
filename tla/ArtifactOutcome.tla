--------------------------- MODULE ArtifactOutcome ---------------------------
(***************************************************************************)
(* What a caller of write_metadata, write_prompt, write_result and         *)
(* write_transcript may count on: a call is one step.  It installs its     *)
(* artifact, or raises and leaves one of the Prefixes, or the process dies *)
(* and leaves one of them; a loss of power takes more.  An error tells     *)
(* whether a result or a transcript is installed nevertheless              *)
(* (ArtifactWriteError.installed).  Controller writes its records with     *)
(* these outcomes, except "unnoticed" and the loss of power.               *)
(***************************************************************************)
EXTENDS InvocationFiles

CONSTANT Content \* Content[a]: what is ever written to artifact a

VARIABLES files, answer

Answers == {"none", "ok", "other", "installed", "unnoticed", "dead"}

Init == files = NoFiles /\ answer = "none"

Written(a, value) == files' = Put(files, a, value) /\ answer' = "ok"

Refused(a, value) ==
    /\ ~MayInstall(files, a, value)
    /\ UNCHANGED files /\ answer' = "other"

\* unnoticed: the call that installed the artifact reported an error, and so
\* did the one that would have told.
Failed(a, value) ==
    /\ files' \in Prefixes(files, a, value)
    /\ IF a \in Immutable /\ files'[a] = value THEN answer' \in {"installed", "unnoticed"}
                                               ELSE answer' = "other"

Died(a, value) == files' \in Prefixes(files, a, value) /\ answer' = "dead"

\* A loss of power keeps of each artifact one that was ever written, or none.
Lost ==
    /\ files' \in FilesSet
    /\ \A a \in Artifacts : files'[a] = NoFiles[a] \/ files'[a] \in Content[a]
    /\ answer' = "dead"

Next ==
    \/ /\ answer # "dead"
       /\ \E a \in Artifacts : \E value \in Content[a] :
             \/ Refused(a, value)
             \/ MayInstall(files, a, value) /\ (Written(a, value) \/ Failed(a, value))
             \/ MayInstall(files, a, value) /\ Died(a, value)
    \/ answer # "dead" /\ answer' = "dead" /\ UNCHANGED files
    \/ Lost

Spec == Init /\ [][Next]_<<files, answer>>
=============================================================================
