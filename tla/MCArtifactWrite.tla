--------------------------- MODULE MCArtifactWrite ---------------------------
(* How the files of an invocation are written: two versions of the metadata, *)
(* one result, and the cut of what a transcript is to hold.                  *)
EXTENDS ArtifactWrite, TranscriptBound

CONSTANTS run1, s1

MCRuns == {run1}
MCSessions == {s1}

MCContent ==
    [metadata |-> {Planned, [Planned EXCEPT !.status = "running", !.session = s1]},
     prompt |-> {TRUE}, result |-> {"completed"}, transcript |-> {TRUE}]

\* Whatever text transcript_wrapper was given, what write_transcript finds under
\* the name of the transcript was cut to its bound and to nothing less.
TranscriptsAreCutRight == target["transcript"] # 0 => CutIsRight
=============================================================================
