---------------------------- MODULE MCRecordReader ----------------------------
(* One run with one session; what its courses write. *)
EXTENDS RecordReader

CONSTANTS run1, s1

MCRuns == {run1}
MCSessions == {s1}

MCContent ==
    [metadata |-> {Planned, RunningMetadata,
                   Ending(RunningMetadata, "completed", "completed", "kept"),
                   Ending(RunningMetadata, "interrupted", "none", "kept"),
                   Ending(RunningMetadata, "timed_out", "none", "unavailable"),
                   Ending(Planned, "failed", "none", "unavailable")},
     prompt |-> {TRUE}, result |-> {"completed"}, transcript |-> {TRUE}]
=============================================================================
