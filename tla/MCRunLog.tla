------------------------------ MODULE MCRunLog ------------------------------
(* Instances of RunLog for TLC: two controllers and one reader. *)
EXTENDS RunLog, TLC

CONSTANTS w1, w2, r1, run1, s1, s2, null

MCWriters == {w1, w2}
MCReaders == {r1}
MCRuns == {run1}
MCSessions == {s1, s2}

RunLogSymmetry == Permutations({w1, w2}) \cup Permutations({s1, s2})
=============================================================================
