---------------------------- MODULE MCController ----------------------------
(* Instances of Controller for TLC. *)
EXTENDS Controller, TLC

CONSTANTS c1, c2, run1, fresh, other, null

MCControllers == {c1, c2}
MCRuns == {run1}
MCSessions == {fresh, other}
MCExisting == {other}

ControllerSymmetry == Permutations({c1, c2})
=============================================================================
