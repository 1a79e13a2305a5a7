---------------------------- MODULE MCProbeGuard ----------------------------
(* The guard with two commits in each repository, one recording each. *)
EXTENDS ProbeGuard

CONSTANTS s1, s2, m1, m2

MCLinkOf == [c \in {s1, s2} |-> IF c = s1 THEN m1 ELSE m2]
=============================================================================
