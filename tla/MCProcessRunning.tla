-------------------------- MODULE MCProcessRunning --------------------------
(* Two process numbers, either of which a controller can have. *)
EXTENDS ProcessRunning, TLC

CONSTANTS a, b

Numbers == {a, b}
NumberSymmetry == Permutations(Numbers)
=============================================================================
