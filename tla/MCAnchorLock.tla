---------------------------- MODULE MCAnchorLock ----------------------------
(* The persistence lock for TLC: two processes that write, one that reads and *)
(* creates no anchors.                                                        *)
EXTENDS AnchorLock

CONSTANTS a, b, c

Everyone == {a, b, c}
Mutators == {a, b}
MCCreators == {a, b}
=============================================================================
