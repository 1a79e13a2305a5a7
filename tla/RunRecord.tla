----------------------------- MODULE RunRecord ------------------------------
(***************************************************************************)
(* What state.json and events.jsonl promise together: one run record that  *)
(* grows by one valid event at a time and is never rewritten.  A failure   *)
(* or a crash can damage the record: then its readers refuse it, and       *)
(* nothing is added to it, but nothing is lost either.  Only a loss of     *)
(* power takes events back, recent ones of a record that it damages or the *)
(* whole record, and only a loss of power undoes damage.                   *)
(***************************************************************************)
EXTENDS RunHistory

VARIABLES committed,  \* the events of the run
          damaged,    \* readers refuse the record
          losses      \* losses of power

recordVars == <<committed, damaged, losses>>

Extends(longer, shorter) ==
    Len(shorter) <= Len(longer) /\ SubSeq(longer, 1, Len(shorter)) = shorter

RecordInit == committed = << >> /\ damaged = FALSE /\ losses = 0

Commit ==
    /\ ~damaged
    /\ Extends(committed', committed) /\ Len(committed') = Len(committed) + 1
    /\ ValidHistory(committed')
    /\ UNCHANGED <<damaged, losses>>

Damage ==
    /\ damaged' = TRUE
    /\ UNCHANGED <<committed, losses>>

\* A loss of power.
Lose ==
    /\ losses' = losses + 1
    /\ damaged' \in BOOLEAN
    /\ \/ UNCHANGED committed
       \/ Extends(committed, committed') /\ damaged'
       \/ committed' = << >> /\ ~damaged'

RecordNext == Commit \/ Damage \/ Lose

RecordSpec == RecordInit /\ [][RecordNext]_recordVars
=============================================================================
