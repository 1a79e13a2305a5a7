-------------------------- MODULE StartCheckProofs --------------------------
(***************************************************************************)
(* What a starter is told, for any number of starters, events, removed     *)
(* lock directories and deaths.                                            *)
(*                                                                         *)
(* The files are written by the owner (OwnerWrites) under the exclusive    *)
(* lock, and read under the shared one.  That the two exclude each other   *)
(* is not for the lock alone to say: it is on inodes, so it takes a level  *)
(* whose directory has been the same for everybody (OneInode), which a     *)
(* single removal leaves.  What a reader has seen is then still there when *)
(* it decides (SightHolds), a pair that differs is being written or was    *)
(* left so by a death (UnequalIsWritten), and a starter that began after   *)
(* the first event finds the directories and waits (LateWaits); only the   *)
(* records of the invocation, which no lock protects, may look wrong to it *)
(* and not be (ToldOfIt).                                                  *)
(***************************************************************************)
EXTENDS StartCheck, TLAPS

-----------------------------------------------------------------------------
(* The invariant *)

Reading == {"lookState", "lookEvents", "loadState", "loadEvents", "loadRecords"}
Writing == {"append", "install"}
Taking == {"open", "flock", "current"}
Pausing == {"between", "recording"}

Active(p) == pc[p] \notin {"off", "ended", "dead"}

\* Inside the persistence lock, both levels of it.
InSection(p) == pc[p] \in Reading \cup Writing /\ work[p] # "bare"

\* What the lock is taken for, at each step.
WorkFits ==
    \A p \in Starters :
        /\ pc[p] \in Taking => work[p] # "bare"
        /\ pc[p] \in Reading => work[p] # "later"
        /\ pc[p] \in Writing => Exclusive(p)
        /\ pc[p] \in Pausing => work[p] = "later"
        /\ pc[p] \in {"off", "anchorExists", "preflight", "own"} => ~Exclusive(p)

\* Only the owner takes it to write, and it stops after the last event.
OwnerWrites ==
    \A p \in Starters :
        /\ Exclusive(p) /\ Active(p) => owner = p
        /\ work[p] = "later" /\ pc[p] \in Taking \cup Pausing \cup {"append"} => events < LastEvent

\* Which levels are locked at each step.
Nested ==
    \A p \in Starters :
        /\ pc[p] \notin Taking \cup Reading \cup Writing => held[p] = {}
        /\ pc[p] \in {"open", "flock"} =>
               held[p] = (IF at[p] = "namespace" THEN {} ELSE {"namespace"})
        /\ pc[p] = "current" =>
               held[p] = (IF at[p] = "namespace" THEN {"namespace"} ELSE Levels)
        /\ pc[p] \in Reading /\ work[p] = "bare" => held[p] = {}
        /\ InSection(p) => held[p] = Levels
        /\ pc[p] \in {"flock", "current"} => fd[p][at[p]] # Absent
        /\ \A l \in held[p] : fd[p][l] # Absent

FlockExcludes ==
    \A p, q \in Starters : \A l \in Levels :
        /\ p # q /\ l \in held[p] /\ l \in held[q]
        /\ Exclusive(p) \/ Exclusive(q)
        => fd[p][l] # fd[q][l]

\* Whoever has opened the directory at level l has opened the present one.
Same(l) == \A p \in Starters : fd[p][l] \in {Absent, path[l]}

OneInode ==
    /\ removals = 0 => \A l \in Levels : Same(l)
    /\ removals <= 1 => \E l \in Levels : Same(l)

\* What was read inside the lock still is what the files say.
SightHolds ==
    removals <= 1 =>
        \A p \in Starters :
            /\ InSection(p) /\ pc[p] \in {"lookEvents", "loadEvents"} => saw[p].state = state
            /\ pc[p] = "append" /\ work[p] = "initial" => events = 0 /\ state = 0

UnequalIsWritten == deaths = 0 /\ events # state => \E p \in Starters : pc[p] = "install"

AnchorsStay == removals = 0 /\ events > 0 => \A l \in Levels : path[l] # Absent

\* It is told of the run, or was reading records that did not fit.
ToldOfIt(p) ==
    \/ answer[p] = "run_already_exists"
    \/ answer[p] = "inconsistent_invocation_record" /\ p \in exposed

\* A starter that found an event when it began.
LateWaits ==
    removals = 0 /\ deaths = 0 =>
        \A p \in Starters : late[p] =>
            /\ events > 0
            /\ work[p] = "check"
            /\ pc[p] \in Taking \cup Reading \cup {"ended"}
            /\ pc[p] = "ended" => ToldOfIt(p)

IInv ==
    /\ TypeOK
    /\ WorkFits
    /\ OwnerWrites
    /\ Nested
    /\ FlockExcludes
    /\ OneInode
    /\ SightHolds
    /\ UnequalIsWritten
    /\ AnchorsStay
    /\ LateWaits
    /\ LockedAlarmIsTrue

-----------------------------------------------------------------------------
(* The state functions *)

\* The inodes that exist, when one more does.
LEMMA OneMoreInode ==
    ASSUME NEW n \in Nat \ {0},
           NEW g \in [Levels -> 0 .. n - 1],
           NEW l \in Levels
    PROVE  /\ n + 1 \in Nat \ {0}
           /\ g \in [Levels -> 0 .. (n + 1) - 1]
           /\ [g EXCEPT ![l] = n] \in [Levels -> 0 .. (n + 1) - 1]
<1>1. n \in 0 .. (n + 1) - 1 /\ \A k \in 0 .. n - 1 : k \in 0 .. (n + 1) - 1
  OBVIOUS
<1> QED BY <1>1

\* The steps to do with the records: one by a reader, two by the run.
RecordStep(p) == LoadRecords(p) \/ BeginRecords(p) \/ SettleRecords(p)

\* A step of one starter leaves what the others remember.
LEMMA OthersStay ==
    ASSUME TypeOK, NEW p \in Starters, Starter(p) \/ Die(p),
           NEW q \in Starters, q # p
    PROVE  /\ pc'[q] = pc[q]
           /\ work'[q] = work[q]
           /\ at'[q] = at[q]
           /\ fd'[q] = fd[q]
           /\ held'[q] = held[q]
           /\ saw'[q] = saw[q]
           /\ answer'[q] = answer[q]
           /\ late'[q] = late[q]
           /\ q \in exposed => q \in exposed'
<1>1. CASE Start(p)
  BY <1>1 DEF Start, Take, GoTo, files
<1>2. CASE Open(p)
  BY <1>2 DEF Open, Release, GoTo, TypeOK, files
<1>3. CASE Flock(p)
  BY <1>3 DEF Flock, GoTo, files
<1>4. CASE Current(p)
  BY <1>4 DEF Current, End, Release, GoTo, locks, TypeOK, files
<1>5. CASE LookState(p)
  BY <1>5 DEF LookState, GoTo, locks, files
<1>6. CASE LookEvents(p)
  BY <1>6 DEF LookEvents, NoRunFound, End, Release, GoTo, locks, TypeOK, files
<1>7. CASE LoadState(p)
  BY <1>7 DEF LoadState, GoTo, locks, files
<1>8. CASE LoadEvents(p)
  BY <1>8 DEF LoadEvents, End, Release, GoTo, files, locks, TypeOK
<1>9. CASE AnchorExists(p)
  BY <1>9 DEF AnchorExists, Take, GoTo, TypeOK, files
<1>10. CASE PreflightPasses(p)
  BY <1>10 DEF PreflightPasses, GoTo, locks, files
<1>11. CASE PreflightFails(p)
  BY <1>11 DEF PreflightFails, End, Release, GoTo, files
<1>12. CASE Own(p)
  BY <1>12 DEF Own, Take, End, Release, GoTo, TypeOK, files
<1>13. CASE Append(p)
  BY <1>13 DEF Append, Unsettle, End, Release, GoTo, locks, TypeOK, files
<1>14. CASE Install(p)
  BY <1>14 DEF Install, End, Release, GoTo, TypeOK, files
<1>15. CASE NextEvent(p)
  BY <1>15 DEF NextEvent, Take, GoTo, files
<1>16. CASE Die(p)
  BY <1>16 DEF Die, Release, GoTo, files
<1>17. CASE RecordStep(p)
  BY <1>17 DEF RecordStep, LoadRecords, BeginRecords, SettleRecords, Unsettle, End, Release,
     GoTo, locks, files, TypeOK
<1> QED BY <1>1, <1>2, <1>3, <1>4, <1>5, <1>6, <1>7, <1>8, <1>9, <1>10, <1>11, <1>12, <1>13,
           <1>14, <1>15, <1>16, <1>17 DEF Starter, RecordStep

LEMMA StepKeepsTypes ==
    ASSUME TypeOK, WorkFits, OwnerWrites, NEW p \in Starters, Starter(p) \/ Die(p)
    PROVE  TypeOK'
<1>1. CASE Start(p)
  BY <1>1, StartAssumption DEF Start, Take, GoTo, files, faults, Unread, TypeOK, Steps, Works,
     Levels
<1>2. CASE Open(p)
  <2>1. CASE path[at[p]] = Absent /\ Exclusive(p)
    <3>1. /\ path' = [path EXCEPT ![at[p]] = fresh]
          /\ fd' = [fd EXCEPT ![p][at[p]] = fresh]
          /\ fresh' = fresh + 1
          /\ UNCHANGED <<records, exposed, at, held, work, saw, owner, answer, removals,
                         deaths, events, state,
                         late>>
          /\ pc' = [pc EXCEPT ![p] = "flock"]
      BY <1>2, <2>1 DEF Open, GoTo, files, faults
    <3>2. fresh' \in Nat \ {0} /\ path' \in [Levels -> 0 .. fresh' - 1]
      BY <3>1, OneMoreInode DEF TypeOK
    <3>3. \A q \in Starters : fd[q] \in [Levels -> 0 .. fresh' - 1]
      BY <3>1, OneMoreInode DEF TypeOK
    <3>4. [fd[p] EXCEPT ![at[p]] = fresh] \in [Levels -> 0 .. fresh' - 1]
      BY <3>1, OneMoreInode DEF TypeOK
    <3>5. fd' \in [Starters -> [Levels -> 0 .. fresh' - 1]]
      BY <3>1, <3>3, <3>4 DEF TypeOK
    <3> QED BY <3>1, <3>2, <3>5 DEF TypeOK, Steps
  <2>2. CASE path[at[p]] # Absent
    <3>1. /\ fd' = [fd EXCEPT ![p][at[p]] = path[at[p]]]
          /\ pc' = [pc EXCEPT ![p] = "flock"]
          /\ UNCHANGED <<records, exposed, path, fresh, at, held, work, saw, owner, answer,
                         removals, deaths,
                         events, state, late>>
      BY <1>2, <2>2 DEF Open, GoTo, files, faults
    <3>2. [fd[p] EXCEPT ![at[p]] = path[at[p]]] \in [Levels -> 0 .. fresh - 1]
      BY DEF TypeOK
    <3> QED BY <3>1, <3>2 DEF TypeOK, Steps
  <2>3. CASE path[at[p]] = Absent /\ ~Exclusive(p)
    <3>1. /\ work' = [work EXCEPT ![p] = "bare"]
          /\ saw' = [saw EXCEPT ![p] = Unread]
          /\ pc' = [pc EXCEPT ![p] = "lookState"]
          /\ held' = [held EXCEPT ![p] = {}]
          /\ UNCHANGED <<records, exposed, path, fresh, at, fd, owner, answer, removals,
                         deaths, events, state,
                         late>>
      BY <1>2, <2>3 DEF Open, Release, GoTo, files, faults
    <3>2. Unread \in [state : 0 .. LastEvent, events : 0 .. LastEvent]
      BY StartAssumption DEF Unread
    <3> QED BY <3>1, <3>2 DEF TypeOK, Steps, Works
  <2> QED BY <2>1, <2>2, <2>3
<1>3. CASE Flock(p)
  BY <1>3, StartAssumption DEF Flock, GoTo, files, faults, TypeOK, Steps
<1>4. CASE Current(p)
  <2>1. CASE path[at[p]] # fd[p][at[p]]
    <3>1. End(p, "persistence_failed") /\ UNCHANGED <<files, faults, late>>
      BY <1>4, <2>1 DEF Current
    <3> QED BY <3>1 DEF End, Release, GoTo, files, faults, TypeOK, Steps, Answers
  <2>2. CASE path[at[p]] = fd[p][at[p]] /\ at[p] = "namespace"
    BY <1>4, <2>2 DEF Current, GoTo, files, faults, TypeOK, Steps, Levels
  <2>3. CASE path[at[p]] = fd[p][at[p]] /\ at[p] = "anchor"
    BY <1>4, <2>3 DEF Current, GoTo, locks, files, faults, TypeOK, Steps
  <2>4. at[p] \in {"namespace", "anchor"}
    BY DEF TypeOK, Levels
  <2> QED BY <2>1, <2>2, <2>3, <2>4
<1>5. CASE LookState(p)
  BY <1>5, StartAssumption DEF LookState, GoTo, locks, files, faults, TypeOK, Steps
<1>6. CASE LookEvents(p)
  <2>1. /\ pc' \in [Starters -> Steps]
        /\ held' \in [Starters -> SUBSET Levels]
    BY <1>6 DEF LookEvents, NoRunFound, End, Release, GoTo, locks, TypeOK, Steps
  <2>2. answer' \in [Starters -> Answers] /\ owner' \in Starters \cup {Nobody}
    BY <1>6 DEF LookEvents, NoRunFound, End, TypeOK, Answers
  <2>3. UNCHANGED <<path, fresh, at, fd, work, saw, files, faults, late>>
    BY <1>6 DEF LookEvents, NoRunFound, End, Release, locks
  <2> QED BY <2>1, <2>2, <2>3 DEF files, faults, TypeOK
<1>7. CASE LoadState(p)
  BY <1>7, StartAssumption DEF LoadState, GoTo, locks, files, faults, TypeOK, Steps
<1>8. CASE LoadEvents(p)
  <2>1. /\ pc' \in [Starters -> Steps]
        /\ held' \in [Starters -> SUBSET Levels]
    BY <1>8 DEF LoadEvents, End, Release, GoTo, locks, TypeOK, Steps
  <2>2. answer' \in [Starters -> Answers] /\ owner' \in Starters \cup {Nobody}
    BY <1>8 DEF LoadEvents, End, TypeOK, Answers
  <2>3. exposed' \subseteq Starters
    BY <1>8 DEF LoadEvents, TypeOK
  <2>4. UNCHANGED <<path, fresh, at, fd, work, saw, events, state, records, faults, late>>
    BY <1>8 DEF LoadEvents, End, Release, locks
  <2> QED BY <2>1, <2>2, <2>3, <2>4 DEF faults, TypeOK
<1>9. CASE AnchorExists(p)
  <2>1. CASE path["anchor"] # Absent
    <3>1. /\ owner' = owner
          /\ work' = [work EXCEPT ![p] = "check"]
          /\ at' = [at EXCEPT ![p] = "namespace"]
          /\ saw' = [saw EXCEPT ![p] = Unread]
          /\ pc' = [pc EXCEPT ![p] = "open"]
          /\ UNCHANGED <<records, exposed, path, fresh, fd, held, answer, removals, deaths,
                         events, state, late>>
      BY <1>9, <2>1 DEF AnchorExists, Take, End, GoTo, files, faults
    <3>2. Unread \in [state : 0 .. LastEvent, events : 0 .. LastEvent]
      BY StartAssumption DEF Unread
    <3> QED BY <3>1, <3>2 DEF TypeOK, Steps, Works, Levels
  <2>2. CASE path["anchor"] = Absent
    BY <1>9, <2>2 DEF AnchorExists, GoTo, files, faults, TypeOK, Steps
  <2> QED BY <2>1, <2>2
<1>10. CASE PreflightPasses(p)
  BY <1>10, StartAssumption DEF PreflightPasses, GoTo, locks, files, faults, TypeOK, Steps
<1>11. CASE PreflightFails(p)
  BY <1>11, StartAssumption DEF PreflightFails, End, Release, GoTo, files, faults, TypeOK,
     Steps, Answers
<1>12. CASE Own(p)
  <2>1. CASE owner = Nobody
    <3>1. /\ owner' = p
          /\ work' = [work EXCEPT ![p] = "initial"]
          /\ at' = [at EXCEPT ![p] = "namespace"]
          /\ saw' = [saw EXCEPT ![p] = Unread]
          /\ pc' = [pc EXCEPT ![p] = "open"]
          /\ UNCHANGED <<records, exposed, path, fresh, fd, held, answer, removals, deaths,
                         events, state, late>>
      BY <1>12, <2>1 DEF Own, Take, GoTo, files, faults
    <3>2. Unread \in [state : 0 .. LastEvent, events : 0 .. LastEvent]
      BY StartAssumption DEF Unread
    <3> QED BY <3>1, <3>2 DEF TypeOK, Steps, Works, Levels
  <2>2. CASE owner # Nobody
    BY <1>12, <2>2 DEF Own, End, Release, GoTo, files, faults, TypeOK, Steps, Answers
  <2> QED BY <2>1, <2>2
<1>13. CASE Append(p)
  <2>1. events \in Nat /\ LastEvent \in Nat \ {0} /\ (events' = events + 1 => events < LastEvent)
    BY <1>13, StartAssumption DEF Append, WorkFits, Exclusive, Writing, OwnerWrites, TypeOK
  <2>2. events' \in 0 .. LastEvent
    BY <1>13, <2>1 DEF Append, TypeOK
  <2>3. /\ pc' \in [Starters -> Steps]
        /\ held' \in [Starters -> SUBSET Levels]
        /\ answer' \in [Starters -> Answers]
        /\ owner' \in Starters \cup {Nobody}
    BY <1>13 DEF Append, End, Release, GoTo, locks, TypeOK, Steps, Answers
  <2>4. UNCHANGED <<path, fresh, at, fd, work, saw, state, removals, deaths, late>>
    BY <1>13 DEF Append, End, Release, locks, faults
  <2>5. records' \in {"settled", "unsettled"} /\ exposed' \subseteq Starters
    BY <1>13 DEF Append, Unsettle, TypeOK
  <2> QED BY <2>2, <2>3, <2>4, <2>5 DEF TypeOK
<1>14. CASE Install(p)
  <2>1. /\ pc' \in [Starters -> Steps]
        /\ held' \in [Starters -> SUBSET Levels]
    BY <1>14 DEF Install, End, Release, GoTo, locks, TypeOK, Steps
  <2>2. answer' \in [Starters -> Answers] /\ owner' \in Starters \cup {Nobody}
    BY <1>14 DEF Install, End, TypeOK, Answers
  <2>3. state' \in 0 .. LastEvent /\ work' \in [Starters -> Works]
    BY <1>14 DEF Install, End, TypeOK, Works
  <2>4. UNCHANGED <<path, fresh, at, fd, saw, events, records, exposed, faults, late>>
    BY <1>14 DEF Install, End, Release
  <2> QED BY <2>1, <2>2, <2>3, <2>4 DEF faults, TypeOK
<1>15. CASE NextEvent(p)
  BY <1>15, StartAssumption DEF NextEvent, Take, GoTo, files, faults, Unread, TypeOK, Steps,
     Works, Levels
<1>16. CASE Die(p)
  BY <1>16, StartAssumption DEF Die, Release, GoTo, files, TypeOK, Steps
<1>17. CASE RecordStep(p)
  <2>1. CASE LoadRecords(p)
    BY <2>1 DEF LoadRecords, End, Release, GoTo, files, faults, TypeOK, Steps, Answers
  <2>2. CASE BeginRecords(p)
    BY <2>2 DEF BeginRecords, Unsettle, GoTo, locks, faults, TypeOK, Steps
  <2>3. CASE SettleRecords(p)
    BY <2>3 DEF SettleRecords, locks, faults, TypeOK
  <2> QED BY <1>17, <2>1, <2>2, <2>3 DEF RecordStep
<1> QED BY <1>1, <1>2, <1>3, <1>4, <1>5, <1>6, <1>7, <1>8, <1>9, <1>10, <1>11, <1>12, <1>13,
           <1>14, <1>15, <1>16, <1>17 DEF Starter, RecordStep

LEMMA RemoveKeepsTypes ==
    ASSUME TypeOK, NEW l \in Levels, Remove(l)
    PROVE  TypeOK'
<1>1. /\ path' = [path EXCEPT ![l] = 0]
      /\ removals' = removals + 1
      /\ removals < MaxRemovals
      /\ UNCHANGED <<records, exposed, fresh, at, fd, held, deaths, owner, events, state, pc,
                     work, saw, answer,
                     late>>
  BY DEF Remove, files, Absent
<1>2. removals' \in 0 .. MaxRemovals
  BY <1>1, StartAssumption DEF TypeOK
<1>3. 0 \in 0 .. fresh - 1
  BY DEF TypeOK
<1>4. path' \in [Levels -> 0 .. fresh - 1]
  BY <1>1, <1>3 DEF TypeOK
<1> QED BY <1>1, <1>2, <1>4 DEF TypeOK

\* What the steps with several outcomes do, outcome by outcome.
OpensIt(p) ==
    /\ path[at[p]] # Absent
    /\ fd'[p][at[p]] = path[at[p]]
    /\ path' = path

MakesIt(p) ==
    /\ path[at[p]] = Absent /\ Exclusive(p)
    /\ fd'[p][at[p]] = fresh
    /\ fresh # Absent
    /\ path'[at[p]] = fresh
    /\ \A l \in Levels \ {at[p]} : path'[l] = path[l]

OpenEffect(p) ==
    /\ pc[p] = "open"
    /\ UNCHANGED <<at, owner, answer, events, state, removals, deaths, late>>
    /\ \A l \in Levels \ {at[p]} : fd'[p][l] = fd[p][l]
    /\ \/ /\ OpensIt(p) \/ MakesIt(p)
          /\ pc'[p] = "flock"
          /\ UNCHANGED <<work, held, saw>>
       \/ /\ path[at[p]] = Absent /\ ~Exclusive(p)
          /\ pc'[p] = "lookState"
          /\ work'[p] = "bare"
          /\ held'[p] = {}
          /\ UNCHANGED <<path, fd>>

LEMMA OpenMeans ==
    ASSUME TypeOK, NEW p \in Starters, Open(p)
    PROVE  OpenEffect(p)
<1>1. /\ pc[p] = "open"
      /\ UNCHANGED <<at, owner, answer, events, state, removals, deaths, late>>
  BY DEF Open, Release, files, faults
<1>2. CASE path[at[p]] # Absent
  <2>1. /\ fd' = [fd EXCEPT ![p][at[p]] = path[at[p]]]
        /\ pc' = [pc EXCEPT ![p] = "flock"]
        /\ UNCHANGED <<path, work, held, saw>>
    BY <1>2 DEF Open, GoTo
  <2> QED BY <1>1, <1>2, <2>1 DEF TypeOK, OpensIt, OpenEffect
<1>3. CASE path[at[p]] = Absent /\ Exclusive(p)
  <2>1. /\ fd' = [fd EXCEPT ![p][at[p]] = fresh]
        /\ pc' = [pc EXCEPT ![p] = "flock"]
        /\ path' = [path EXCEPT ![at[p]] = fresh]
        /\ UNCHANGED <<work, held, saw>>
    BY <1>3 DEF Open, GoTo
  <2>2. fresh # Absent
    BY DEF TypeOK, Absent
  <2> QED BY <1>1, <1>3, <2>1, <2>2 DEF TypeOK, MakesIt, OpenEffect
<1>4. CASE path[at[p]] = Absent /\ ~Exclusive(p)
  <2>1. /\ pc' = [pc EXCEPT ![p] = "lookState"]
        /\ work' = [work EXCEPT ![p] = "bare"]
        /\ held' = [held EXCEPT ![p] = {}]
        /\ UNCHANGED <<path, fd>>
    BY <1>4 DEF Open, GoTo, Release
  <2> QED BY <1>1, <1>4, <2>1 DEF TypeOK, OpenEffect
<1> QED BY <1>2, <1>3, <1>4 DEF OpenEffect

CurrentEffect(p) ==
    /\ pc[p] = "current"
    /\ UNCHANGED <<path, fd, work, saw, events, state, removals, deaths, late>>
    /\ \/ /\ path[at[p]] # fd[p][at[p]]
          /\ pc'[p] = "ended"
          /\ answer'[p] = "persistence_failed"
          /\ held'[p] = {}
          /\ owner' = IF owner = p THEN Nobody ELSE owner
       \/ /\ at[p] = "namespace" /\ at'[p] = "anchor"
          /\ pc'[p] = "open"
          /\ UNCHANGED <<held, owner, answer>>
       \/ /\ at[p] = "anchor"
          /\ pc'[p] = (IF work[p] = "later" THEN "append" ELSE "lookState")
          /\ UNCHANGED <<at, held, owner, answer>>

LEMMA CurrentMeans ==
    ASSUME TypeOK, NEW p \in Starters, Current(p)
    PROVE  CurrentEffect(p)
<1>1. /\ pc[p] = "current"
      /\ UNCHANGED <<path, fd, work, saw, events, state, removals, deaths, late>>
  BY DEF Current, End, Release, locks, files, faults
<1>2. CASE path[at[p]] # fd[p][at[p]]
  BY <1>1, <1>2 DEF Current, End, Release, GoTo, TypeOK, CurrentEffect
<1>3. CASE path[at[p]] = fd[p][at[p]] /\ at[p] = "namespace"
  BY <1>1, <1>3 DEF Current, GoTo, TypeOK, CurrentEffect
<1>4. CASE path[at[p]] = fd[p][at[p]] /\ at[p] = "anchor"
  <2>1. /\ pc' = [pc EXCEPT ![p] = IF work[p] = "later" THEN "append" ELSE "lookState"]
        /\ UNCHANGED <<at, held, owner, answer>>
    BY <1>4 DEF Current, GoTo, locks
  <2>2. pc'[p] = (IF work[p] = "later" THEN "append" ELSE "lookState")
    BY <2>1 DEF TypeOK
  <2> QED BY <1>1, <1>4, <2>1, <2>2 DEF CurrentEffect
<1>5. at[p] \in {"namespace", "anchor"}
  BY DEF TypeOK, Levels
<1> QED BY <1>2, <1>3, <1>4, <1>5 DEF CurrentEffect

LookEventsEffect(p) ==
    /\ pc[p] = "lookEvents"
    /\ UNCHANGED <<path, at, fd, work, saw, events, state, removals, deaths, late>>
    /\ \/ /\ saw[p].state = 0 /\ events = 0
          /\ \/ work[p] = "check" /\ pc'[p] = "preflight" /\ held'[p] = {}
             \/ work[p] = "bare" /\ pc'[p] = "anchorExists" /\ held' = held
             \/ /\ work[p] \in {"initial", "later"}
                /\ pc'[p] = "append" /\ held' = held
          /\ UNCHANGED <<owner, answer>>
       \/ /\ (saw[p].state = 0) # (events = 0)
          /\ pc'[p] = "ended"
          /\ answer'[p] = "inconsistent_persistence"
          /\ held'[p] = {}
          /\ owner' = IF owner = p THEN Nobody ELSE owner
       \/ /\ saw[p].state > 0 /\ events > 0
          /\ pc'[p] = "loadState"
          /\ UNCHANGED <<held, owner, answer>>

LEMMA LookEventsMeans ==
    ASSUME TypeOK, NEW p \in Starters, LookEvents(p)
    PROVE  LookEventsEffect(p)
<1>1. /\ pc[p] = "lookEvents"
      /\ UNCHANGED <<events, state, removals, deaths, late>>
  BY DEF LookEvents, files, faults
<1>2. CASE NoRunFound(p)
  <2>1. saw[p].state = 0 /\ events = 0 /\ UNCHANGED <<work, saw, owner, answer>>
    BY <1>2 DEF NoRunFound
  <2>2. CASE work[p] = "check"
    <3>1. pc' = [pc EXCEPT ![p] = "preflight"] /\ Release(p)
      BY <1>2, <2>2 DEF NoRunFound, GoTo
    <3>2. UNCHANGED <<path, at, fd>> /\ held'[p] = {} /\ pc'[p] = "preflight"
      BY <3>1 DEF Release, TypeOK
    <3> QED BY <1>1, <2>1, <2>2, <3>2 DEF LookEventsEffect
  <2>3. CASE work[p] = "bare"
    <3>1. pc' = [pc EXCEPT ![p] = "anchorExists"] /\ UNCHANGED locks
      BY <1>2, <2>3 DEF NoRunFound, GoTo
    <3>2. UNCHANGED <<path, at, fd, held>> /\ pc'[p] = "anchorExists"
      BY <3>1 DEF locks, TypeOK
    <3> QED BY <1>1, <2>1, <2>3, <3>2 DEF LookEventsEffect
  <2>4. CASE work[p] \in {"initial", "later"}
    <3>1. pc' = [pc EXCEPT ![p] = "append"] /\ UNCHANGED locks
      BY <1>2, <2>4 DEF NoRunFound, GoTo
    <3>2. UNCHANGED <<path, at, fd, held>> /\ pc'[p] = "append"
      BY <3>1 DEF locks, TypeOK
    <3> QED BY <1>1, <2>1, <2>4, <3>2 DEF LookEventsEffect
  <2> QED BY <2>2, <2>3, <2>4 DEF TypeOK, Works
<1>3. CASE (saw[p].state = 0) # (events = 0) /\ End(p, "inconsistent_persistence")
  <2>1. /\ UNCHANGED <<path, at, fd, work, saw>>
        /\ owner' = IF owner = p THEN Nobody ELSE owner
    BY <1>3 DEF End, Release
  <2>2. pc'[p] = "ended" /\ answer'[p] = "inconsistent_persistence" /\ held'[p] = {}
    BY <1>3 DEF End, Release, GoTo, TypeOK
  <2> QED BY <1>1, <1>3, <2>1, <2>2 DEF LookEventsEffect
<1>4. CASE /\ saw[p].state > 0
           /\ events > 0
           /\ GoTo(p, "loadState")
           /\ UNCHANGED <<locks, work, saw, owner, answer>>
  BY <1>1, <1>4 DEF GoTo, locks, TypeOK, LookEventsEffect
<1> QED BY <1>2, <1>3, <1>4 DEF LookEvents, LookEventsEffect

LoadEventsEffect(p) ==
    /\ pc[p] = "loadEvents"
    /\ UNCHANGED <<path, at, fd, work, saw, events, state, removals, deaths, late>>
    /\ \/ /\ events # saw[p].state
          /\ pc'[p] = "ended"
          /\ answer'[p] = "inconsistent_persistence"
          /\ held'[p] = {}
          /\ owner' = IF owner = p THEN Nobody ELSE owner
       \/ /\ events = saw[p].state
          /\ pc'[p] = "loadRecords"
          /\ UNCHANGED <<held, owner, answer>>

LEMMA LoadEventsMeans ==
    ASSUME TypeOK, NEW p \in Starters, LoadEvents(p)
    PROVE  LoadEventsEffect(p)
<1>1. /\ pc[p] = "loadEvents"
      /\ UNCHANGED <<events, state, removals, deaths, late>>
  BY DEF LoadEvents, faults
<1>2. CASE events # saw[p].state
  <2>1. End(p, "inconsistent_persistence")
    BY <1>2 DEF LoadEvents
  <2>2. pc'[p] = "ended" /\ answer'[p] = "inconsistent_persistence" /\ held'[p] = {}
    BY <2>1 DEF End, Release, GoTo, TypeOK
  <2> QED BY <1>1, <1>2, <2>1, <2>2 DEF End, Release, LoadEventsEffect
<1>3. CASE events = saw[p].state
  <2>1. GoTo(p, "loadRecords") /\ UNCHANGED <<locks, work, saw, owner, answer>>
    BY <1>3 DEF LoadEvents
  <2> QED BY <1>1, <1>3, <2>1 DEF GoTo, locks, TypeOK, LoadEventsEffect
<1> QED BY <1>2, <1>3

RecordEffect(p) ==
    /\ UNCHANGED <<path, fresh, at, fd, work, saw, events, state, removals, deaths, late>>
    /\ \/ /\ pc[p] = "loadRecords"
          /\ pc'[p] = "ended"
          /\ ToldOfIt(p)'
          /\ answer'[p] # "inconsistent_persistence"
          /\ held'[p] = {}
          /\ owner' = IF owner = p THEN Nobody ELSE owner
       \/ /\ pc[p] \in Pausing
          /\ pc'[p] \in Pausing
          /\ UNCHANGED <<held, owner, answer>>

LEMMA RecordStepMeans ==
    ASSUME TypeOK, NEW p \in Starters, RecordStep(p)
    PROVE  RecordEffect(p)
<1>1. CASE LoadRecords(p)
  <2>1. /\ pc[p] = "loadRecords"
        /\ UNCHANGED <<events, state, exposed, removals, deaths, late>>
    BY <1>1 DEF LoadRecords, files, faults
  <2>2. PICK a \in {"run_already_exists", "inconsistent_invocation_record"} :
            End(p, a) /\ (a = "inconsistent_invocation_record" => p \in exposed)
    BY <1>1 DEF LoadRecords
  <2>3. pc'[p] = "ended" /\ answer'[p] = a /\ held'[p] = {}
    BY <2>2 DEF End, Release, GoTo, TypeOK
  <2>4. ToldOfIt(p)' /\ answer'[p] # "inconsistent_persistence"
    BY <2>1, <2>2, <2>3 DEF ToldOfIt
  <2> QED BY <2>1, <2>2, <2>3, <2>4 DEF End, Release, RecordEffect
<1>2. CASE BeginRecords(p)
  BY <1>2 DEF BeginRecords, GoTo, locks, faults, TypeOK, RecordEffect, Pausing
<1>3. CASE SettleRecords(p)
  BY <1>3 DEF SettleRecords, locks, faults, RecordEffect, Pausing
<1> QED BY <1>1, <1>2, <1>3 DEF RecordStep

OwnEffect(p) ==
    /\ pc[p] = "own"
    /\ UNCHANGED <<path, fd, events, state, removals, deaths, late>>
    /\ \/ /\ owner = Nobody /\ owner' = p
          /\ pc'[p] = "open"
          /\ work'[p] = "initial"
          /\ at'[p] = "namespace"
          /\ UNCHANGED <<held, answer>>
       \/ /\ owner # Nobody
          /\ pc'[p] = "ended"
          /\ answer'[p] = "run_already_active"
          /\ held'[p] = {}
          /\ owner' = IF owner = p THEN Nobody ELSE owner
          /\ UNCHANGED <<work, saw>>

LEMMA OwnMeans ==
    ASSUME TypeOK, NEW p \in Starters, Own(p)
    PROVE  OwnEffect(p)
<1>1. /\ pc[p] = "own"
      /\ UNCHANGED <<path, fd, events, state, removals, deaths, late>>
  BY DEF Own, End, Release, files, faults
<1>2. CASE owner = Nobody
  <2>1. owner' = p /\ Take(p, "initial") /\ UNCHANGED <<held, answer>>
    BY <1>2 DEF Own
  <2>2. pc'[p] = "open" /\ work'[p] = "initial" /\ at'[p] = "namespace"
    BY <2>1 DEF Take, GoTo, TypeOK
  <2> QED BY <1>1, <1>2, <2>1, <2>2 DEF OwnEffect
<1>3. CASE owner # Nobody
  <2>1. End(p, "run_already_active")
    BY <1>3 DEF Own
  <2>2. pc'[p] = "ended" /\ answer'[p] = "run_already_active" /\ held'[p] = {}
    BY <2>1 DEF End, Release, GoTo, TypeOK
  <2> QED BY <1>1, <1>3, <2>1, <2>2 DEF End, OwnEffect
<1> QED BY <1>2, <1>3 DEF OwnEffect

AppendEffect(p) ==
    /\ pc[p] = "append"
    /\ UNCHANGED <<path, at, fd, work, saw, state, removals, deaths, late>>
    /\ \/ /\ work[p] = "initial" => events = 0 /\ state = 0
          /\ work[p] # "initial" => events = state
          /\ events' = events + 1
          /\ pc'[p] = "install"
          /\ UNCHANGED <<held, owner, answer>>
       \/ /\ work[p] = "initial" => ~(events = 0 /\ state = 0)
          /\ work[p] # "initial" => events # state
          /\ events' = events
          /\ pc'[p] = "ended"
          /\ answer'[p] = "inconsistent_persistence"
          /\ held'[p] = {}
          /\ owner' = IF owner = p THEN Nobody ELSE owner

LEMMA AppendMeans ==
    ASSUME TypeOK, NEW p \in Starters, Append(p)
    PROVE  AppendEffect(p)
<1> DEFINE fits == IF work[p] = "initial" THEN events = 0 /\ state = 0 ELSE events = state
<1>1. /\ pc[p] = "append"
      /\ UNCHANGED <<state, removals, deaths, late>>
  BY DEF Append, faults
<1>2. CASE fits
  <2>1. events' = events + 1 /\ GoTo(p, "install") /\ UNCHANGED <<locks, work, saw, owner,
                                                                  answer>>
    BY <1>2 DEF Append
  <2>2. pc'[p] = "install" /\ UNCHANGED <<path, at, fd, held>>
    BY <2>1 DEF GoTo, locks, TypeOK
  <2> QED BY <1>1, <1>2, <2>1, <2>2 DEF AppendEffect
<1>3. CASE ~fits
  <2>1. End(p, "inconsistent_persistence") /\ events' = events
    BY <1>3 DEF Append
  <2>2. pc'[p] = "ended" /\ answer'[p] = "inconsistent_persistence" /\ held'[p] = {}
    BY <2>1 DEF End, Release, GoTo, TypeOK
  <2> QED BY <1>1, <1>3, <2>1, <2>2 DEF End, Release, AppendEffect
<1> QED BY <1>2, <1>3 DEF AppendEffect

-----------------------------------------------------------------------------
(* Who has which lock, and for what *)

WorkFitsOf(p) ==
    /\ pc[p] \in Taking => work[p] # "bare"
    /\ pc[p] \in Reading => work[p] # "later"
    /\ pc[p] \in Writing => Exclusive(p)
    /\ pc[p] \in Pausing => work[p] = "later"
    /\ pc[p] \in {"off", "anchorExists", "preflight", "own"} => ~Exclusive(p)

LEMMA WorkStays ==
    ASSUME TypeOK, WorkFits, NEW p \in Starters, Starter(p) \/ Die(p)
    PROVE  WorkFits'
<1>1. SUFFICES ASSUME NEW q \in Starters
               PROVE  WorkFitsOf(q)'
  BY <1>1 DEF WorkFits, WorkFitsOf
<1>2. WorkFitsOf(q) /\ WorkFitsOf(p)
  BY DEF WorkFits, WorkFitsOf
<1>3. CASE q # p
  BY <1>2, <1>3, OthersStay DEF WorkFitsOf, Exclusive
<1>4. CASE q = p
<2>1. CASE Start(p)
  BY <2>1, <1>2, <1>4 DEF Start, Take, GoTo, TypeOK, WorkFitsOf, Writing, Pausing
<2>2. CASE Open(p)
  <3>1. OpenEffect(p)
    BY <2>2, OpenMeans
  <3> QED BY <3>1, <1>2, <1>4 DEF OpenEffect, WorkFitsOf, Taking, Reading, Writing, Pausing
<2>3. CASE Flock(p)
  BY <2>3, <1>2, <1>4 DEF Flock, GoTo, WorkFitsOf, Taking, Reading, Writing, Pausing
<2>4. CASE Current(p)
  <3>1. CurrentEffect(p)
    BY <2>4, CurrentMeans
  <3> QED BY <3>1, <1>2, <1>4 DEF CurrentEffect, WorkFitsOf, Exclusive, Taking, Reading,
             Writing, Pausing
<2>5. CASE LookState(p)
  BY <2>5, <1>2, <1>4 DEF LookState, GoTo, WorkFitsOf, Taking, Reading, Writing, Pausing
<2>6. CASE LookEvents(p)
  <3>1. LookEventsEffect(p)
    BY <2>6, LookEventsMeans
  <3> QED BY <3>1, <1>2, <1>4 DEF LookEventsEffect, WorkFitsOf, Exclusive, Taking, Reading,
             Writing, Pausing
<2>7. CASE LoadState(p)
  BY <2>7, <1>2, <1>4 DEF LoadState, GoTo, WorkFitsOf, Taking, Reading, Writing, Pausing
<2>8. CASE LoadEvents(p)
  <3>1. LoadEventsEffect(p)
    BY <2>8, LoadEventsMeans
  <3> QED BY <3>1, <1>2, <1>4 DEF LoadEventsEffect, WorkFitsOf, Taking, Reading, Writing,
             Exclusive, Pausing
<2>9. CASE AnchorExists(p)
  BY <2>9, <1>2, <1>4 DEF AnchorExists, Take, GoTo, TypeOK, WorkFitsOf, Exclusive, Taking,
     Writing, Pausing
<2>10. CASE PreflightPasses(p)
  BY <2>10, <1>2, <1>4 DEF PreflightPasses, GoTo, WorkFitsOf, Exclusive, Taking, Writing,
     Pausing
<2>11. CASE PreflightFails(p)
  BY <2>11, <1>2, <1>4 DEF PreflightFails, End, GoTo, WorkFitsOf, Exclusive, Taking, Writing,
     Pausing
<2>12. CASE Own(p)
  <3>1. OwnEffect(p)
    BY <2>12, OwnMeans
  <3> QED BY <3>1, <1>2, <1>4 DEF OwnEffect, WorkFitsOf, Exclusive, Taking, Writing, Pausing
<2>13. CASE Append(p)
  <3>1. AppendEffect(p)
    BY <2>13, AppendMeans
  <3> QED BY <3>1, <1>2, <1>4 DEF AppendEffect, WorkFitsOf, Exclusive, Reading, Writing, Pausing
<2>14. CASE Install(p)
  BY <2>14, <1>2, <1>4 DEF Install, End, GoTo, TypeOK, WorkFitsOf, Exclusive, Reading, Writing,
     Pausing
<2>15. CASE NextEvent(p)
  BY <2>15, <1>2, <1>4 DEF NextEvent, Take, GoTo, WorkFitsOf, Exclusive, Reading, Pausing
<2>16. CASE Die(p)
  BY <2>16, <1>2, <1>4 DEF Die, GoTo, TypeOK, WorkFitsOf, Taking, Reading, Writing, Pausing
<2>17. CASE RecordStep(p)
  <3>1. RecordEffect(p)
    BY <2>17, RecordStepMeans
  <3> QED BY <3>1, <1>2, <1>4 DEF RecordEffect, WorkFitsOf, Taking, Reading, Writing,
             Exclusive, Pausing
  <2> QED BY <1>4, <2>1, <2>2, <2>3, <2>4, <2>5, <2>6, <2>7, <2>8, <2>9, <2>10, <2>11, <2>12,
             <2>13, <2>14, <2>15, <2>16, <2>17 DEF Starter, RecordStep
<1> QED BY <1>3, <1>4

NestedOf(p) ==
    /\ pc[p] \notin Taking \cup Reading \cup Writing => held[p] = {}
    /\ pc[p] \in {"open", "flock"} =>
           held[p] = (IF at[p] = "namespace" THEN {} ELSE {"namespace"})
    /\ pc[p] = "current" =>
           held[p] = (IF at[p] = "namespace" THEN {"namespace"} ELSE Levels)
    /\ pc[p] \in Reading /\ work[p] = "bare" => held[p] = {}
    /\ InSection(p) => held[p] = Levels
    /\ pc[p] \in {"flock", "current"} => fd[p][at[p]] # Absent
    /\ \A l \in held[p] : fd[p][l] # Absent

LEMMA NestingStays ==
    ASSUME TypeOK, WorkFits, Nested, NEW p \in Starters, Starter(p) \/ Die(p)
    PROVE  Nested'
<1>1. SUFFICES ASSUME NEW q \in Starters
               PROVE  NestedOf(q)'
  BY <1>1 DEF Nested, NestedOf
<1>2. NestedOf(q) /\ NestedOf(p) /\ WorkFitsOf(p)
  BY DEF Nested, NestedOf, WorkFits, WorkFitsOf
<1>3. CASE q # p
  BY <1>2, <1>3, OthersStay DEF NestedOf, InSection
<1>4. CASE q = p
<2>1. CASE Start(p)
  BY <2>1, <1>2, <1>4 DEF Start, Take, GoTo, TypeOK, NestedOf, InSection, Taking, Reading,
     Writing
<2>2. CASE Open(p)
  <3>1. OpenEffect(p)
    BY <2>2, OpenMeans
  <3> QED BY <3>1, <1>2, <1>4 DEF OpenEffect, OpensIt, MakesIt, TypeOK, NestedOf, InSection,
             Absent, Taking, Reading, Writing
<2>3. CASE Flock(p)
  BY <2>3, <1>2, <1>4 DEF Flock, GoTo, TypeOK, NestedOf, InSection, Levels, Taking, Reading,
     Writing
<2>4. CASE Current(p)
  <3>1. CurrentEffect(p)
    BY <2>4, CurrentMeans
  <3> QED BY <3>1, <1>2, <1>4 DEF CurrentEffect, NestedOf, WorkFitsOf, InSection, Taking,
             Reading, Writing
<2>5. CASE LookState(p)
  BY <2>5, <1>2, <1>4 DEF LookState, GoTo, locks, NestedOf, InSection, Reading
<2>6. CASE LookEvents(p)
  <3>1. LookEventsEffect(p)
    BY <2>6, LookEventsMeans
  <3> QED BY <3>1, <1>2, <1>4 DEF LookEventsEffect, NestedOf, InSection, Reading, Writing
<2>7. CASE LoadState(p)
  BY <2>7, <1>2, <1>4 DEF LoadState, GoTo, locks, NestedOf, InSection, Reading
<2>8. CASE LoadEvents(p)
  <3>1. LoadEventsEffect(p)
    BY <2>8, LoadEventsMeans
  <3> QED BY <3>1, <1>2, <1>4 DEF LoadEventsEffect, NestedOf, InSection, Reading, Writing
<2>9. CASE AnchorExists(p)
  BY <2>9, <1>2, <1>4 DEF AnchorExists, Take, GoTo, TypeOK, NestedOf, InSection, Taking,
     Reading, Writing
<2>10. CASE PreflightPasses(p)
  BY <2>10, <1>2, <1>4 DEF PreflightPasses, GoTo, locks, NestedOf, InSection, Taking, Reading,
     Writing
<2>11. CASE PreflightFails(p)
  BY <2>11, <1>2, <1>4 DEF PreflightFails, End, Release, GoTo, TypeOK, NestedOf, InSection,
     Reading, Writing
<2>12. CASE Own(p)
  <3>1. OwnEffect(p)
    BY <2>12, OwnMeans
  <3> QED BY <3>1, <1>2, <1>4 DEF OwnEffect, NestedOf, InSection, Taking, Reading, Writing
<2>13. CASE Append(p)
  <3>1. AppendEffect(p)
    BY <2>13, AppendMeans
  <3> QED BY <3>1, <1>2, <1>4 DEF AppendEffect, NestedOf, InSection, Reading, Writing
<2>14. CASE Install(p)
  BY <2>14, <1>2, <1>4 DEF Install, End, Release, GoTo, TypeOK, NestedOf, InSection, Reading,
     Writing
<2>15. CASE NextEvent(p)
  BY <2>15, <1>2, <1>4 DEF NextEvent, Take, GoTo, TypeOK, NestedOf, InSection, Taking, Reading,
     Writing
<2>16. CASE Die(p)
  BY <2>16, <1>2, <1>4 DEF Die, Release, GoTo, TypeOK, NestedOf, InSection, Reading, Writing
<2>17. CASE RecordStep(p)
  <3>1. RecordEffect(p)
    BY <2>17, RecordStepMeans
  <3> QED BY <3>1, <1>2, <1>4 DEF RecordEffect, NestedOf, InSection, Reading, Writing, Pausing,
             Taking
  <2> QED BY <1>4, <2>1, <2>2, <2>3, <2>4, <2>5, <2>6, <2>7, <2>8, <2>9, <2>10, <2>11, <2>12,
             <2>13, <2>14, <2>15, <2>16, <2>17 DEF Starter, RecordStep
<1> QED BY <1>3, <1>4

OwnerWritesOf(p) ==
    /\ Exclusive(p) /\ Active(p) => owner = p
    /\ work[p] = "later" /\ pc[p] \in Taking \cup Pausing \cup {"append"} => events < LastEvent

LEMMA OwnerStays ==
    ASSUME TypeOK, WorkFits, OwnerWrites, NEW p \in Starters, Starter(p) \/ Die(p)
    PROVE  OwnerWrites'
<1>1. SUFFICES ASSUME NEW q \in Starters
               PROVE  OwnerWritesOf(q)'
  BY <1>1 DEF OwnerWrites, OwnerWritesOf
<1>2. OwnerWritesOf(q) /\ OwnerWritesOf(p) /\ WorkFitsOf(p)
  BY DEF OwnerWrites, OwnerWritesOf, WorkFits, WorkFitsOf
<1>3. CASE q # p
  <2> DEFINE Mine == Exclusive(q) /\ Active(q)
             Writer == work[q] = "later" /\ pc[q] \in Taking \cup Pausing \cup {"append"}
  <2>a. (Mine' <=> Mine) /\ (Writer' <=> Writer)
    BY <1>3, OthersStay DEF Exclusive, Active
  <2>b. Writer => Mine
    BY DEF Exclusive, Active, Taking, Pausing
  <2>c. /\ Mine => owner = q
        /\ Writer => events < LastEvent
    BY <1>2 DEF OwnerWritesOf
  <2>d. SUFFICES ASSUME Mine
                 PROVE  owner' = q /\ events' = events
    BY <2>a, <2>b, <2>c, <2>d DEF OwnerWritesOf
  <2>e. owner = q /\ owner # p /\ owner # Nobody
    BY <2>c, <2>d, <1>3, StartAssumption
  <2> HIDE DEF Mine, Writer
<2>1. CASE Start(p)
  BY <2>1, <1>2, <2>e DEF Start, files
<2>2. CASE Open(p)
  <3>1. OpenEffect(p)
    BY <2>2, OpenMeans
  <3> QED BY <3>1, <1>2, <2>e DEF OpenEffect
<2>3. CASE Flock(p)
  BY <2>3, <1>2, <2>e DEF Flock, files
<2>4. CASE Current(p)
  <3>1. CurrentEffect(p)
    BY <2>4, CurrentMeans
  <3> QED BY <3>1, <1>2, <2>e DEF CurrentEffect
<2>5. CASE LookState(p)
  BY <2>5, <1>2, <2>e DEF LookState, files
<2>6. CASE LookEvents(p)
  <3>1. LookEventsEffect(p)
    BY <2>6, LookEventsMeans
  <3> QED BY <3>1, <1>2, <2>e DEF LookEventsEffect
<2>7. CASE LoadState(p)
  BY <2>7, <1>2, <2>e DEF LoadState, files
<2>8. CASE LoadEvents(p)
  <3>1. LoadEventsEffect(p)
    BY <2>8, LoadEventsMeans
  <3> QED BY <3>1, <1>2, <2>e DEF LoadEventsEffect, Pausing
<2>9. CASE AnchorExists(p)
  BY <2>9, <1>2, <2>e DEF AnchorExists, files
<2>10. CASE PreflightPasses(p)
  BY <2>10, <1>2, <2>e DEF PreflightPasses, files
<2>11. CASE PreflightFails(p)
  BY <2>11, <1>2, <2>e DEF PreflightFails, End, files
<2>12. CASE Own(p)
  <3>1. OwnEffect(p)
    BY <2>12, OwnMeans
  <3> QED BY <3>1, <1>2, <2>e DEF OwnEffect
<2>13. CASE Append(p)
  <3>1. AppendEffect(p)
    BY <2>13, AppendMeans
  <3> QED BY <3>1, <1>2, <2>e DEF AppendEffect, OwnerWritesOf, WorkFitsOf, Active, Writing
<2>14. CASE Install(p)
  BY <2>14, <1>2, <2>e DEF Install, End
<2>15. CASE NextEvent(p)
  BY <2>15, <1>2, <2>e DEF NextEvent, files
<2>16. CASE Die(p)
  BY <2>16, <1>2, <2>e DEF Die, files
<2>17. CASE RecordStep(p)
  <3>1. RecordEffect(p)
    BY <2>17, RecordStepMeans
  <3> QED BY <3>1, <1>2, <2>e DEF RecordEffect, Pausing, Exclusive, Taking, Active
  <2> QED BY <2>1, <2>2, <2>3, <2>4, <2>5, <2>6, <2>7, <2>8, <2>9, <2>10, <2>11, <2>12, <2>13,
             <2>14, <2>15, <2>16, <2>17 DEF Starter, RecordStep
<1>4. CASE q = p
<2>1. CASE Start(p)
  BY <2>1, <1>2, <1>4 DEF Start, Take, TypeOK, OwnerWritesOf, Exclusive
<2>2. CASE Open(p)
  <3>1. OpenEffect(p)
    BY <2>2, OpenMeans
  <3> QED BY <3>1, <1>2, <1>4 DEF OpenEffect, OwnerWritesOf, Exclusive, Active, Taking
<2>3. CASE Flock(p)
  BY <2>3, <1>2, <1>4 DEF Flock, files, OwnerWritesOf, Exclusive, Active, Taking
<2>4. CASE Current(p)
  <3>1. CurrentEffect(p)
    BY <2>4, CurrentMeans
  <3> QED BY <3>1, <1>2, <1>4 DEF CurrentEffect, OwnerWritesOf, Exclusive, Active, Taking
<2>5. CASE LookState(p)
  BY <2>5, <1>2, <1>4 DEF LookState, GoTo, OwnerWritesOf, Exclusive, Active, Taking, Pausing
<2>6. CASE LookEvents(p)
  <3>1. LookEventsEffect(p)
    BY <2>6, LookEventsMeans
  <3> QED BY <3>1, <1>2, <1>4 DEF LookEventsEffect, OwnerWritesOf, WorkFitsOf, Exclusive,
             Active, Reading
<2>7. CASE LoadState(p)
  BY <2>7, <1>2, <1>4 DEF LoadState, GoTo, OwnerWritesOf, Exclusive, Active, Taking, Pausing
<2>8. CASE LoadEvents(p)
  <3>1. LoadEventsEffect(p)
    BY <2>8, LoadEventsMeans
  <3> QED BY <3>1, <1>2, <1>4 DEF LoadEventsEffect, OwnerWritesOf, Active, Taking, Pausing, Exclusive
<2>9. CASE AnchorExists(p)
  BY <2>9, <1>2, <1>4 DEF AnchorExists, Take, TypeOK, OwnerWritesOf, WorkFitsOf, Exclusive
<2>10. CASE PreflightPasses(p)
  BY <2>10, <1>2, <1>4 DEF PreflightPasses, OwnerWritesOf, WorkFitsOf, Exclusive
<2>11. CASE PreflightFails(p)
  BY <2>11, <1>2, <1>4 DEF PreflightFails, End, GoTo, TypeOK, OwnerWritesOf, WorkFitsOf,
     Exclusive, Active
<2>12. CASE Own(p)
  <3>1. OwnEffect(p)
    BY <2>12, OwnMeans
  <3> QED BY <3>1, <1>2, <1>4 DEF OwnEffect, OwnerWritesOf, WorkFitsOf, Exclusive
<2>13. CASE Append(p)
  <3>1. AppendEffect(p)
    BY <2>13, AppendMeans
  <3> QED BY <3>1, <1>2, <1>4 DEF AppendEffect, OwnerWritesOf, Exclusive, Active, Taking,
             Pausing
<2>14. CASE Install(p)
  BY <2>14, <1>2, <1>4 DEF Install, End, GoTo, TypeOK, OwnerWritesOf, WorkFitsOf, Active,
     Taking, Writing, Pausing
<2>15. CASE NextEvent(p)
  BY <2>15, <1>2, <1>4 DEF NextEvent, files, OwnerWritesOf, WorkFitsOf, Exclusive, Active,
     Pausing
<2>16. CASE Die(p)
  BY <2>16, <1>2, <1>4 DEF Die, GoTo, TypeOK, OwnerWritesOf, Active, Taking, Pausing
<2>17. CASE RecordStep(p)
  <3>1. RecordEffect(p)
    BY <2>17, RecordStepMeans
  <3> QED BY <3>1, <1>2, <1>4 DEF RecordEffect, OwnerWritesOf, Active, Taking, Pausing,
             Exclusive
  <2> QED BY <1>4, <2>1, <2>2, <2>3, <2>4, <2>5, <2>6, <2>7, <2>8, <2>9, <2>10, <2>11, <2>12,
             <2>13, <2>14, <2>15, <2>16, <2>17 DEF Starter, RecordStep
<1> QED BY <1>3, <1>4

\* Between two processes, one of which takes the lock to write.
Apart(p, q, l) == l \in held[p] /\ l \in held[q] => fd[p][l] # fd[q][l]

\* A step that is no grant leaves a lock that is held, its directory and what
\* it is held for as they are.
LEMMA HeldIsFixed ==
    ASSUME TypeOK, WorkFits, Nested, NEW p \in Starters, Starter(p) \/ Die(p),
           NEW l \in Levels, l \in held'[p]
    PROVE  /\ fd'[p][l] = fd[p][l]
           /\ Exclusive(p)' <=> Exclusive(p)
           /\ l \in held[p] \/ (Flock(p) /\ l = at[p])
<1>1. NestedOf(p) /\ WorkFitsOf(p)
  BY DEF Nested, NestedOf, WorkFits, WorkFitsOf
<1>2. CASE Start(p)
  BY <1>2, <1>1 DEF Start, Take, WorkFitsOf, Exclusive
<1>3. CASE Open(p)
  <2>1. OpenEffect(p)
    BY <1>3, OpenMeans
  <2> QED BY <2>1, <1>1 DEF OpenEffect, NestedOf, Exclusive
<1>4. CASE Flock(p)
  BY <1>4, <1>1 DEF Flock, Exclusive
<1>5. CASE Current(p)
  <2>1. CurrentEffect(p)
    BY <1>5, CurrentMeans
  <2> QED BY <2>1, <1>1 DEF CurrentEffect, Exclusive
<1>6. CASE LookState(p)
  BY <1>6, <1>1 DEF LookState, locks, Exclusive
<1>7. CASE LookEvents(p)
  <2>1. LookEventsEffect(p)
    BY <1>7, LookEventsMeans
  <2> QED BY <2>1, <1>1 DEF LookEventsEffect, Exclusive
<1>8. CASE LoadState(p)
  BY <1>8, <1>1 DEF LoadState, locks, Exclusive
<1>9. CASE LoadEvents(p)
  <2>1. LoadEventsEffect(p)
    BY <1>9, LoadEventsMeans
  <2> QED BY <2>1, <1>1 DEF LoadEventsEffect, Exclusive
<1>10. CASE AnchorExists(p)
  BY <1>10, <1>1 DEF AnchorExists, Take, TypeOK, WorkFitsOf, Exclusive
<1>11. CASE PreflightPasses(p)
  BY <1>11, <1>1 DEF PreflightPasses, locks, Exclusive
<1>12. CASE PreflightFails(p)
  BY <1>12, <1>1 DEF PreflightFails, End, Release, TypeOK
<1>13. CASE Own(p)
  <2>1. OwnEffect(p)
    BY <1>13, OwnMeans
  <2> QED BY <2>1, <1>1 DEF OwnEffect, NestedOf, WorkFitsOf, Taking, Reading
<1>14. CASE Append(p)
  <2>1. AppendEffect(p)
    BY <1>14, AppendMeans
  <2> QED BY <2>1, <1>1 DEF AppendEffect, Exclusive
<1>15. CASE Install(p)
  BY <1>15, <1>1 DEF Install, End, Release, TypeOK
<1>16. CASE NextEvent(p)
  BY <1>16, <1>1 DEF NextEvent, Take, WorkFitsOf, Exclusive, Pausing
<1>17. CASE Die(p)
  BY <1>17, <1>1 DEF Die, Release, TypeOK
<1>18. CASE RecordStep(p)
  <2>1. RecordEffect(p)
    BY <1>18, RecordStepMeans
  <2> QED BY <2>1, <1>1 DEF RecordEffect, Exclusive
<1> QED BY <1>2, <1>3, <1>4, <1>5, <1>6, <1>7, <1>8, <1>9, <1>10, <1>11, <1>12, <1>13, <1>14,
           <1>15, <1>16, <1>17, <1>18 DEF Starter, RecordStep

LEMMA ExclusionStays ==
    ASSUME TypeOK, WorkFits, Nested, FlockExcludes,
           NEW p \in Starters, Starter(p) \/ Die(p)
    PROVE  FlockExcludes'
<1>1. \A q \in Starters : \A l \in Levels :
        q # p /\ l \in held'[p] /\ l \in held'[q] /\ (Exclusive(p)' \/ Exclusive(q)')
        => fd'[p][l] # fd'[q][l]
  <2>1. SUFFICES ASSUME NEW q \in Starters, NEW l \in Levels, q # p,
                        l \in held'[p], l \in held'[q], Exclusive(p)' \/ Exclusive(q)'
                 PROVE  fd'[p][l] # fd'[q][l]
    OBVIOUS
  <2>2. held'[q] = held[q] /\ fd'[q] = fd[q] /\ (Exclusive(q)' <=> Exclusive(q))
    BY <2>1, OthersStay DEF Exclusive
  <2>3. /\ fd'[p][l] = fd[p][l]
        /\ Exclusive(p)' <=> Exclusive(p)
        /\ l \in held[p] \/ (Flock(p) /\ l = at[p])
    BY <2>1, HeldIsFixed
  <2>4. CASE l \in held[p]
    BY <2>1, <2>2, <2>3, <2>4 DEF FlockExcludes
  <2>5. CASE Flock(p) /\ l = at[p]
    BY <2>1, <2>2, <2>3, <2>5 DEF Flock, Conflict
  <2> QED BY <2>3, <2>4, <2>5
<1>2. \A q, r \in Starters : \A l \in Levels :
        q # p /\ r # p /\ q # r /\ l \in held'[q] /\ l \in held'[r]
        /\ (Exclusive(q)' \/ Exclusive(r)') => fd'[q][l] # fd'[r][l]
  <2>1. \A q \in Starters : q # p =>
          held'[q] = held[q] /\ fd'[q] = fd[q] /\ (Exclusive(q)' <=> Exclusive(q))
    BY OthersStay DEF Exclusive
  <2> QED BY <2>1 DEF FlockExcludes
<1> QED BY <1>1, <1>2 DEF FlockExcludes

LEMMA OneInodeStays ==
    ASSUME TypeOK, OneInode, NEW p \in Starters, Starter(p) \/ Die(p)
    PROVE  OneInode'
<1>1. \A l \in Levels : Same(l) => Same(l)'
  <2>1. SUFFICES ASSUME NEW l \in Levels, Same(l), NEW q \in Starters
                 PROVE  fd'[q][l] \in {Absent, path'[l]}
    BY DEF Same
  <2>2. fd[q][l] \in {Absent, path[l]} /\ fd[p][l] \in {Absent, path[l]}
    BY <2>1 DEF Same
  <2>3. CASE Open(p)
    <3>1. CASE l = at[p] /\ path[l] = Absent /\ Exclusive(p)
      <4>1. q # p => fd'[q] = fd[q]
        BY OthersStay
      <4>2. fd'[p][l] = fresh /\ path'[l] = fresh /\ fd[q][l] \in {Absent, path[l]}
        BY <2>2, <2>3, <3>1, OpenMeans DEF OpenEffect, OpensIt, MakesIt
      <4> QED BY <3>1, <4>1, <4>2
    <3>2. CASE l = at[p] /\ path[l] # Absent
      <4>1. path' = path /\ fd' = [fd EXCEPT ![p][l] = path[l]]
        BY <2>3, <3>2 DEF Open
      <4> QED BY <2>2, <4>1 DEF TypeOK
    <3>3. CASE l # at[p] \/ (path[l] = Absent /\ ~Exclusive(p))
      <4>1. OpenEffect(p) /\ (q # p => fd'[q] = fd[q])
        BY <2>3, OpenMeans, OthersStay
      <4>2. fd'[q][l] = fd[q][l] /\ path'[l] = path[l]
        BY <3>3, <4>1 DEF OpenEffect, OpensIt, MakesIt
      <4> QED BY <2>2, <4>2
    <3> QED BY <3>1, <3>2, <3>3
  <2>4. CASE ~Open(p)
    <3>1. UNCHANGED <<path, fd>>
<4>1. CASE Start(p)
  BY <4>1 DEF Start
<4>2. CASE Flock(p)
  BY <4>2 DEF Flock
<4>3. CASE Current(p)
  BY <4>3 DEF Current, End, Release, locks
<4>4. CASE LookState(p)
  BY <4>4 DEF LookState, locks
<4>5. CASE LookEvents(p)
  BY <4>5 DEF LookEvents, NoRunFound, End, Release, locks
<4>6. CASE LoadState(p)
  BY <4>6 DEF LoadState, locks
<4>7. CASE LoadEvents(p)
  <5>1. LoadEventsEffect(p)
    BY <4>7, LoadEventsMeans
  <5> QED BY <5>1 DEF LoadEventsEffect
<4>8. CASE AnchorExists(p)
  BY <4>8 DEF AnchorExists
<4>9. CASE PreflightPasses(p)
  BY <4>9 DEF PreflightPasses, locks
<4>10. CASE PreflightFails(p)
  BY <4>10 DEF PreflightFails, End, Release
<4>11. CASE Own(p)
  BY <4>11 DEF Own, End, Release
<4>12. CASE Append(p)
  BY <4>12 DEF Append, End, Release, locks
<4>13. CASE Install(p)
  BY <4>13 DEF Install, End, Release
<4>14. CASE NextEvent(p)
  BY <4>14 DEF NextEvent
<4>15. CASE Die(p)
  BY <4>15 DEF Die, Release
<4>16. CASE RecordStep(p)
  <5>1. RecordEffect(p)
    BY <4>16, RecordStepMeans
  <5> QED BY <5>1 DEF RecordEffect
      <4> QED BY <2>4, <4>1, <4>2, <4>3, <4>4, <4>5, <4>6, <4>7, <4>8, <4>9, <4>10, <4>11,
                 <4>12, <4>13, <4>14, <4>15, <4>16 DEF Starter, RecordStep
    <3> QED BY <2>2, <3>1
  <2> QED BY <2>3, <2>4
<1>2. removals' = removals
<2>1. CASE Start(p)
  BY <2>1 DEF Start, faults
<2>2. CASE Open(p)
  BY <2>2 DEF Open, faults
<2>3. CASE Flock(p)
  BY <2>3 DEF Flock, faults
<2>4. CASE Current(p)
  BY <2>4 DEF Current, faults
<2>5. CASE LookState(p)
  BY <2>5 DEF LookState, faults
<2>6. CASE LookEvents(p)
  BY <2>6 DEF LookEvents, faults
<2>7. CASE LoadState(p)
  BY <2>7 DEF LoadState, faults
<2>8. CASE LoadEvents(p)
  <3>1. LoadEventsEffect(p)
    BY <2>8, LoadEventsMeans
  <3> QED BY <3>1 DEF LoadEventsEffect
<2>9. CASE AnchorExists(p)
  BY <2>9 DEF AnchorExists, faults
<2>10. CASE PreflightPasses(p)
  BY <2>10 DEF PreflightPasses, faults
<2>11. CASE PreflightFails(p)
  BY <2>11 DEF PreflightFails, faults
<2>12. CASE Own(p)
  BY <2>12 DEF Own, faults
<2>13. CASE Append(p)
  BY <2>13 DEF Append, faults
<2>14. CASE Install(p)
  BY <2>14 DEF Install, faults
<2>15. CASE NextEvent(p)
  BY <2>15 DEF NextEvent, faults
<2>16. CASE Die(p)
  BY <2>16 DEF Die
<2>17. CASE RecordStep(p)
  <3>1. RecordEffect(p)
    BY <2>17, RecordStepMeans
  <3> QED BY <3>1 DEF RecordEffect
  <2> QED BY <2>1, <2>2, <2>3, <2>4, <2>5, <2>6, <2>7, <2>8, <2>9, <2>10, <2>11, <2>12, <2>13,
             <2>14, <2>15, <2>16, <2>17 DEF Starter, RecordStep
<1> QED BY <1>1, <1>2 DEF OneInode

\* One removal leaves one level alone.
LEMMA RemoveLeavesOne ==
    ASSUME TypeOK, OneInode, NEW l \in Levels, Remove(l)
    PROVE  OneInode'
<1>1. /\ removals \in Nat
      /\ removals' = removals + 1
      /\ fd' = fd
      /\ path' = [path EXCEPT ![l] = Absent]
  BY DEF Remove, TypeOK
<1>2. CASE removals = 0
  <2>1. PICK k \in Levels : k # l
    BY DEF Levels
  <2>2. Same(k)
    BY <1>2 DEF OneInode
  <2>3. path'[k] = path[k]
    BY <1>1, <2>1 DEF TypeOK
  <2>4. Same(k)'
    BY <1>1, <2>2, <2>3 DEF Same
  <2> QED BY <1>1, <1>2, <2>4 DEF OneInode
<1>3. CASE removals # 0
  BY <1>1, <1>3 DEF OneInode
<1> QED BY <1>2, <1>3

\* Two starters are not inside the lock together when one of them writes.
LEMMA Excluded ==
    ASSUME TypeOK, Nested, FlockExcludes, OneInode, removals <= 1,
           NEW p \in Starters, NEW q \in Starters, p # q,
           InSection(p), InSection(q)
    PROVE  ~Exclusive(p) /\ ~Exclusive(q)
<1>1. PICK l \in Levels : Same(l)
  BY DEF OneInode
<1>2. l \in held[p] /\ l \in held[q]
  BY DEF Nested
<1>3. fd[p][l] # Absent /\ fd[q][l] # Absent
  BY <1>2 DEF Nested
<1>4. fd[p][l] = path[l] /\ fd[q][l] = path[l]
  BY <1>1, <1>3 DEF Same
<1> QED BY <1>2, <1>4 DEF FlockExcludes

-----------------------------------------------------------------------------
(* What is seen under the lock *)

\* The steps that write, and only one goes to "install".
LEMMA OnlyTwoWrite ==
    ASSUME TypeOK, NEW p \in Starters, Starter(p) \/ Die(p)
    PROVE  /\ removals' = removals
           /\ Append(p) \/ Install(p) \/ (events' = events /\ state' = state)
           /\ pc'[p] = "install" => Append(p)
<1>1. CASE Start(p)
  BY <1>1 DEF Start, Take, GoTo, files, faults
<1>2. CASE Open(p)
  BY <1>2 DEF Open, GoTo, files, faults, TypeOK
<1>3. CASE Flock(p)
  BY <1>3 DEF Flock, GoTo, files, faults
<1>4. CASE Current(p)
  BY <1>4 DEF Current, End, GoTo, files, faults, TypeOK
<1>5. CASE LookState(p)
  BY <1>5 DEF LookState, GoTo, files, faults
<1>6. CASE LookEvents(p)
  BY <1>6 DEF LookEvents, NoRunFound, End, GoTo, files, faults, TypeOK
<1>7. CASE LoadState(p)
  BY <1>7 DEF LoadState, GoTo, files, faults
<1>8. CASE LoadEvents(p)
  <2>1. LoadEventsEffect(p)
    BY <1>8, LoadEventsMeans
  <2> QED BY <2>1 DEF LoadEventsEffect
<1>9. CASE AnchorExists(p)
  BY <1>9 DEF AnchorExists, Take, GoTo, files, faults, TypeOK
<1>10. CASE PreflightPasses(p)
  BY <1>10 DEF PreflightPasses, GoTo, files, faults
<1>11. CASE PreflightFails(p)
  BY <1>11 DEF PreflightFails, End, GoTo, files, faults
<1>12. CASE Own(p)
  BY <1>12 DEF Own, Take, End, GoTo, files, faults, TypeOK
<1>13. CASE Append(p)
  BY <1>13 DEF Append, faults
<1>14. CASE Install(p)
  BY <1>14 DEF Install, End, GoTo, faults, TypeOK
<1>15. CASE NextEvent(p)
  BY <1>15 DEF NextEvent, Take, GoTo, files, faults
<1>16. CASE Die(p)
  BY <1>16 DEF Die, GoTo, files, TypeOK
<1>17. CASE RecordStep(p)
  <2>1. RecordEffect(p)
    BY <1>17, RecordStepMeans
  <2> QED BY <2>1 DEF RecordEffect, Pausing
<1> QED BY <1>1, <1>2, <1>3, <1>4, <1>5, <1>6, <1>7, <1>8, <1>9, <1>10, <1>11, <1>12, <1>13,
           <1>14, <1>15, <1>16, <1>17 DEF Starter, RecordStep

LEMMA WritersAreInside ==
    ASSUME TypeOK, WorkFits, NEW p \in Starters, pc[p] \in Writing
    PROVE  InSection(p) /\ Exclusive(p)
BY DEF WorkFits, InSection, Exclusive

\* Whoever is inside, and not itself installing, finds nobody installing.
LEMMA NobodyInstalls ==
    ASSUME TypeOK, WorkFits, Nested, FlockExcludes, OneInode, removals <= 1,
           NEW p \in Starters, InSection(p), pc[p] # "install"
    PROVE  \A r \in Starters : pc[r] # "install"
<1>1. SUFFICES ASSUME NEW r \in Starters, pc[r] = "install"
               PROVE  FALSE
  OBVIOUS
<1>2. InSection(r) /\ Exclusive(r)
  BY <1>1, WritersAreInside DEF Writing
<1>3. r # p
  BY <1>1
<1> QED BY <1>2, <1>3, Excluded

SightOf(p) ==
    /\ InSection(p) /\ pc[p] \in {"lookEvents", "loadEvents"} => saw[p].state = state
    /\ pc[p] = "append" /\ work[p] = "initial" => events = 0 /\ state = 0

LEMMA SightStays ==
    ASSUME TypeOK, WorkFits, Nested, FlockExcludes, OneInode, SightHolds,
           NEW p \in Starters, Starter(p) \/ Die(p)
    PROVE  SightHolds'
<1>1. SUFFICES ASSUME removals <= 1, NEW q \in Starters
               PROVE  SightOf(q)'
  BY <1>1, OnlyTwoWrite DEF SightHolds, SightOf
<1>2. SightOf(q)
  BY <1>1 DEF SightHolds, SightOf
<1>3. CASE q # p
  <2>1. /\ InSection(q)' <=> InSection(q)
        /\ pc'[q] = pc[q] /\ work'[q] = work[q] /\ saw'[q] = saw[q]
    BY <1>3, OthersStay DEF InSection
  <2>2. CASE events' = events /\ state' = state
    BY <1>2, <2>1, <2>2 DEF SightOf
  <2>3. CASE Append(p) \/ Install(p)
    <3>1. pc[p] \in Writing
      BY <2>3 DEF Append, Install, Writing
    <3>2. InSection(p) /\ Exclusive(p)
      BY <3>1, WritersAreInside
    <3>3. ~InSection(q)
      BY <1>1, <1>3, <3>2, Excluded
    <3>4. ~(pc[q] = "append" /\ work[q] = "initial")
      BY <3>3 DEF InSection, Writing
    <3> QED BY <2>1, <3>3, <3>4 DEF SightOf
  <2> QED BY <2>2, <2>3, OnlyTwoWrite
<1>4. CASE q = p
  <2>a. pc[q] = "lookEvents" /\ work[q] = "initial" => saw[q].state = state
    BY <1>2 DEF SightOf, InSection, Reading
<2>1. CASE Start(p)
  BY <2>1, <1>2, <1>4, <2>a DEF Start, Take, GoTo, SightOf
<2>2. CASE Open(p)
  <3>1. OpenEffect(p)
    BY <2>2, OpenMeans
  <3> QED BY <3>1, <1>2, <1>4, <2>a DEF OpenEffect, SightOf
<2>3. CASE Flock(p)
  BY <2>3, <1>2, <1>4, <2>a DEF Flock, GoTo, SightOf
<2>4. CASE Current(p)
  <3>1. CurrentEffect(p)
    BY <2>4, CurrentMeans
  <3> QED BY <3>1, <1>2, <1>4, <2>a DEF CurrentEffect, SightOf
<2>5. CASE LookState(p)
  BY <2>5, <1>2, <1>4, <2>a DEF LookState, GoTo, files, TypeOK, SightOf
<2>6. CASE LookEvents(p)
  <3>1. LookEventsEffect(p)
    BY <2>6, LookEventsMeans
  <3> QED BY <3>1, <1>2, <1>4, <2>a DEF LookEventsEffect, SightOf
<2>7. CASE LoadState(p)
  BY <2>7, <1>2, <1>4, <2>a DEF LoadState, GoTo, files, TypeOK, SightOf
<2>8. CASE LoadEvents(p)
  <3>1. LoadEventsEffect(p)
    BY <2>8, LoadEventsMeans
  <3> QED BY <3>1, <1>2, <1>4, <2>a DEF LoadEventsEffect, SightOf
<2>9. CASE AnchorExists(p)
  BY <2>9, <1>2, <1>4, <2>a DEF AnchorExists, Take, GoTo, TypeOK, SightOf
<2>10. CASE PreflightPasses(p)
  BY <2>10, <1>2, <1>4, <2>a DEF PreflightPasses, GoTo, SightOf
<2>11. CASE PreflightFails(p)
  BY <2>11, <1>2, <1>4, <2>a DEF PreflightFails, End, GoTo, files, SightOf
<2>12. CASE Own(p)
  <3>1. OwnEffect(p)
    BY <2>12, OwnMeans
  <3> QED BY <3>1, <1>2, <1>4, <2>a DEF OwnEffect, SightOf
<2>13. CASE Append(p)
  <3>1. AppendEffect(p)
    BY <2>13, AppendMeans
  <3> QED BY <3>1, <1>2, <1>4, <2>a DEF AppendEffect, SightOf
<2>14. CASE Install(p)
  BY <2>14, <1>2, <1>4, <2>a DEF Install, End, GoTo, TypeOK, SightOf
<2>15. CASE NextEvent(p)
  BY <2>15, <1>2, <1>4, <2>a DEF NextEvent, Take, GoTo, SightOf
<2>16. CASE Die(p)
  BY <2>16, <1>2, <1>4, <2>a DEF Die, GoTo, TypeOK, SightOf
<2>17. CASE RecordStep(p)
  <3>1. RecordEffect(p)
    BY <2>17, RecordStepMeans
  <3> QED BY <3>1, <1>2, <1>4, <2>a DEF RecordEffect, SightOf, Pausing
  <2> QED BY <1>4, <2>1, <2>2, <2>3, <2>4, <2>5, <2>6, <2>7, <2>8, <2>9, <2>10, <2>11, <2>12,
             <2>13, <2>14, <2>15, <2>16, <2>17 DEF Starter, RecordStep
<1> QED BY <1>3, <1>4

LEMMA UnequalStays ==
    ASSUME TypeOK, UnequalIsWritten, NEW p \in Starters, Starter(p) \/ Die(p)
    PROVE  UnequalIsWritten'
<1>1. SUFFICES ASSUME deaths' = 0, events' # state'
               PROVE  \E r \in Starters : pc'[r] = "install"
  BY DEF UnequalIsWritten
<1>2. CASE Append(p)
  <2>1. AppendEffect(p)
    BY <1>2, AppendMeans
  <2>2. CASE pc'[p] = "install"
    BY <2>2
  <2>3. CASE pc'[p] # "install"
    <3>1. events' = events /\ state' = state /\ deaths' = deaths /\ pc[p] = "append"
      BY <2>1, <2>3 DEF AppendEffect
    <3>2. PICK r \in Starters : pc[r] = "install"
      BY <1>1, <3>1 DEF UnequalIsWritten
    <3>3. pc'[r] = pc[r]
      BY <3>1, <3>2, OthersStay
    <3> QED BY <3>2, <3>3
  <2> QED BY <2>2, <2>3
<1>3. CASE Install(p)
  BY <1>1, <1>3 DEF Install
<1>4. CASE ~Append(p) /\ ~Install(p)
  <2>1. events' = events /\ state' = state
    BY <1>4, OnlyTwoWrite
  <2>2. pc[p] # "install" /\ deaths' = deaths
    <3>1. ~Die(p)
      BY <1>1 DEF Die, TypeOK
    <3> QED BY <1>4, <3>1 DEF Starter, Start, Open, Flock, Current, LookState, LookEvents,
               LoadState, LoadEvents, LoadRecords, AnchorExists, PreflightPasses,
               PreflightFails, Own, BeginRecords, SettleRecords,
               NextEvent, faults
  <2>3. PICK r \in Starters : pc[r] = "install"
    BY <1>1, <2>1, <2>2 DEF UnequalIsWritten
  <2>4. pc'[r] = pc[r]
    BY <2>2, <2>3, OthersStay
  <2> QED BY <2>3, <2>4
<1> QED BY <1>2, <1>3, <1>4

LEMMA PathStays ==
    ASSUME TypeOK, NEW p \in Starters, Starter(p) \/ Die(p), NEW l \in Levels,
           path[l] # Absent
    PROVE  path'[l] = path[l]
<1>1. CASE Start(p)
  BY <1>1 DEF Start
<1>2. CASE Flock(p)
  BY <1>2 DEF Flock
<1>3. CASE Current(p)
  BY <1>3 DEF Current, End, Release, locks
<1>4. CASE LookState(p)
  BY <1>4 DEF LookState, locks
<1>5. CASE LookEvents(p)
  BY <1>5 DEF LookEvents, NoRunFound, End, Release, locks
<1>6. CASE LoadState(p)
  BY <1>6 DEF LoadState, locks
<1>7. CASE LoadEvents(p)
  <2>1. LoadEventsEffect(p)
    BY <1>7, LoadEventsMeans
  <2> QED BY <2>1 DEF LoadEventsEffect
<1>8. CASE AnchorExists(p)
  BY <1>8 DEF AnchorExists
<1>9. CASE PreflightPasses(p)
  BY <1>9 DEF PreflightPasses, locks
<1>10. CASE PreflightFails(p)
  BY <1>10 DEF PreflightFails, End, Release
<1>11. CASE Own(p)
  BY <1>11 DEF Own, End, Release
<1>12. CASE Append(p)
  BY <1>12 DEF Append, End, Release, locks
<1>13. CASE Install(p)
  BY <1>13 DEF Install, End, Release
<1>14. CASE NextEvent(p)
  BY <1>14 DEF NextEvent
<1>15. CASE Die(p)
  BY <1>15 DEF Die, Release
<1>16. CASE Open(p)
  <2>1. OpenEffect(p)
    BY <1>16, OpenMeans
  <2> QED BY <2>1 DEF OpenEffect, OpensIt, MakesIt
<1>17. CASE RecordStep(p)
  <2>1. RecordEffect(p)
    BY <1>17, RecordStepMeans
  <2> QED BY <2>1 DEF RecordEffect
<1> QED BY <1>1, <1>2, <1>3, <1>4, <1>5, <1>6, <1>7, <1>8, <1>9, <1>10, <1>11, <1>12, <1>13,
           <1>14, <1>15, <1>16, <1>17 DEF Starter, RecordStep

LEMMA AnchorsAreKept ==
    ASSUME TypeOK, WorkFits, Nested, OneInode, AnchorsStay,
           NEW p \in Starters, Starter(p) \/ Die(p)
    PROVE  AnchorsStay'
<1>1. SUFFICES ASSUME removals = 0, events' > 0, NEW l \in Levels
               PROVE  path'[l] # Absent
  BY <1>1, OnlyTwoWrite DEF AnchorsStay
<1>2. path[l] # Absent
  <2>1. CASE events > 0
    BY <1>1, <2>1 DEF AnchorsStay
  <2>2. CASE ~(events > 0)
    <3>1. Append(p)
      BY <1>1, <2>2, OnlyTwoWrite DEF Install
    <3>2. InSection(p)
      BY <3>1, WritersAreInside DEF Append, Writing
    <3>3. fd[p][l] # Absent
      BY <3>2 DEF Nested
    <3> QED BY <1>1, <3>3 DEF OneInode, Same
  <2> QED BY <2>1, <2>2
<1> QED BY <1>2, PathStays

-----------------------------------------------------------------------------
(* What a starter is told *)

LateOf(p) ==
    late[p] =>
        /\ events > 0
        /\ work[p] = "check"
        /\ pc[p] \in Taking \cup Reading \cup {"ended"}
        /\ pc[p] = "ended" => ToldOfIt(p)

LEMMA LateStays ==
    ASSUME TypeOK, WorkFits, Nested, FlockExcludes, OneInode, SightHolds,
           UnequalIsWritten, AnchorsStay, LateWaits,
           NEW p \in Starters, Starter(p) \/ Die(p)
    PROVE  LateWaits'
<1>1. SUFFICES ASSUME removals = 0, deaths' = 0, NEW q \in Starters
               PROVE  LateOf(q)'
  BY <1>1, OnlyTwoWrite DEF LateWaits, LateOf
<1>2. ~Die(p) /\ deaths = 0
  <2>1. ~Die(p)
    BY <1>1 DEF Die, TypeOK
  <2>2. deaths' = deaths
    BY <2>1 DEF Starter, Start, Open, Flock, Current, LookState, LookEvents, LoadState,
            LoadEvents, LoadRecords, BeginRecords, SettleRecords, AnchorExists,
            PreflightPasses, PreflightFails, Own, Append, Install,
            NextEvent, faults
  <2> QED BY <1>1, <2>1, <2>2
<1>3. LateOf(q)
  BY <1>1, <1>2 DEF LateWaits, LateOf
<1>4. events > 0 => events' > 0
  <2>1. CASE Append(p)
    BY <2>1, AppendMeans DEF AppendEffect, TypeOK
  <2>2. CASE Install(p)
    BY <2>2 DEF Install
  <2> QED BY <2>1, <2>2, OnlyTwoWrite
<1>5. CASE q # p
  BY <1>3, <1>4, <1>5, OthersStay DEF LateOf, ToldOfIt
<1>6. CASE q = p /\ Start(p)
  BY <1>6 DEF Start, Take, GoTo, files, LateOf, TypeOK, Taking
<1>7. CASE q = p /\ ~Start(p) /\ late[p]
  <2>1. /\ events > 0
        /\ work[p] = "check"
        /\ pc[p] \in Taking \cup Reading \cup {"ended"}
    BY <1>3, <1>7 DEF LateOf
  <2>2. \A l \in Levels : path[l] # Absent /\ fd[p][l] \in {Absent, path[l]}
    BY <1>1, <2>1 DEF AnchorsStay, OneInode, Same
  <2>3. pc[p] \in Reading => events = state
    <3>1. SUFFICES ASSUME pc[p] \in Reading, events # state
                   PROVE  FALSE
      OBVIOUS
    <3>2. InSection(p) /\ pc[p] # "install"
      BY <2>1, <3>1 DEF InSection, Reading
    <3> QED BY <1>1, <1>2, <3>1, <3>2, NobodyInstalls DEF UnequalIsWritten
  <2>4. pc[p] \in {"lookEvents", "loadEvents"} => saw[p].state = state
    BY <1>1, <2>1 DEF SightHolds, InSection, Reading
  <2>5. pc[p] = "current" => fd[p][at[p]] # Absent
    BY DEF Nested
  <2>6. at[p] \in Levels
    BY DEF TypeOK
  <2>7. late'[p] => /\ events' > 0 
                    /\ work'[p] = "check"
                    /\ pc'[p] \in Taking \cup Reading \cup {"ended"}
                    /\ pc'[p] = "ended" => ToldOfIt(p)'
    <3>1. CASE Open(p)
      <4>1. OpenEffect(p)
        BY <3>1, OpenMeans
      <4> QED BY <4>1, <1>4, <2>1, <2>2, <2>3, <2>4, <2>5, <2>6 DEF OpenEffect, Taking
    <3>2. CASE Flock(p)
      BY <3>2, <1>4, <2>1, <2>2, <2>3, <2>4, <2>5, <2>6 DEF Flock, GoTo, Taking
    <3>3. CASE Current(p)
      <4>1. CurrentEffect(p)
        BY <3>3, CurrentMeans
      <4> QED BY <4>1, <1>4, <2>1, <2>2, <2>3, <2>4, <2>5, <2>6
                 DEF CurrentEffect, Exclusive, Taking, Reading
    <3>4. CASE LookState(p)
      BY <3>4, <1>4, <2>1, <2>2, <2>3, <2>4, <2>5, <2>6 DEF LookState, GoTo, Reading
    <3>5. CASE LookEvents(p)
      <4>1. LookEventsEffect(p)
        BY <3>5, LookEventsMeans
      <4> QED BY <4>1, <1>4, <2>1, <2>2, <2>3, <2>4, <2>5, <2>6 DEF LookEventsEffect, Reading
    <3>6. CASE LoadState(p)
      BY <3>6, <1>4, <2>1, <2>2, <2>3, <2>4, <2>5, <2>6 DEF LoadState, GoTo, Reading
    <3>7. CASE LoadEvents(p)
      <4>1. LoadEventsEffect(p)
        BY <3>7, LoadEventsMeans
      <4> QED BY <4>1, <1>4, <2>1, <2>2, <2>3, <2>4, <2>5, <2>6 DEF LoadEventsEffect, Taking,
                 Reading
    <3>8. CASE AnchorExists(p)
      BY <3>8, <1>4, <2>1, <2>2, <2>3, <2>4, <2>5, <2>6
         DEF AnchorExists, Exclusive, Taking, Reading
    <3>9. CASE PreflightPasses(p)
      BY <3>9, <1>4, <2>1, <2>2, <2>3, <2>4, <2>5, <2>6
         DEF PreflightPasses, Exclusive, Taking, Reading
    <3>10. CASE PreflightFails(p)
      BY <3>10, <1>4, <2>1, <2>2, <2>3, <2>4, <2>5, <2>6
         DEF PreflightFails, Exclusive, Taking, Reading
    <3>11. CASE Own(p)
      <4>1. OwnEffect(p)
        BY <3>11, OwnMeans
      <4> QED BY <4>1, <1>4, <2>1, <2>2, <2>3, <2>4, <2>5, <2>6
                 DEF OwnEffect, Exclusive, Taking, Reading
    <3>12. CASE Append(p)
      <4>1. AppendEffect(p)
        BY <3>12, AppendMeans
      <4> QED BY <4>1, <1>4, <2>1, <2>2, <2>3, <2>4, <2>5, <2>6
                 DEF AppendEffect, Exclusive, Taking, Reading
    <3>13. CASE Install(p)
      BY <3>13, <1>4, <2>1, <2>2, <2>3, <2>4, <2>5, <2>6 DEF Install, Exclusive, Taking, Reading
    <3>14. CASE NextEvent(p)
      BY <3>14, <1>4, <2>1, <2>2, <2>3, <2>4, <2>5, <2>6
         DEF NextEvent, Exclusive, Taking, Reading
    <3>15. CASE RecordStep(p)
      <4>1. RecordEffect(p)
        BY <3>15, RecordStepMeans
      <4> QED BY <4>1, <1>4, <2>1, <2>2, <2>3, <2>4, <2>5, <2>6 DEF RecordEffect, Taking,
                 Reading, Pausing
    <3> QED BY <1>2, <1>7, <3>1, <3>2, <3>3, <3>4, <3>5, <3>6, <3>7, <3>8, <3>9, <3>10, <3>11,
               <3>12, <3>13, <3>14, <3>15 DEF Starter, RecordStep
  <2> QED BY <1>7, <2>7 DEF LateOf
<1>8. CASE q = p /\ ~Start(p) /\ ~late[p]
  <2>1. late' = late
    BY <1>2, <1>8 DEF Starter, Start, Open, Flock, Current, LookState, LookEvents, LoadState,
            LoadEvents, LoadRecords, BeginRecords, SettleRecords, AnchorExists,
            PreflightPasses, PreflightFails, Own, Append, Install,
            NextEvent
  <2> QED BY <1>8, <2>1 DEF LateOf
<1> QED BY <1>5, <1>6, <1>7, <1>8

LEMMA BrokenStays ==
    ASSUME TypeOK, Broken, NEW p \in Starters, Starter(p) \/ Die(p)
    PROVE  Broken'
<1>1. events # state /\ \A r \in Starters : pc[r] # "install"
  BY DEF Broken
<1>2. ~Install(p)
  BY <1>1 DEF Install
<1>3. Append(p) => events' = events /\ state' = state /\ pc'[p] # "install"
  <2>1. SUFFICES ASSUME AppendEffect(p)
                 PROVE  events' = events /\ state' = state /\ pc'[p] # "install"
    BY AppendMeans
  <2> QED BY <1>1, <2>1 DEF AppendEffect
<1>4. events' = events /\ state' = state /\ pc'[p] # "install"
  BY <1>2, <1>3, OnlyTwoWrite
<1>5. \A r \in Starters : r # p => pc'[r] = pc[r]
  BY OthersStay
<1> QED BY <1>1, <1>4, <1>5 DEF Broken

LEMMA AlarmStays ==
    ASSUME TypeOK, WorkFits, Nested, FlockExcludes, OneInode, SightHolds,
           LockedAlarmIsTrue, NEW p \in Starters, Starter(p) \/ Die(p)
    PROVE  LockedAlarmIsTrue'
<1>1. SUFFICES ASSUME removals <= 1, NEW q \in Starters,
                      Told(q, "inconsistent_persistence")', work'[q] # "bare"
               PROVE  Broken
  BY <1>1, OnlyTwoWrite, BrokenStays DEF LockedAlarmIsTrue
<1>2. CASE q # p
  <2>1. Told(q, "inconsistent_persistence") /\ work[q] # "bare"
    BY <1>1, <1>2, OthersStay DEF Told
  <2> QED BY <1>1, <2>1 DEF LockedAlarmIsTrue
<1>3. CASE q = p
  <2>1. pc'[p] = "ended" /\ answer'[p] = "inconsistent_persistence" /\ work'[p] # "bare"
    BY <1>1, <1>3 DEF Told
  <2>2. ASSUME InSection(p), pc[p] # "install", events # state
        PROVE  Broken
    BY <1>1, <2>2, NobodyInstalls DEF Broken
  <2>3. SightOf(p)
    BY <1>1 DEF SightHolds, SightOf
  <2>4. InSection(p) /\ pc[p] # "install" /\ events # state
    <3>1. CASE Start(p)
      BY <3>1, <2>1, <2>3 DEF Start, Take, GoTo
    <3>2. CASE Open(p)
      <4>1. OpenEffect(p)
        BY <3>2, OpenMeans
      <4> QED BY <4>1, <2>1, <2>3 DEF OpenEffect
    <3>3. CASE Flock(p)
      BY <3>3, <2>1, <2>3 DEF Flock, GoTo
    <3>4. CASE Current(p)
      <4>1. CurrentEffect(p)
        BY <3>4, CurrentMeans
      <4> QED BY <4>1, <2>1, <2>3 DEF CurrentEffect
    <3>5. CASE LookState(p)
      BY <3>5, <2>1, <2>3 DEF LookState, GoTo
    <3>6. CASE LookEvents(p)
      <4>1. LookEventsEffect(p)
        BY <3>6, LookEventsMeans
      <4> QED BY <4>1, <2>1, <2>3 DEF LookEventsEffect, InSection, Reading, SightOf
    <3>7. CASE LoadState(p)
      BY <3>7, <2>1, <2>3 DEF LoadState, GoTo
    <3>8. CASE LoadEvents(p)
      <4>1. LoadEventsEffect(p)
        BY <3>8, LoadEventsMeans
      <4> QED BY <4>1, <2>1, <2>3 DEF LoadEventsEffect, InSection, Reading, SightOf
    <3>9. CASE AnchorExists(p)
      BY <3>9, <2>1, <2>3 DEF AnchorExists, Take, GoTo, TypeOK
    <3>10. CASE PreflightPasses(p)
      BY <3>10, <2>1, <2>3 DEF PreflightPasses, GoTo
    <3>11. CASE PreflightFails(p)
      BY <3>11, <2>1, <2>3 DEF PreflightFails, End, TypeOK
    <3>12. CASE Own(p)
      <4>1. OwnEffect(p)
        BY <3>12, OwnMeans
      <4> QED BY <4>1, <2>1, <2>3 DEF OwnEffect
    <3>13. CASE Append(p)
      <4>1. AppendEffect(p)
        BY <3>13, AppendMeans
      <4> QED BY <4>1, <2>1, <2>3 DEF AppendEffect, InSection, Writing, SightOf
    <3>14. CASE Install(p)
      BY <3>14, <2>1, <2>3 DEF Install, End, GoTo, TypeOK
    <3>15. CASE NextEvent(p)
      BY <3>15, <2>1, <2>3 DEF NextEvent, Take, GoTo
    <3>16. CASE Die(p)
      BY <3>16, <2>1, <2>3 DEF Die, GoTo
    <3>17. CASE RecordStep(p)
      <4>1. RecordEffect(p)
        BY <3>17, RecordStepMeans
      <4> QED BY <4>1, <2>1, <2>3 DEF RecordEffect, InSection, Reading, SightOf, Pausing
    <3> QED BY <3>1, <3>2, <3>3, <3>4, <3>5, <3>6, <3>7, <3>8, <3>9, <3>10, <3>11, <3>12,
               <3>13, <3>14, <3>15, <3>16, <3>17 DEF Starter, RecordStep
  <2> QED BY <2>2, <2>4
<1> QED BY <1>2, <1>3

-----------------------------------------------------------------------------
(* The theorems *)

LEMMA StarterKeepsInvariant ==
    ASSUME IInv, NEW p \in Starters, Starter(p) \/ Die(p)
    PROVE  IInv'
<1> USE DEF IInv
<1>1. TypeOK' /\ WorkFits' /\ OwnerWrites' /\ Nested'
  BY StepKeepsTypes, WorkStays, OwnerStays, NestingStays
<1>2. FlockExcludes' /\ OneInode'
  BY ExclusionStays, OneInodeStays
<1>3. SightHolds' /\ UnequalIsWritten' /\ AnchorsStay'
  BY SightStays, UnequalStays, AnchorsAreKept
<1>4. LateWaits' /\ LockedAlarmIsTrue'
  BY LateStays, AlarmStays
<1> QED BY <1>1, <1>2, <1>3, <1>4

\* A removed directory changes the present inode of one level, and nothing of
\* what a process remembers.
LEMMA RemoveKeepsInvariant ==
    ASSUME IInv, NEW l \in Levels, Remove(l)
    PROVE  IInv'
<1> USE DEF IInv
<1>1. /\ removals \in Nat
      /\ removals' = removals + 1
      /\ UNCHANGED <<fresh, at, fd, held, deaths, owner, events, state, exposed, pc, work, saw,
                     answer, late>>
  BY DEF Remove, files, TypeOK
<1>2. removals' # 0 /\ (removals' <= 1 => removals <= 1)
  BY <1>1
<1>3. TypeOK' /\ OneInode'
  BY RemoveKeepsTypes, RemoveLeavesOne
<1>4. WorkFits' /\ OwnerWrites' /\ Nested' /\ FlockExcludes'
  BY <1>1 DEF WorkFits, OwnerWrites, Nested, FlockExcludes, Exclusive, Active, InSection
<1>5. SightHolds' /\ UnequalIsWritten'
  BY <1>1, <1>2 DEF SightHolds, UnequalIsWritten, InSection
<1>6. AnchorsStay' /\ LateWaits'
  BY <1>2 DEF AnchorsStay, LateWaits
<1>7. LockedAlarmIsTrue'
  BY <1>1, <1>2 DEF LockedAlarmIsTrue, Told, Broken
<1> QED BY <1>3, <1>4, <1>5, <1>6, <1>7

LEMMA Invariant == Spec => []IInv
<1>1. Init => IInv
  <2> SUFFICES ASSUME Init PROVE IInv
    OBVIOUS
  <2>1. Unread \in [state : 0 .. LastEvent, events : 0 .. LastEvent]
    BY StartAssumption DEF Unread
  <2>2. 0 \in 0 .. 1 - 1 /\ 0 \in 0 .. LastEvent /\ 0 \in 0 .. MaxRemovals /\ 0 \in 0 .. MaxDeaths
    BY StartAssumption
  <2>3. TypeOK
    BY <2>1, <2>2 DEF Init, TypeOK, Absent, Steps, Works, Answers, Levels
  <2>4. WorkFits /\ OwnerWrites /\ Nested /\ FlockExcludes
    BY DEF Init, WorkFits, OwnerWrites, Nested, FlockExcludes, Exclusive, Active, InSection,
           Taking, Reading, Writing, Pausing
  <2>5. OneInode
    BY DEF Init, OneInode, Same, Levels
  <2>6. SightHolds /\ UnequalIsWritten /\ AnchorsStay /\ LateWaits /\ LockedAlarmIsTrue
    BY DEF Init, SightHolds, UnequalIsWritten, AnchorsStay, LateWaits, LockedAlarmIsTrue, Told,
           InSection
  <2> QED BY <2>3, <2>4, <2>5, <2>6 DEF IInv
<1>2. IInv /\ [Next]_vars => IInv'
  <2> SUFFICES ASSUME IInv, [Next]_vars PROVE IInv'
    OBVIOUS
  <2>1. CASE \E p \in Starters : Starter(p) \/ Die(p)
    BY <2>1, StarterKeepsInvariant
  <2>2. CASE \E l \in Levels : Remove(l)
    BY <2>2, RemoveKeepsInvariant
  <2>3. CASE UNCHANGED vars
    <3>1. UNCHANGED <<path, fresh, removals, deaths, owner, events, state, records, exposed>>
      BY <2>3 DEF vars
    <3>2. UNCHANGED <<pc, work, at, fd, held, saw, answer, late>>
      BY <2>3 DEF vars
    <3>3. TypeOK' /\ WorkFits' /\ OwnerWrites' /\ Nested' /\ FlockExcludes' /\ OneInode'
      BY <3>1, <3>2 DEF IInv, TypeOK, WorkFits, OwnerWrites, Nested, FlockExcludes, OneInode,
             Same, Exclusive, Active, InSection
    <3>4. /\ SightHolds' /\ UnequalIsWritten' /\ AnchorsStay' /\ LateWaits'
          /\ LockedAlarmIsTrue'
      BY <3>1, <3>2 DEF IInv, SightHolds, UnequalIsWritten, AnchorsStay, LateWaits,
             LockedAlarmIsTrue, Told, Broken, InSection, ToldOfIt
    <3> QED BY <3>3, <3>4 DEF IInv
  <2> QED BY <2>1, <2>2, <2>3 DEF Next
<1> QED BY <1>1, <1>2, PTL DEF Spec

\* Every variable keeps to its values: an inode is one that was given out, and
\* no more events are written than a run has.
THEOREM TypeCorrect == Spec => []TypeOK
<1>1. IInv => TypeOK
  BY DEF IInv
<1> QED BY <1>1, Invariant, PTL

\* However many starters race with the run that writes, and even if one lock
\* directory is removed under them, one that looked under the persistence lock
\* (cli._existing_run_before_preflight, transitions.persist_initial) reports an
\* inconsistency only when there is one that stays.
THEOREM AlarmsAreTrue == Spec => []LockedAlarmIsTrue
<1>1. IInv => LockedAlarmIsTrue
  BY DEF IInv
<1> QED BY <1>1, Invariant, PTL

\* A starter that began after the first event was in the log is told that the
\* run exists, whatever event or state the run is writing meanwhile, or it was
\* reading the records of the invocation when they did not fit and is told
\* that (status.py:243): nothing else, as long as nobody is killed and no
\* directory removed.
THEOREM LateStartersAreTold == Spec => []LateStarterIsToldOfTheRun
<1>1. IInv => LateStarterIsToldOfTheRun
  BY DEF IInv, LateWaits, LateStarterIsToldOfTheRun, ToldOfIt
<1> QED BY <1>1, Invariant, PTL
=============================================================================
