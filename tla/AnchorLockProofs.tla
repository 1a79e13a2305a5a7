-------------------------- MODULE AnchorLockProofs --------------------------
(***************************************************************************)
(* The exclusion properties of AnchorLock, for any number of processes,    *)
(* inodes and moved anchors; then, in parts of their own, that only the    *)
(* lock of another refuses an attempt while nothing is moved               *)
(* (Undisturbed), and what status makes of the locks (ProcessRunning).     *)
(*                                                                         *)
(* The inductive invariant says what a descriptor is worth: the nesting    *)
(* fixes what is locked at each step (Nested), two conflicting flocks are  *)
(* on different inodes (FlockExcludes), and a level a process has found    *)
(* current is in lost exactly when its path names another inode            *)
(* (LostMeansMoved), which needs that inode numbers are never handed out   *)
(* twice (BelowFresh).  RecheckedFirst is the extra fact that              *)
(* OwnershipLock.ensure_current buys: it looks at the namespace again once *)
(* the run anchor is locked.                                               *)
(***************************************************************************)
EXTENDS ProcessRunning, TLAPS

Opening == {"open", "mkdir", "reopen", "flock"}

\* The levels whose current check process p has passed.
Found(p) ==
    IF pc[p] \in {"recheck", "owner"} THEN Levels
    ELSE IF pc[p] \in Opening \cup {"current"} /\ at[p] = "anchor" THEN {"namespace"}
    ELSE {}

BelowFresh ==
    \A l \in Levels : path[l] < fresh /\ \A p \in Procs : fd[p][l] < fresh

Nested ==
    \A p \in Procs :
        /\ pc[p] = "idle" => held[p] = {}
        /\ pc[p] \in Opening =>
               held[p] = (IF at[p] = "namespace" THEN {} ELSE {"namespace"})
        /\ pc[p] = "flock" => fd[p][at[p]] # Absent
        /\ pc[p] = "current" =>
               held[p] = (IF at[p] = "namespace" THEN {"namespace"} ELSE Levels)
        /\ pc[p] \in {"recheck", "owner"} => held[p] = Levels
        /\ \A l \in held[p] : fd[p][l] # Absent

FlockExcludes ==
    \A p, q \in Procs : \A l \in Levels :
        Conflict(p, q) /\ l \in held[p] /\ l \in held[q] => fd[p][l] # fd[q][l]

LostMeansMoved ==
    \A p \in Procs : \A l \in Found(p) : l \in lost[p] <=> path[l] # fd[p][l]

RecheckedFirst ==
    Ownership =>
        \A p, q \in Procs :
            /\ Conflict(p, q)
            /\ pc[p] = "owner" \/ (pc[p] = "recheck" /\ at[p] = "anchor")
            /\ pc[q] \in {"recheck", "owner"}
            /\ "anchor" \notin lost[p]
            => "namespace" \notin lost[p] \/ "namespace" \in lost[q]

IInv ==
    /\ TypeOK
    /\ BelowFresh
    /\ Nested
    /\ FlockExcludes
    /\ LostMeansMoved
    /\ RecheckedFirst

\* One step keeps every variable in its type.
LEMMA TypeStep == TypeOK /\ [Next]_vars => TypeOK'
<1> SUFFICES ASSUME TypeOK, [Next]_vars PROVE TypeOK'
  OBVIOUS
<1> USE DEF TypeOK, Levels, Absent, Steps, Outcomes, Goto, Fail
<1>1. ASSUME NEW p \in Procs, Begin(p) \/ OpenDirectory(p) \/ OpenFindsNothing(p)
                              \/ MakeDirectory(p) \/ OpenFails(p)
      PROVE  TypeOK'
  <2>1. CASE Begin(p) BY <2>1 DEF Begin
  <2>2. CASE OpenDirectory(p) BY <2>2 DEF OpenDirectory
  <2>3. CASE OpenFindsNothing(p) BY <2>3 DEF OpenFindsNothing
  <2>4. CASE MakeDirectory(p) BY <2>4 DEF MakeDirectory
  <2>5. CASE OpenFails(p) BY <2>5 DEF OpenFails
  <2> QED BY <1>1, <2>1, <2>2, <2>3, <2>4, <2>5
<1>2. ASSUME NEW p \in Procs, Flock(p) \/ FlockRefused(p) \/ EnsureCurrent(p)
                              \/ Recheck(p) \/ EnsureFails(p)
      PROVE  TypeOK'
  <2>1. CASE Flock(p) BY <2>1 DEF Flock
  <2>2. CASE FlockRefused(p) BY <2>2 DEF FlockRefused
  <2>3. CASE EnsureCurrent(p) BY <2>3 DEF EnsureCurrent
  <2>4. CASE Recheck(p) BY <2>4 DEF Recheck
  <2>5. CASE EnsureFails(p) BY <2>5 DEF EnsureFails
  <2> QED BY <1>2, <2>1, <2>2, <2>3, <2>4, <2>5
<1>3. ASSUME NEW p \in Procs, Leave(p) \/ Unlock(p) \/ Crash(p) PROVE TypeOK'
  <2>1. CASE Leave(p) BY <2>1 DEF Leave
  <2>2. CASE Unlock(p)
    <3>1. CASE fd[p]["anchor"] # Absent BY <2>2, <3>1 DEF Unlock
    <3>2. CASE fd[p]["anchor"] = Absent BY <2>2, <3>2 DEF Unlock
    <3> QED BY <3>1, <3>2
  <2>3. CASE Crash(p) BY <2>3 DEF Crash
  <2> QED BY <1>3, <2>1, <2>2, <2>3
<1>4. ASSUME NEW l \in Levels, MoveAway(l) PROVE TypeOK'
  BY <1>4 DEF MoveAway
<1>5. CASE UNCHANGED vars BY <1>5 DEF vars
<1> QED BY <1>1, <1>2, <1>3, <1>4, <1>5 DEF Next, Step

\* Every variable keeps its type.
THEOREM TypeCorrect == Spec => []TypeOK
<1>1. Init => TypeOK
  BY LockAssumption DEF Init, TypeOK, Levels, Absent, Steps, Outcomes
<1> QED BY <1>1, TypeStep, PTL DEF Spec
-----------------------------------------------------------------------------
(* Preservation of the parts of IInv *)

\* A step of one process leaves every other process alone.
LEMMA OthersUnchanged ==
    ASSUME TypeOK, NEW p \in Procs, Step(p)
    PROVE  \A q \in Procs \ {p} :
               /\ pc'[q] = pc[q] /\ at'[q] = at[q] /\ fd'[q] = fd[q]
               /\ held'[q] = held[q] /\ lost'[q] = lost[q]
<1> USE DEF TypeOK, Goto, Fail
<1>1. CASE Begin(p) \/ OpenDirectory(p) \/ OpenFindsNothing(p) \/ MakeDirectory(p)
           \/ OpenFails(p)
  BY <1>1 DEF Begin, OpenDirectory, OpenFindsNothing, MakeDirectory, OpenFails
<1>2. CASE Flock(p) \/ FlockRefused(p) \/ EnsureCurrent(p) \/ Recheck(p) \/ EnsureFails(p)
  BY <1>2 DEF Flock, FlockRefused, EnsureCurrent, Recheck, EnsureFails
<1>3. CASE Leave(p) \/ Unlock(p) \/ Crash(p)
  BY <1>3 DEF Leave, Unlock, Crash
<1> QED BY <1>1, <1>2, <1>3 DEF Step

\* A step of a process keeps every inode number below the next fresh one.
LEMMA FreshPreserved == TypeOK /\ BelowFresh /\ [Next]_vars => BelowFresh'
<1> SUFFICES ASSUME TypeOK, BelowFresh, [Next]_vars PROVE BelowFresh'
  OBVIOUS
<1> USE DEF TypeOK, BelowFresh, Levels, Absent
<1>1. ASSUME NEW p \in Procs, Step(p), ~OpenDirectory(p), ~MakeDirectory(p), ~Unlock(p), ~Crash(p)
      PROVE  path' = path /\ fresh' = fresh /\ fd' = fd
  BY <1>1 DEF Step, Begin, OpenFindsNothing, OpenFails, Flock, FlockRefused,
              EnsureCurrent, Recheck, EnsureFails, Leave
<1>2. ASSUME NEW p \in Procs, OpenDirectory(p) PROVE BelowFresh'
  BY <1>2 DEF OpenDirectory
<1>3. ASSUME NEW p \in Procs, MakeDirectory(p) PROVE BelowFresh'
  BY <1>3 DEF MakeDirectory
<1>4. ASSUME NEW p \in Procs, Unlock(p) PROVE BelowFresh'
  BY <1>4 DEF Unlock
<1>5. ASSUME NEW p \in Procs, Crash(p) PROVE BelowFresh'
  BY <1>5 DEF Crash
<1>6. ASSUME NEW l \in Levels, MoveAway(l) PROVE BelowFresh'
  BY <1>6 DEF MoveAway
<1>7. CASE UNCHANGED vars BY <1>7 DEF vars
<1> QED BY <1>1, <1>2, <1>3, <1>4, <1>5, <1>6, <1>7 DEF Next

\* Every system call respects the nesting of the two locks.
LEMMA NestedPreserved == TypeOK /\ Nested /\ [Next]_vars => Nested'
<1> SUFFICES ASSUME TypeOK, Nested, [Next]_vars PROVE Nested'
  OBVIOUS
<1> USE DEF TypeOK, Nested, Levels, Absent, Opening
<1>1. ASSUME NEW p \in Procs, Step(p) PROVE Nested'
  <2>1. \A q \in Procs \ {p} :
            /\ pc'[q] = pc[q] /\ at'[q] = at[q] /\ fd'[q] = fd[q]
            /\ held'[q] = held[q]
    BY <1>1, OthersUnchanged
  <2> USE <2>1 DEF Goto, Fail, Steps
  <2>2. CASE Begin(p) BY <2>2 DEF Begin
  <2>3. CASE OpenDirectory(p) BY <2>3 DEF OpenDirectory
  <2>4. CASE OpenFindsNothing(p) BY <2>4 DEF OpenFindsNothing
  <2>5. CASE MakeDirectory(p) BY <2>5 DEF MakeDirectory
  <2>6. CASE OpenFails(p) BY <2>6 DEF OpenFails
  <2>7. CASE Flock(p) BY <2>7 DEF Flock
  <2>8. CASE FlockRefused(p) BY <2>8 DEF FlockRefused
  <2>9. CASE EnsureCurrent(p) BY <2>9 DEF EnsureCurrent
  <2>10. CASE Recheck(p) BY <2>10 DEF Recheck
  <2>11. CASE EnsureFails(p) BY <2>11 DEF EnsureFails
  <2>12. CASE Leave(p) BY <2>12 DEF Leave
  <2>13. CASE Unlock(p)
    <3>1. \A l \in held'[p] : l \in held[p] /\ fd'[p][l] = fd[p][l]
      BY <2>13 DEF Unlock
    <3>2. pc'[p] = "unwind" \/ (pc'[p] = "idle" /\ held'[p] = {})
      <4>1. CASE fd[p]["anchor"] # Absent BY <2>13, <4>1 DEF Unlock
      <4>2. CASE fd[p]["anchor"] = Absent
        <5>1. "anchor" \notin held[p] BY <4>2
        <5>2. pc'[p] = "idle" /\ held'[p] = held[p] \ {"namespace"}
          BY <2>13, <4>2 DEF Unlock
        <5> QED BY <5>1, <5>2
      <4> QED BY <4>1, <4>2
    <3>3. held'[p] \subseteq Levels BY <3>1
    <3> HIDE DEF TypeOK, Goto, Fail
    <3> QED BY <3>1, <3>2
  <2>14. CASE Crash(p) BY <2>14 DEF Crash
  <2> QED BY <1>1, <2>2, <2>3, <2>4, <2>5, <2>6, <2>7, <2>8, <2>9, <2>10, <2>11,
             <2>12, <2>13, <2>14 DEF Step
<1>2. ASSUME NEW l \in Levels, MoveAway(l) PROVE Nested'
  BY <1>2 DEF MoveAway
<1>3. CASE UNCHANGED vars BY <1>3 DEF vars
<1> QED BY <1>1, <1>2, <1>3 DEF Next

\* No step lets two conflicting processes hold a flock on the same inode: only
\* Flock grants one, and a descriptor is opened only where nothing is held.
LEMMA ExcludesPreserved ==
    TypeOK /\ Nested /\ FlockExcludes /\ [Next]_vars => FlockExcludes'
<1> SUFFICES ASSUME TypeOK, Nested, FlockExcludes, [Next]_vars PROVE FlockExcludes'
  OBVIOUS
<1> USE DEF TypeOK, FlockExcludes, Conflict
<1>1. ASSUME NEW p \in Procs, Step(p) PROVE FlockExcludes'
  <2>1. \A q \in Procs \ {p} : fd'[q] = fd[q] /\ held'[q] = held[q]
    BY <1>1, OthersUnchanged
  <2>2. CASE Flock(p)
    BY <2>1, <2>2 DEF Flock, Contended
  <2>3. CASE ~Flock(p)
    <3>1. \A l \in held'[p] : l \in held[p] /\ fd'[p][l] = fd[p][l]
      <4>1. CASE OpenDirectory(p)
        BY <4>1 DEF OpenDirectory, Nested, Opening, Levels
      <4>2. CASE Unlock(p)
        BY <4>2 DEF Unlock, Nested, Levels
      <4>3. CASE Crash(p)
        BY <4>3 DEF Crash
      <4>4. CASE ~OpenDirectory(p) /\ ~Unlock(p) /\ ~Crash(p)
        BY <1>1, <2>3, <4>4 DEF Step, Begin, OpenFindsNothing, MakeDirectory, OpenFails,
             FlockRefused, EnsureCurrent, Recheck, EnsureFails, Leave
      <4> QED BY <4>1, <4>2, <4>3, <4>4
    <3> QED BY <2>1, <3>1
  <2> QED BY <2>2, <2>3
<1>2. ASSUME NEW l \in Levels, MoveAway(l) PROVE FlockExcludes'
  BY <1>2 DEF MoveAway
<1>3. CASE UNCHANGED vars BY <1>3 DEF vars
<1> QED BY <1>1, <1>2, <1>3 DEF Next

\* A level found current stays marked lost exactly when its path has moved.
LEMMA LostPreserved ==
    TypeOK /\ BelowFresh /\ Nested /\ LostMeansMoved /\ [Next]_vars => LostMeansMoved'
<1> SUFFICES ASSUME TypeOK, BelowFresh, Nested, LostMeansMoved, [Next]_vars
             PROVE  LostMeansMoved'
  OBVIOUS
<1> USE DEF TypeOK, Levels, Absent, Opening
<1>1. \A q \in Procs : \A l \in Found(q) :
          l \in Levels /\ fd[q][l] # Absent /\ fd[q][l] < fresh
  BY DEF Found, Nested, BelowFresh
<1>2. ASSUME NEW p \in Procs, Step(p) PROVE LostMeansMoved'
  <2>1. \A q \in Procs \ {p} :
            /\ pc'[q] = pc[q] /\ at'[q] = at[q] /\ fd'[q] = fd[q] /\ lost'[q] = lost[q]
    BY <1>2, OthersUnchanged
  <2>2. \A q \in Procs \ {p} : Found(q)' = Found(q)
    BY <2>1 DEF Found
  <2>3. CASE MakeDirectory(p)
    <3>1. Found(p)' = Found(p) BY <2>3 DEF MakeDirectory, Found, Goto
    <3>2. \A q \in Procs : \A l \in Found(q) : path'[l] # fd[q][l] <=> path[l] # fd[q][l]
      BY <1>1, <2>3 DEF MakeDirectory
    <3>3. fd' = fd /\ lost' = lost BY <2>3 DEF MakeDirectory
    <3> QED BY <2>2, <3>1, <3>2, <3>3 DEF LostMeansMoved
  <2>4. CASE ~MakeDirectory(p)
    <3>1. path' = path
      BY <1>2, <2>4 DEF Step, Begin, OpenDirectory, OpenFindsNothing, OpenFails, Flock,
           FlockRefused, EnsureCurrent, Recheck, EnsureFails, Leave, Unlock, Crash
    <3>2. \A l \in Found(p)' : l \in lost'[p] <=> path'[l] # fd'[p][l]
      <4> USE <3>1 DEF Goto, Fail, Steps, Found, LostMeansMoved
      <4>1. CASE OpenDirectory(p) BY <4>1 DEF OpenDirectory
      <4>2. CASE EnsureCurrent(p)
        BY <4>2, LockAssumption DEF EnsureCurrent, Current
      <4>3. CASE Recheck(p) BY <4>3 DEF Recheck
      <4>4. CASE Begin(p) \/ OpenFindsNothing(p) \/ OpenFails(p)
        BY <4>4 DEF Begin, OpenFindsNothing, OpenFails
      <4>5. CASE Flock(p) \/ FlockRefused(p) \/ EnsureFails(p)
        BY <4>5 DEF Flock, FlockRefused, EnsureFails
      <4>6. CASE Leave(p) BY <4>6 DEF Leave
      <4>7. CASE Unlock(p) \/ Crash(p) BY <4>7 DEF Unlock, Crash
      <4> QED BY <1>2, <2>4, <4>1, <4>2, <4>3, <4>4, <4>5, <4>6, <4>7 DEF Step
    <3> QED BY <2>1, <2>2, <3>1, <3>2 DEF LostMeansMoved
  <2> QED BY <2>3, <2>4
<1>3. ASSUME NEW l \in Levels, MoveAway(l) PROVE LostMeansMoved'
  <2>1. \A q \in Procs : Found(q)' = Found(q) BY <1>3 DEF MoveAway, Found
  <2> QED BY <1>1, <1>3, <2>1 DEF MoveAway, LostMeansMoved, Found
<1>4. CASE UNCHANGED vars BY <1>4 DEF vars, LostMeansMoved, Found
<1> QED BY <1>2, <1>3, <1>4 DEF Next

\* Passing the second namespace check leaves the process current on both
\* anchors, and what happens later to one of them only strengthens the claim.
LEMMA RecheckedPreserved ==
    IInv /\ [Next]_vars => RecheckedFirst'
<1> SUFFICES ASSUME IInv, [Next]_vars, Ownership' PROVE RecheckedFirst'
  BY DEF RecheckedFirst
<1> USE DEF IInv, TypeOK, Levels
<1>1. \A q \in Procs : pc[q] \in {"recheck", "owner"} => Found(q) = Levels
  BY DEF Found
<1>2. ASSUME NEW p \in Procs, Step(p) PROVE RecheckedFirst'
  <2>1. \A q \in Procs \ {p} :
            pc'[q] = pc[q] /\ at'[q] = at[q] /\ lost'[q] = lost[q] /\ fd'[q] = fd[q]
    BY <1>2, OthersUnchanged
  <2>2. CASE EnsureCurrent(p)
    <3>1. \A q \in Procs : Conflict(p, q) /\ pc'[p] \in {"recheck", "owner"}
              /\ pc[q] \in {"recheck", "owner"} => "anchor" \in lost[q]
      <4> SUFFICES ASSUME NEW q \in Procs, Conflict(p, q), pc'[p] \in {"recheck", "owner"},
                          pc[q] \in {"recheck", "owner"}
                   PROVE  "anchor" \in lost[q]
        OBVIOUS
      <4>1. at[p] = "anchor" /\ held[p] = Levels /\ held[q] = Levels
        BY <2>2 DEF EnsureCurrent, Goto, Nested
      <4>2. fd[p]["anchor"] # fd[q]["anchor"] BY <4>1 DEF FlockExcludes
      <4>3. path["anchor"] = fd[p]["anchor"] BY <2>2, <4>1 DEF EnsureCurrent, Current
      <4> QED BY <1>1, <4>2, <4>3 DEF LostMeansMoved
    <3> QED BY <2>1, <2>2, <3>1 DEF EnsureCurrent, Goto, RecheckedFirst, Conflict
  <2>3. CASE Recheck(p)
    BY <1>1, <2>1, <2>3 DEF Recheck, Goto, RecheckedFirst, LostMeansMoved, Current
  <2>4. CASE ~EnsureCurrent(p) /\ ~Recheck(p)
    <3>1. pc'[p] \notin {"recheck", "owner"}
      BY <1>2, <2>4 DEF Step, Begin, OpenDirectory, OpenFindsNothing, MakeDirectory, OpenFails,
           Flock, FlockRefused, EnsureFails, Leave, Unlock, Crash, Goto, Fail
    <3> QED BY <2>1, <3>1 DEF RecheckedFirst, Conflict
  <2> QED BY <2>2, <2>3, <2>4
<1>3. ASSUME NEW l \in Levels, MoveAway(l) PROVE RecheckedFirst'
  BY <1>3 DEF MoveAway, RecheckedFirst, Conflict
<1>4. CASE UNCHANGED vars BY <1>4 DEF vars, RecheckedFirst, Conflict
<1> QED BY <1>2, <1>3, <1>4 DEF Next

-----------------------------------------------------------------------------
(* The results *)

LEMMA Initial == Init => IInv
<1> SUFFICES ASSUME Init PROVE IInv
  OBVIOUS
<1>1. TypeOK
  BY LockAssumption DEF Init, TypeOK, Levels, Absent, Steps, Outcomes
<1> QED BY <1>1 DEF Init, IInv, BelowFresh, Nested, FlockExcludes, LostMeansMoved,
                    RecheckedFirst, Found, Levels, Absent, Opening

LEMMA Preserved == IInv /\ [Next]_vars => IInv'
BY TypeStep, FreshPreserved, NestedPreserved, ExcludesPreserved, LostPreserved,
   RecheckedPreserved DEF IInv

LEMMA Inductive == Spec => []IInv
BY Initial, Preserved, PTL DEF Spec

\* Two conflicting holders can be inside together only if both anchors have
\* been moved since they were found current: one replaced anchor is harmless.
THEOREM AnchorExclusion == Spec => []ExclusionUnlessBothMoved
<1>1. IInv => ExclusionUnlessBothMoved
  <2> SUFFICES ASSUME IInv, NEW p \in Procs, NEW q \in Procs,
                      Conflict(p, q), Owner(p), Owner(q), NEW l \in Levels
               PROVE  l \in lost[p] \cup lost[q]
    BY DEF ExclusionUnlessBothMoved, IInv, TypeOK
  <2>1. l \in held[p] /\ l \in held[q] /\ Found(p) = Levels /\ Found(q) = Levels
    BY DEF IInv, Nested, Owner, Found
  <2>2. fd[p][l] # fd[q][l] BY <2>1 DEF IInv, FlockExcludes
  <2> QED BY <2>1, <2>2 DEF IInv, LostMeansMoved
<1> QED BY <1>1, Inductive, PTL

\* Ownership is stronger: the second owner gets in only if one and the same
\* process has lost both of its anchors.
THEOREM SingleOwner == Spec => []OwnershipExclusion
<1>1. IInv => OwnershipExclusion
  <2> SUFFICES ASSUME IInv, Ownership, NEW p \in Procs, NEW q \in Procs,
                      Conflict(p, q), Owner(p), Owner(q)
               PROVE  lost[p] = Levels \/ lost[q] = Levels
    BY DEF OwnershipExclusion
  <2>1. \A l \in Levels : l \in lost[p] \cup lost[q]
    <3> SUFFICES ASSUME NEW l \in Levels PROVE l \in lost[p] \cup lost[q]
      OBVIOUS
    <3>1. l \in held[p] /\ l \in held[q] /\ Found(p) = Levels /\ Found(q) = Levels
      BY DEF IInv, Nested, Owner, Found
    <3>2. fd[p][l] # fd[q][l] BY <3>1 DEF IInv, FlockExcludes
    <3> QED BY <3>1, <3>2 DEF IInv, LostMeansMoved
  <2>2. "anchor" \notin lost[p] => "namespace" \notin lost[p] \/ "namespace" \in lost[q]
    BY DEF IInv, RecheckedFirst, Owner
  <2>3. Conflict(q, p) BY DEF Conflict
  <2>4. "anchor" \notin lost[q] => "namespace" \notin lost[q] \/ "namespace" \in lost[p]
    BY <2>3 DEF IInv, RecheckedFirst, Owner
  <2>5. lost[p] \subseteq Levels /\ lost[q] \subseteq Levels
    BY DEF IInv, TypeOK
  <2> QED BY <2>1, <2>2, <2>4, <2>5 DEF Levels
<1> QED BY <1>1, Inductive, PTL

\* While nothing has been moved, no process has lost anything, and whatever a
\* process has made or opened is still there under its name.
Undisturbed ==
    changes = 0 =>
        /\ \A p \in Procs :
            /\ lost[p] = {}
            /\ pc[p] = "reopen" => path[at[p]] # Absent
            /\ pc[p] \in {"flock", "current"} => path[at[p]] = fd[p][at[p]]
        /\ UndisturbedNeverFails

\* A missing directory cannot meet a process that creates it, and nobody finds a
\* path moved, unless one has been.
LEMMA UndisturbedPreserved == IInv /\ Undisturbed /\ [Next]_vars => Undisturbed'
<1> SUFFICES ASSUME IInv, Undisturbed, [Next]_vars, changes' = 0 PROVE Undisturbed'
  BY DEF Undisturbed
<1> USE DEF IInv, TypeOK
<1>1. ASSUME NEW p \in Procs, Step(p) PROVE Undisturbed'
  <2>1. changes = 0
    BY <1>1 DEF Step, Begin, OpenDirectory, OpenFindsNothing, MakeDirectory, OpenFails, Flock,
         FlockRefused, EnsureCurrent, Recheck, EnsureFails, Leave, Unlock, Crash
  <2>2. \A q \in Procs \ {p} :
            /\ pc'[q] = pc[q] /\ at'[q] = at[q] /\ fd'[q] = fd[q] /\ lost'[q] = lost[q]
    BY <1>1, OthersUnchanged
  <2>3. \A q \in Procs : \A l \in Found(q) : path[l] = fd[q][l]
    BY <2>1 DEF Undisturbed, LostMeansMoved
  <2>4. ~EnsureFails(p)
    <3>1. CASE pc[p] \in {"recheck", "owner"}
      BY <2>3, <3>1 DEF Found, EnsureFails, Current, Levels
    <3>2. CASE pc[p] = "current"
      BY <2>1, <3>2 DEF Undisturbed, EnsureFails, Current
    <3> QED BY <3>1, <3>2 DEF EnsureFails
  <2>5. OpenFails(p) => p \notin Creators
    BY <2>1 DEF Undisturbed, OpenFails
  <2>6. \A l \in Levels : path[l] # Absent => path'[l] = path[l]
    BY <1>1 DEF Step, Begin, OpenDirectory, OpenFindsNothing, MakeDirectory, OpenFails, Flock,
         FlockRefused, EnsureCurrent, Recheck, EnsureFails, Leave, Unlock, Crash
  <2>7. \A q \in Procs \ {p} : outcome'[q] = outcome[q]
    BY <1>1 DEF Step, Begin, OpenDirectory, OpenFindsNothing, MakeDirectory, OpenFails, Flock,
         FlockRefused, EnsureCurrent, Recheck, EnsureFails, Leave, Unlock, Crash, Fail
  <2>8. p \in Creators => outcome'[p] \in {outcome[p], "none", "ok", "contended"}
    BY <1>1, <2>4, <2>5 DEF Step, Begin, OpenDirectory, OpenFindsNothing, MakeDirectory, Flock,
         FlockRefused, EnsureCurrent, Recheck, Leave, Unlock, Crash, Fail
  <2>9. UndisturbedNeverFails'
    BY <2>1, <2>7, <2>8, LockAssumption DEF Undisturbed, UndisturbedNeverFails
  <2>10. ASSUME NEW q \in Procs, q # p
         PROVE  /\ lost'[q] = {}
                /\ pc'[q] = "reopen" => path'[at'[q]] # Absent
                /\ pc'[q] \in {"flock", "current"} => path'[at'[q]] = fd'[q][at'[q]]
    <3>1. pc[q] = "flock" \/ pc[q] = "current" => fd[q][at[q]] # Absent
      BY DEF Nested, Levels
    <3> QED BY <2>1, <2>2, <2>6, <2>10, <3>1 DEF Undisturbed, Levels, Absent
  <2>11. /\ lost'[p] = {}
         /\ pc'[p] = "reopen" => path'[at'[p]] # Absent
         /\ pc'[p] \in {"flock", "current"} => path'[at'[p]] = fd'[p][at'[p]]
    <3> USE <2>1 DEF Undisturbed, Goto, Fail, Levels, Absent
    <3>1. CASE OpenDirectory(p) BY <3>1 DEF OpenDirectory
    <3>2. CASE MakeDirectory(p) BY <3>2 DEF MakeDirectory, BelowFresh
    <3>3. CASE Flock(p) BY <3>3 DEF Flock
    <3>4. CASE Begin(p) \/ OpenFindsNothing(p) \/ OpenFails(p) \/ FlockRefused(p)
      BY <3>4 DEF Begin, OpenFindsNothing, OpenFails, FlockRefused
    <3>5. CASE EnsureCurrent(p) \/ Recheck(p) \/ Leave(p)
      BY <3>5 DEF EnsureCurrent, Recheck, Leave
    <3>6. CASE Unlock(p) BY <3>6 DEF Unlock
    <3>7. CASE Crash(p) BY <3>7 DEF Crash
    <3> QED BY <1>1, <2>4, <3>1, <3>2, <3>3, <3>4, <3>5, <3>6, <3>7 DEF Step
  <2> QED BY <2>9, <2>10, <2>11 DEF Undisturbed
<1>2. ASSUME NEW l \in Levels, MoveAway(l) PROVE FALSE
  BY <1>2 DEF MoveAway
<1>3. CASE UNCHANGED vars
  BY <1>3 DEF vars, Undisturbed, UndisturbedNeverFails
<1> QED BY <1>1, <1>2, <1>3 DEF Next

\* Until something moves an anchor, a process that creates its anchors gets the
\* lock or is refused it, however many start at once in a fresh repository.
THEOREM CreatorsOnlyContend == Spec => []UndisturbedNeverFails
<1>1. Init => Undisturbed
  BY LockAssumption DEF Init, Undisturbed, UndisturbedNeverFails
<1>2. IInv /\ IInv' /\ Undisturbed /\ [Next]_vars => Undisturbed'
  BY UndisturbedPreserved
<1>3. Undisturbed => UndisturbedNeverFails
  BY DEF Undisturbed, UndisturbedNeverFails
<1> QED BY Inductive, <1>1, <1>2, <1>3, PTL DEF Spec

-----------------------------------------------------------------------------
(***************************************************************************)
(* What status makes of the locks (ProcessRunning), for any number of      *)
(* process numbers, processes and moved anchors.                           *)
(*                                                                         *)
(* Each of the three looks sees another moment, and what ties them         *)
(* together is that a process has its start and its ownership only once    *)
(* (StartsAreUnique, NeverAgain): what the recorded process holds at one   *)
(* look it has held since the run was recorded.                            *)
(***************************************************************************)

ThreadsRun == \A p \in Procs : pc[p] # "idle" => start[p] # 0

\* The recorded process, by its number and its real start, is one that has
\* started, and no other ever has that start.
StartsAreUnique ==
    /\ \A p \in Procs : start[p] <= starts
    /\ recorded # NoProcess =>
           /\ recorded.pid \in Procs
           /\ recorded.real \in 1 .. starts
           /\ recorded.start \in {Unknown, recorded.real}
    /\ look # "none" => recorded # NoProcess

\* It never asks for the lock again.
NeverAgain ==
    recorded # NoProcess =>
        \A p \in Procs : IsRecorded(p) => pc[p] \in {"owner", "unwind", "idle"}

HoldsOpened(p) == IsRecorded(p) /\ "anchor" \in held[p] /\ fd[p]["anchor"] = inode

\* What is known at each look: the past of the query as far as the looks still to
\* come can reveal it.
LooksTell ==
    /\ Looking => ((RecordedOwns => owned) /\ (~RecordedOwns => unowned))
    /\ look = "locks" =>
           /\ \A p \in Procs : HoldsOpened(p) => owned
           /\ unowned \/ \E p \in Procs : HoldsOpened(p)
    /\ look = "start" => \A p \in Procs : IsRecorded(p) => owned
    /\ look = "kill" => recorded.start = Unknown
    /\ AnswerWasTrue

QInv ==
    /\ IInv
    /\ QueryTypeOK
    /\ ThreadsRun
    /\ StartsAreUnique
    /\ NeverAgain
    /\ LooksTell

\* What may happen to the world during a query, status itself left out.
WorldStep ==
    \/ \E p \in Procs : StartProcess(p) \/ LockStep(p) \/ EndProcess(p)
    \/ \E l \in Levels : AnchorMoves(l)

\* Every step of a run is one of the lock protocol or leaves it alone.
LEMMA LocksKeepTheirSteps == [RunNext]_runVars => [Next]_vars
<1> SUFFICES ASSUME [RunNext]_runVars PROVE [Next]_vars
  OBVIOUS
<1>1. ASSUME NEW p \in Procs, StartProcess(p) \/ LockStep(p) \/ EndProcess(p) \/ RecordRun(p)
      PROVE  [Next]_vars
  <2>1. CASE StartProcess(p) BY <2>1 DEF StartProcess, Next, Step
  <2>2. CASE LockStep(p) BY <2>2 DEF LockStep, Advance, Next, Step
  <2>3. CASE EndProcess(p) BY <2>3 DEF EndProcess, Next, Step
  <2>4. CASE RecordRun(p) BY <2>4 DEF RecordRun, Record
  <2> QED BY <1>1, <2>1, <2>2, <2>3, <2>4
<1>2. ASSUME NEW l \in Levels, AnchorMoves(l) PROVE [Next]_vars
  BY <1>2 DEF AnchorMoves, Next
<1>3. CASE Ask \/ OpenAnchor \/ ReadLocks \/ ReadStart \/ SendSignalZero
  BY <1>3 DEF Ask, OpenAnchor, ReadLocks, ReadStart, SendSignalZero, Looks
<1>4. CASE UNCHANGED runVars BY <1>4 DEF runVars
<1> QED BY <1>1, <1>2, <1>3, <1>4 DEF RunNext

\* Whatever happens to the world, what the query has found stays, and its course
\* is observed.
LEMMA WorldLeavesQuery ==
    ASSUME WorldStep
    PROVE  /\ recorded' = recorded
           /\ look' = look /\ visible' = visible /\ inode' = inode /\ answer' = answer
           /\ Observed
BY DEF WorldStep, StartProcess, LockStep, EndProcess, AnchorMoves, query

\* The processes after a step: the numbers in use have a start, and no start is
\* given twice.
LEMMA WorldStarts ==
    ASSUME QInv, WorldStep, IInv'
    PROVE  /\ start' \in [Procs -> 0 .. MaxStarts] /\ starts' \in 0 .. MaxStarts
           /\ starts <= starts'
           /\ ThreadsRun'
           /\ \A p \in Procs : start'[p] <= starts'
           /\ \A p \in Procs : start'[p] = start[p] \/ start'[p] = 0 \/ start'[p] > starts
<1> USE StartAssumption DEF QInv, QueryTypeOK
<1> DEFINE Goal == /\ start' \in [Procs -> 0 .. MaxStarts] /\ starts' \in 0 .. MaxStarts
                   /\ starts <= starts'
                   /\ ThreadsRun'
                   /\ \A p \in Procs : start'[p] <= starts'
                   /\ \A p \in Procs : start'[p] = start[p] \/ start'[p] = 0 \/ start'[p] > starts
<1>0. pc \in [Procs -> Steps] /\ pc' \in [Procs -> Steps]
  BY DEF IInv, TypeOK
<1>1. ASSUME NEW p \in Procs, StartProcess(p) PROVE Goal
  <2>1. \A q \in Procs : q # p => pc'[q] = pc[q]
    BY <1>0, <1>1 DEF StartProcess, Begin, Goto, vars
  <2>2. start' = [start EXCEPT ![p] = starts + 1] /\ starts' = starts + 1 /\ starts < MaxStarts
    BY <1>1 DEF StartProcess
  <2> QED BY <2>1, <2>2 DEF ThreadsRun, StartsAreUnique
<1>2. ASSUME NEW p \in Procs, LockStep(p) PROVE Goal
  <2>1. start' = start /\ starts' = starts
    BY <1>2 DEF LockStep, processes
  <2>2. Step(p) /\ pc[p] # "idle"
    BY <1>2 DEF LockStep, Advance, Step, OpenDirectory, OpenFindsNothing, MakeDirectory, OpenFails,
         Flock, FlockRefused, EnsureCurrent, Recheck, EnsureFails, Leave, Unlock
  <2>3. \A q \in Procs \ {p} : pc'[q] = pc[q]
    BY <2>2, OthersUnchanged DEF IInv
  <2> QED BY <2>1, <2>2, <2>3 DEF ThreadsRun, StartsAreUnique
<1>3. ASSUME NEW p \in Procs, EndProcess(p) PROVE Goal
  <2>1. start' = [start EXCEPT ![p] = 0] /\ starts' = starts
    BY <1>3 DEF EndProcess
  <2>2. pc'[p] = "idle" /\ \A q \in Procs : q # p => pc'[q] = pc[q]
    BY <1>0, <1>3 DEF EndProcess, Crash, Goto, vars
  <2> QED BY <2>1, <2>2 DEF ThreadsRun, StartsAreUnique
<1>4. ASSUME NEW l \in Levels, AnchorMoves(l) PROVE Goal
  BY <1>4 DEF AnchorMoves, MoveAway, processes, ThreadsRun, StartsAreUnique
<1> QED BY <1>1, <1>2, <1>3, <1>4 DEF WorldStep

\* No process becomes the recorded one, and it gets no lock that it did not have.
LEMMA WorldKeepsRecorded ==
    ASSUME QInv, WorldStep, IInv', recorded # NoProcess, NEW p \in Procs, IsRecorded(p)'
    PROVE  /\ IsRecorded(p)
           /\ pc'[p] \in {"owner", "unwind", "idle"}
           /\ "anchor" \in held'[p] =>
                  "anchor" \in held[p] /\ fd'[p]["anchor"] = fd[p]["anchor"]
<1> USE DEF QInv
<1>1. recorded' = recorded
  BY WorldLeavesQuery
<1>2. recorded.pid = p /\ start'[p] = recorded.real
  BY <1>1 DEF IsRecorded
<1>3. recorded.real \in 1 .. starts /\ starts \in Nat
  BY StartAssumption DEF StartsAreUnique, QueryTypeOK
<1>4. start'[p] = start[p]
  BY <1>2, <1>3, WorldStarts
<1>5. IsRecorded(p)
  BY <1>2, <1>4 DEF IsRecorded
<1>6. pc[p] \in {"owner", "unwind", "idle"}
  BY <1>5 DEF NeverAgain
<1>7. pc'[p] \in {"owner", "unwind", "idle"}
      /\ ((held'[p] = held[p] /\ fd'[p] = fd[p]) \/ Unlock(p))
  <2>0. TypeOK BY DEF IInv
  <2>1. ASSUME NEW q \in Procs, StartProcess(q)
        PROVE  pc'[p] = pc[p] /\ held'[p] = held[p] /\ fd'[p] = fd[p]
    <3>1. q # p
      BY <1>3, <1>4, <1>2, <2>1 DEF StartProcess, QueryTypeOK
    <3> QED BY <2>0, <2>1, <3>1 DEF StartProcess, Begin, Goto, vars, TypeOK
  <2>2. ASSUME NEW q \in Procs, LockStep(q)
        PROVE  pc'[p] \in {"owner", "unwind", "idle"}
               /\ ((held'[p] = held[p] /\ fd'[p] = fd[p]) \/ Unlock(p))
    <3>1. Step(q)
      BY <2>2 DEF LockStep, Advance, Step
    <3>2. CASE q # p
      BY <1>6, <2>0, <3>1, <3>2, OthersUnchanged
    <3>3. CASE q = p
      BY <1>6, <2>0, <2>2, <3>3 DEF LockStep, Advance, OpenDirectory, OpenFindsNothing,
         MakeDirectory, OpenFails, Flock, FlockRefused, EnsureCurrent, Recheck, EnsureFails, Leave,
         Unlock, Goto, Fail, TypeOK
    <3> QED BY <3>2, <3>3
  <2>3. ASSUME NEW q \in Procs, EndProcess(q)
        PROVE  pc'[p] = pc[p] /\ held'[p] = held[p] /\ fd'[p] = fd[p]
    <3>1. q # p
      BY <1>3, <1>2, <2>3 DEF EndProcess, QueryTypeOK
    <3> QED BY <2>0, <2>3, <3>1 DEF EndProcess, Crash, Goto, vars, TypeOK
  <2>4. ASSUME NEW l \in Levels, AnchorMoves(l)
        PROVE  pc'[p] = pc[p] /\ held'[p] = held[p] /\ fd'[p] = fd[p]
    BY <2>4 DEF AnchorMoves, MoveAway
  <2> QED BY <1>6, <2>1, <2>2, <2>3, <2>4 DEF WorldStep
<1>8. "anchor" \in held'[p] => "anchor" \in held[p] /\ fd'[p]["anchor"] = fd[p]["anchor"]
  <2>1. CASE Unlock(p)
    BY <2>1 DEF Unlock, IInv, TypeOK, Nested, Levels
  <2> QED BY <1>7, <2>1
<1> QED BY <1>5, <1>7, <1>8

\* The world cannot take back what the looks have found: the recorded process
\* only ever loses what they looked for, and Observed takes notice of it.
LEMMA WorldKeepsLooks == ASSUME QInv, WorldStep, IInv' PROVE NeverAgain' /\ LooksTell'
<1> USE DEF QInv
<1>1. recorded' = recorded /\ look' = look /\ visible' = visible /\ inode' = inode
      /\ answer' = answer /\ Observed
  BY WorldLeavesQuery
<1>2. Looking' = Looking
  BY <1>1 DEF Looking
<1>3. (owned => owned') /\ (unowned => unowned')
      /\ (Looking /\ RecordedOwns' => owned') /\ (Looking /\ ~RecordedOwns' => unowned')
  BY <1>1 DEF Observed
<1>4. recorded # NoProcess => \A p \in Procs : IsRecorded(p)' =>
          /\ IsRecorded(p)
          /\ pc'[p] \in {"owner", "unwind", "idle"}
          /\ "anchor" \in held'[p] =>
                 "anchor" \in held[p] /\ fd'[p]["anchor"] = fd[p]["anchor"]
  BY WorldKeepsRecorded
<1>5. look # "none" => recorded # NoProcess
  BY DEF StartsAreUnique
<1>6. NeverAgain'
  BY <1>1, <1>4 DEF NeverAgain
<1>7. look = "locks" => /\ \A p \in Procs : HoldsOpened(p)' => owned'
                        /\ unowned' \/ \E p \in Procs : HoldsOpened(p)'
  <2> SUFFICES ASSUME look = "locks"
               PROVE  /\ \A p \in Procs : HoldsOpened(p)' => owned'
                      /\ ~unowned' => \E p \in Procs : HoldsOpened(p)'
    OBVIOUS
  <2>1. ASSUME NEW p \in Procs, HoldsOpened(p)' PROVE owned'
    BY <1>1, <1>3, <1>4, <1>5, <2>1 DEF HoldsOpened, LooksTell
  <2>2. ASSUME ~unowned' PROVE \E p \in Procs : HoldsOpened(p)'
    <3>1. Looking /\ RecordedOwns'
      BY <1>3, <2>2 DEF Looking
    <3>2. PICK p \in Procs : IsRecorded(p)' /\ "anchor" \in held'[p]
      BY <3>1 DEF RecordedOwns
    <3>3. IsRecorded(p) /\ "anchor" \in held[p] /\ fd'[p]["anchor"] = fd[p]["anchor"]
      BY <1>4, <1>5, <3>2
    <3>4. PICK q \in Procs : HoldsOpened(q)
      BY <1>3, <2>2 DEF LooksTell
    <3>5. p = q
      BY <3>3, <3>4 DEF HoldsOpened, IsRecorded
    <3> QED BY <1>1, <3>2, <3>3, <3>4, <3>5 DEF HoldsOpened
  <2> QED BY <2>1, <2>2
<1>8. look = "start" => \A p \in Procs : IsRecorded(p)' => owned'
  BY <1>3, <1>4, <1>5 DEF LooksTell
<1>9. AnswerWasTrue'
  <2>1. look # "told"
    BY <1>1 DEF Observed
  <2> QED BY <1>1, <2>1 DEF AnswerWasTrue, Told
<1>10. Looking' => ((RecordedOwns' => owned') /\ (~RecordedOwns' => unowned'))
  BY <1>2, <1>3
<1>11. look = "kill" => recorded'.start = Unknown
  BY <1>1 DEF LooksTell
<1> QED BY <1>1, <1>6, <1>7, <1>8, <1>9, <1>10, <1>11 DEF LooksTell

LEMMA QInitial == RunInit => QInv
<1> SUFFICES ASSUME RunInit PROVE QInv
  OBVIOUS
<1>1. IInv
  BY Initial DEF RunInit
<1>2. QueryTypeOK
  <2>1. recorded \in [pid : Procs \cup {None}, start : 0 .. MaxStarts, real : 0 .. MaxStarts]
    BY StartAssumption DEF RunInit, NoProcess, Unknown
  <2>2. \A p \in Procs : held[p] = {}
    BY DEF RunInit, Init
  <2>3. inode \in 0 .. fresh - 1
    <3>1. fresh = 1 /\ inode = 0
      BY DEF RunInit, Init, Absent
    <3> QED BY <3>1
  <2>4. start \in [Procs -> 0 .. MaxStarts] /\ starts \in 0 .. MaxStarts
    BY StartAssumption DEF RunInit
  <2>5. look = "none" /\ visible = TRUE /\ answer = FALSE /\ owned = FALSE /\ unowned = FALSE
    BY DEF RunInit
  <2> QED BY <2>1, <2>2, <2>3, <2>4, <2>5 DEF QueryTypeOK
<1>3. ThreadsRun /\ StartsAreUnique /\ NeverAgain
  BY DEF RunInit, Init, ThreadsRun, StartsAreUnique, NeverAgain
<1>4. LooksTell
  BY DEF RunInit, LooksTell, Looking, AnswerWasTrue, Told
<1> QED BY <1>1, <1>2, <1>3, <1>4 DEF QInv

\* What was handed out before is not what will be handed out next.
LEMMA InodesStayBelow ==
    ASSUME NEW before \in Nat, NEW after \in Nat, before <= after, NEW i \in 0 .. before - 1
    PROVE  i \in 0 .. after - 1
OBVIOUS

LEMMA QWorld == QInv /\ IInv' /\ WorldStep => QInv'
<1> SUFFICES ASSUME QInv, IInv', WorldStep PROVE QInv'
  OBVIOUS
<1>1. recorded' = recorded /\ look' = look /\ visible' = visible /\ inode' = inode
      /\ answer' = answer /\ Observed
  BY WorldLeavesQuery
<1>2. fresh \in Nat /\ fresh' \in Nat /\ fresh <= fresh'
  <2>1. fresh \in Nat /\ fresh' \in Nat
    BY DEF QInv, IInv, TypeOK
  <2>2. fresh' \in {fresh, fresh + 1}
    <3>1. ASSUME NEW p \in Procs, StartProcess(p) \/ EndProcess(p) PROVE fresh' = fresh
      BY <3>1 DEF StartProcess, EndProcess, Begin, Crash, vars
    <3>2. ASSUME NEW p \in Procs, LockStep(p) PROVE fresh' \in {fresh, fresh + 1}
      BY <3>2 DEF LockStep, Advance, OpenDirectory, OpenFindsNothing, MakeDirectory, OpenFails,
         Flock, FlockRefused, EnsureCurrent, Recheck, EnsureFails, Leave, Unlock
    <3>3. ASSUME NEW l \in Levels, AnchorMoves(l) PROVE fresh' \in {fresh, fresh + 1}
      BY <3>3 DEF AnchorMoves, MoveAway
    <3> QED BY <3>1, <3>2, <3>3 DEF WorldStep
  <2> QED BY <2>1, <2>2
<1>3. \A p \in Procs : held'[p] # {} => start'[p] # 0
  BY WorldStarts DEF ThreadsRun, IInv, Nested
<1>4. owned' \in BOOLEAN /\ unowned' \in BOOLEAN
  BY <1>1 DEF Observed, QInv, QueryTypeOK
<1>5. inode \in 0 .. fresh' - 1
  <2>1. inode \in 0 .. fresh - 1
    BY DEF QInv, QueryTypeOK
  <2> QED BY <1>2, <2>1, InodesStayBelow
<1>6. QueryTypeOK'
  BY <1>1, <1>3, <1>4, <1>5, WorldStarts DEF QInv, QueryTypeOK
<1>7. StartsAreUnique'
  <2>1. starts <= starts' /\ starts \in Nat /\ starts' \in Nat
    BY WorldStarts, StartAssumption DEF QInv, QueryTypeOK
  <2> QED BY <1>1, <2>1, WorldStarts DEF QInv, StartsAreUnique
<1> QED BY <1>6, <1>7, WorldStarts, WorldKeepsLooks DEF QInv

\* The first owner records itself: it has a start, and it will not begin again.
LEMMA QRecord ==
    ASSUME QInv, IInv', NEW p \in Procs, RecordRun(p)
    PROVE  QInv'
<1> USE DEF QInv
<1>1. PICK value \in {start[p], Unknown} : Record(p, value)
  BY DEF RecordRun
<1>2. Owner(p) /\ recorded = NoProcess /\ recorded' = [pid |-> p, start |-> value, real |-> start[p]]
      /\ UNCHANGED <<vars, processes, query, owned, unowned>>
  BY <1>1 DEF Record
<1>3. start[p] \in 1 .. starts
  BY <1>2, StartAssumption DEF Owner, ThreadsRun, StartsAreUnique, QueryTypeOK
<1>4. look = "none" /\ look' = look
  BY <1>2 DEF StartsAreUnique, query
<1>5. recorded' \in [pid : Procs \cup {None}, start : 0 .. MaxStarts, real : 0 .. MaxStarts]
  BY <1>1, <1>2, StartAssumption DEF QueryTypeOK, Unknown
<1>6. QueryTypeOK'
  BY <1>2, <1>5 DEF QueryTypeOK, query, processes, vars
<1>7. ThreadsRun'
  BY <1>2 DEF ThreadsRun, vars, processes
<1>8. StartsAreUnique'
  BY <1>1, <1>2, <1>3, <1>4 DEF StartsAreUnique, processes, Unknown
<1>9. NeverAgain'
  BY <1>2 DEF NeverAgain, IsRecorded, Owner, vars, processes
<1>10. LooksTell'
  BY <1>4 DEF LooksTell, Looking, AnswerWasTrue, Told
<1> QED BY <1>6, <1>7, <1>8, <1>9, <1>10

\* The looks of status change nothing but what it knows.
LEMMA QLooks ==
    ASSUME QInv, IInv', Ask \/ OpenAnchor \/ ReadLocks \/ ReadStart \/ SendSignalZero
    PROVE  QInv'
<1> USE DEF QInv
<1>1. UNCHANGED <<vars, processes, recorded>>
  BY DEF Ask, OpenAnchor, ReadLocks, ReadStart, SendSignalZero, Looks
<1>2. /\ RecordedOwns' = RecordedOwns
      /\ \A p \in Procs : IsRecorded(p)' = IsRecorded(p)
      /\ ThreadsRun' /\ NeverAgain'
  BY <1>1 DEF vars, processes, RecordedOwns, IsRecorded, ThreadsRun, NeverAgain
<1>3. /\ start' = start /\ starts' = starts /\ recorded' = recorded
      /\ path' = path /\ fresh' = fresh /\ held' = held /\ fd' = fd
  BY <1>1 DEF vars, processes
<1>4. recorded # NoProcess
      => /\ recorded.pid \in Procs /\ recorded.real # 0 /\ start[recorded.pid] \in Nat
         /\ recorded.start \in {Unknown, recorded.real}
  BY StartAssumption DEF StartsAreUnique, QueryTypeOK
<1>5. Looking => ((~RecordedOwns => unowned) /\ (RecordedOwns => owned))
  BY DEF LooksTell
<1>0. Absent \in 0 .. fresh - 1
  <2>1. fresh \in Nat \ {0}
    BY DEF IInv, TypeOK
  <2> QED BY <2>1 DEF Absent
<1>6. CASE Ask
  <2>1. /\ look' = "open" /\ recorded # NoProcess /\ inode' = inode /\ answer' = answer
        /\ owned' = RecordedOwns /\ unowned' = ~RecordedOwns /\ visible' \in BOOLEAN
    BY <1>6 DEF Ask
  <2>2. RecordedOwns \in BOOLEAN
    BY DEF RecordedOwns
  <2>3. QueryTypeOK'
    BY <1>3, <2>1, <2>2 DEF QueryTypeOK
  <2>4. LooksTell'
    BY <1>2, <2>1 DEF LooksTell, Looking, AnswerWasTrue, Told
  <2> QED BY <1>2, <1>3, <2>1, <2>3, <2>4 DEF StartsAreUnique
<1>7. CASE OpenAnchor
  <2>1. look = "open" /\ owned' = owned /\ unowned' = unowned /\ visible' = visible
    BY <1>7 DEF OpenAnchor, Looks
  <2>2. recorded # NoProcess /\ Looking
    BY <2>1 DEF StartsAreUnique, Looking
  <2>3. CASE path["anchor"] = Absent
    <3>1. look' = "told" /\ answer' = FALSE /\ inode' = Absent
      BY <1>7, <2>3 DEF OpenAnchor, Tell
    <3>2. ~RecordedOwns
      BY <2>3 DEF RecordedOwns
    <3>3. QueryTypeOK'
      BY <1>0, <1>3, <2>1, <3>1 DEF QueryTypeOK
    <3>4. LooksTell'
      BY <1>5, <2>1, <2>2, <3>1, <3>2 DEF LooksTell, Looking, AnswerWasTrue, Told
    <3> QED BY <1>2, <1>3, <2>2, <3>3, <3>4 DEF StartsAreUnique
  <2>4. CASE path["anchor"] # Absent
    <3>1. look' = "locks" /\ answer' = answer /\ inode' = path["anchor"]
      BY <1>7, <2>4 DEF OpenAnchor
    <3>2. inode' \in 0 .. fresh - 1
      BY <3>1 DEF IInv, TypeOK, BelowFresh, Levels
    <3>3. QueryTypeOK'
      BY <1>3, <2>1, <3>1, <3>2 DEF QueryTypeOK
    <3>4. RecordedOwns <=> \E p \in Procs : HoldsOpened(p)'
      BY <1>2, <1>3, <2>4, <3>1 DEF RecordedOwns, HoldsOpened
    <3>5. LooksTell'
      BY <1>2, <1>5, <2>1, <2>2, <3>1, <3>4 DEF LooksTell, AnswerWasTrue, Told
    <3> QED BY <1>2, <1>3, <2>2, <3>3, <3>5 DEF StartsAreUnique
  <2> QED BY <2>3, <2>4
<1>8. CASE ReadLocks
  <2>1. look = "locks" /\ owned' = owned /\ unowned' = unowned /\ visible' = visible
    BY <1>8 DEF ReadLocks, Looks
  <2>2. recorded # NoProcess /\ Looking
    BY <2>1 DEF StartsAreUnique, Looking
  <2>3. CASE \E p \in Procs : Holds(p) /\ p = recorded.pid
    <3>1. look' = "start" /\ inode' = inode /\ answer' = answer
      BY <1>8, <2>3 DEF ReadLocks
    <3>2. QueryTypeOK'
      BY <1>0, <1>3, <2>1, <3>1 DEF QueryTypeOK
    <3>3. \A p \in Procs : IsRecorded(p) => HoldsOpened(p)
      BY <2>3 DEF Holds, HoldsOpened, IsRecorded
    <3>4. LooksTell'
      BY <1>2, <1>5, <2>1, <2>2, <3>1, <3>3 DEF LooksTell, AnswerWasTrue, Told
    <3> QED BY <1>2, <1>3, <2>2, <3>2, <3>4 DEF StartsAreUnique
  <2>4. CASE ~\E p \in Procs : Holds(p) /\ p = recorded.pid
    <3>1. look' = "told" /\ answer' = FALSE /\ inode' = Absent
      BY <1>8, <2>4 DEF ReadLocks, Tell
    <3>2. \A p \in Procs : ~HoldsOpened(p)
      BY <2>4 DEF Holds, HoldsOpened, IsRecorded
    <3>3. QueryTypeOK'
      BY <1>0, <1>3, <2>1, <3>1 DEF QueryTypeOK
    <3>4. LooksTell'
      BY <2>1, <3>1, <3>2 DEF LooksTell, Looking, AnswerWasTrue, Told
    <3> QED BY <1>2, <1>3, <2>2, <3>3, <3>4 DEF StartsAreUnique
  <2> QED BY <2>3, <2>4
<1>9. CASE ReadStart
  <2>1. look = "start" /\ owned' = owned /\ unowned' = unowned /\ visible' = visible
    BY <1>9 DEF ReadStart, Looks
  <2>2. recorded # NoProcess /\ Looking
    BY <2>1 DEF StartsAreUnique, Looking
  <2>3. CASE recorded.start # Unknown
    <3>1. look' = "told" /\ answer' = (recorded.start = CurrentStart) /\ inode' = Absent
      BY <1>9, <2>3 DEF ReadStart, Tell
    <3>2. QueryTypeOK'
      BY <1>0, <1>3, <2>1, <3>1 DEF QueryTypeOK
    <3>3. answer' => IsRecorded(recorded.pid)
      BY <1>4, <2>2, <2>3, <3>1 DEF CurrentStart, IsRecorded, Unknown
    <3>4. ~answer' /\ visible => ~RecordedOwns
      BY <1>4, <2>2, <2>3, <3>1 DEF CurrentStart, IsRecorded, RecordedOwns
    <3>5. LooksTell'
      BY <1>3, <1>4, <1>5, <2>1, <2>2, <2>3, <3>1, <3>3, <3>4
         DEF LooksTell, Looking, AnswerWasTrue, Told, QueryTypeOK
    <3> QED BY <1>2, <1>3, <2>2, <3>2, <3>5 DEF StartsAreUnique
  <2>4. CASE recorded.start = Unknown /\ CurrentStart # Unknown
    <3>1. look' = "told" /\ answer' = FALSE /\ inode' = Absent
      BY <1>9, <2>4 DEF ReadStart, Tell
    <3>2. QueryTypeOK'
      BY <1>0, <1>3, <2>1, <3>1 DEF QueryTypeOK
    <3>3. visible
      BY <2>4 DEF CurrentStart
    <3>4. LooksTell'
      BY <1>3, <2>1, <2>4, <3>1, <3>3 DEF LooksTell, Looking, AnswerWasTrue, Told
    <3> QED BY <1>2, <1>3, <2>2, <3>2, <3>4 DEF StartsAreUnique
  <2>5. CASE recorded.start = Unknown /\ CurrentStart = Unknown
    <3>1. look' = "kill" /\ inode' = inode /\ answer' = answer
      BY <1>9, <2>5 DEF ReadStart
    <3>2. QueryTypeOK'
      BY <1>0, <1>3, <2>1, <3>1 DEF QueryTypeOK
    <3>3. LooksTell'
      BY <1>2, <1>3, <1>5, <2>1, <2>2, <2>5, <3>1 DEF LooksTell, AnswerWasTrue, Told
    <3> QED BY <1>2, <1>3, <2>2, <3>2, <3>3 DEF StartsAreUnique
  <2> QED BY <2>3, <2>4, <2>5
<1>10. CASE SendSignalZero
  <2>1. /\ look = "kill" /\ owned' = owned /\ unowned' = unowned /\ visible' = visible
        /\ look' = "told" /\ answer' = (start[recorded.pid] # 0) /\ inode' = Absent
    BY <1>10 DEF SendSignalZero, Looks, Tell
  <2>2. recorded # NoProcess /\ Looking /\ recorded.start = Unknown
    BY <2>1 DEF StartsAreUnique, Looking, LooksTell
  <2>3. QueryTypeOK'
    BY <1>0, <1>3, <2>1 DEF QueryTypeOK
  <2>4. ~answer' => ~RecordedOwns
    BY <1>4, <2>1, <2>2 DEF IsRecorded, RecordedOwns
  <2>5. LooksTell'
    BY <1>3, <1>5, <2>1, <2>2, <2>4 DEF LooksTell, Looking, AnswerWasTrue, Told
  <2> QED BY <1>2, <1>3, <2>2, <2>3, <2>5 DEF StartsAreUnique
<1> QED BY <1>6, <1>7, <1>8, <1>9, <1>10

LEMMA QInductive == RunSpec => []QInv
<1>1. QInv /\ [RunNext]_runVars => QInv'
  <2> SUFFICES ASSUME QInv, [RunNext]_runVars PROVE QInv'
    OBVIOUS
  <2>1. IInv'
    BY LocksKeepTheirSteps, Preserved DEF QInv
  <2>2. CASE WorldStep
    BY <2>1, <2>2, QWorld
  <2>3. ASSUME NEW p \in Procs, RecordRun(p) PROVE QInv'
    BY <2>1, <2>3, QRecord
  <2>4. CASE Ask \/ OpenAnchor \/ ReadLocks \/ ReadStart \/ SendSignalZero
    BY <2>1, <2>4, QLooks
  <2>5. CASE UNCHANGED runVars
    <3>1. UNCHANGED <<vars, processes, recorded, query, owned, unowned>>
      BY <2>5 DEF runVars
    <3>2. LooksTell'
      BY <3>1 DEF QInv, LooksTell, Looking, RecordedOwns, HoldsOpened, IsRecorded, AnswerWasTrue,
                  Told, vars, processes, query
    <3>3. QueryTypeOK' /\ ThreadsRun' /\ StartsAreUnique' /\ NeverAgain'
      BY <3>1 DEF QInv, QueryTypeOK, ThreadsRun, StartsAreUnique, NeverAgain, IsRecorded,
                  vars, processes, query
    <3> QED BY <2>1, <3>2, <3>3 DEF QInv
  <2> QED BY <2>2, <2>3, <2>4, <2>5 DEF RunNext, WorldStep
<1> QED BY <1>1, QInitial, PTL DEF RunSpec

\* What is started, recorded and asked keeps its type, and only a process that
\* is there holds a lock.
THEOREM QueryTypeCorrect == RunSpec => []QueryTypeOK
<1>1. QInv => QueryTypeOK
  BY DEF QInv
<1> QED BY <1>1, QInductive, PTL

\* process_running is true only if the process that the state names owned the
\* run at some moment of the query, and false only if at some moment it did not,
\* however numbers are reused and anchors moved between the three looks.
THEOREM StatusSeesTheOwner == RunSpec => []AnswerWasTrue
<1>1. QInv => AnswerWasTrue
  BY DEF QInv, LooksTell
<1> QED BY <1>1, QInductive, PTL
=============================================================================
