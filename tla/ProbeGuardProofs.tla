-------------------------- MODULE ProbeGuardProofs --------------------------
(***************************************************************************)
(* The verdicts of the Git guard, for any commits, branches and any number *)
(* of edits between any two inspections.                                   *)
(*                                                                         *)
(* A verdict is a summary of inspections made at different moments, so the *)
(* invariant accounts for them one by one: whatever is no longer to be     *)
(* inspected has been right, or hidden by index flags, at a moment of this *)
(* check (PreflightAccounts, CaptureAccounts, VerifyAccounts), and         *)
(* whatever is right or wrong now has been noted (Noted).  The one         *)
(* inspection that compares two moments, the managed HEAD against a        *)
(* gitlink read before, is what LinkRead is about: as one edit changes one *)
(* thing, the two cannot have drifted apart without having differed.       *)
(***************************************************************************)
EXTENDS ProbeGuard, SequenceTheorems, TLAPS

-----------------------------------------------------------------------------
(* The invariant *)

Left(what) == \E i \in DOMAIN todo : todo[i] = what

Checking == phase \in {"start", "capture", "recapture", "verify"}

\* What each field of a snapshot can be.
Domain(f) ==
    CASE f = "sprintHead" -> SprintCommits
      [] f = "managedHead" -> ManagedCommits
      [] OTHER -> Branches \cup {None}

Readings == SprintCommits \cup ManagedCommits \cup Branches \cup {None}

SeenTypeOK == seen \in [Identity \cup {"gitlink"} -> Readings]

\* The present state of the repositories is part of what the check could see.
Noted ==
    Checking =>
        /\ RightIn(repo, snapshot) \subseteq right
        /\ WrongIn(repo, snapshot) \subseteq wrong

\* The gitlink is read before the HEAD that is compared with it.
GitlinkFirst ==
    \A i, j \in DOMAIN todo : todo[i] = "gitlink" /\ todo[j] = "managedHead" => i < j

\* Between the two, either they have differed or both still are what was read.
LinkRead ==
    Checking /\ Left("managedHead") /\ ~Left("gitlink") =>
        \/ "link" \in wrong
        \/ repo.gitlink = seen.gitlink /\ repo.managedHead = seen.gitlink

\* The status of the sprint repository stands for the link and for its files.
PreflightAccounts ==
    phase \in {"start", "verify"} =>
        \A a \in Aspects \ Identity :
            a \in right \/ Left(a) \/ (a \in {"link", "sprintChanges"} /\ Left("sprintStatus"))

CaptureAccounts ==
    phase \in {"capture", "recapture"} =>
        \A f \in Identity :
            \/ Left(f)
            \/ /\ seen[f] \in Domain(f)
               /\ seen[f] = snapshot[f] => f \in right
               /\ seen[f] # snapshot[f] => f \in wrong

VerifyAccounts == phase = "verify" => Identity \subseteq right

EndsWithVerdict ==
    /\ phase = "ended" <=> outcome # "none"
    /\ phase \in {"probe", "ended"} => todo = << >>
    /\ outcome = "placeholder" => Aspects \subseteq right
    /\ outcome \notin {"none", "placeholder"} => Blamed(outcome) \cap wrong # {}

IInv ==
    /\ TypeOK
    /\ SeenTypeOK
    /\ Noted
    /\ GitlinkFirst
    /\ LinkRead
    /\ PreflightAccounts
    /\ CaptureAccounts
    /\ VerifyAccounts
    /\ EndsWithVerdict

-----------------------------------------------------------------------------
(* The lists of inspections *)

Inspections == Aspects \cup {"gitlink"}

LEMMA Concatenated ==
    ASSUME NEW s \in Seq(Inspections), NEW t \in Seq(Inspections)
    PROVE  /\ (s \o t) \in Seq(Inspections)
           /\ Len(s \o t) = Len(s) + Len(t)
           /\ DOMAIN (s \o t) = 1 .. Len(s) + Len(t)
           /\ \A i \in 1 .. Len(s) : (s \o t)[i] = s[i]
           /\ \A i \in 1 .. Len(t) : (s \o t)[Len(s) + i] = t[i]
<1>1. /\ (s \o t) \in Seq(Inspections)
      /\ Len(s \o t) = Len(s) + Len(t)
      /\ \A i \in 1 .. Len(s) + Len(t) :
            (s \o t)[i] = IF i <= Len(s) THEN s[i] ELSE t[i - Len(s)]
  BY ConcatProperties
<1>2. Len(s) \in Nat /\ Len(t) \in Nat
  OBVIOUS
<1>3. DOMAIN (s \o t) = 1 .. Len(s) + Len(t)
  BY <1>1
<1>4. \A i \in 1 .. Len(t) : (s \o t)[Len(s) + i] = t[i]
  BY <1>1, <1>2
<1> QED BY <1>1, <1>2, <1>3, <1>4

\* _ensure_submodule in the middle of two other lists.
LEMMA SubmoduleBetween ==
    ASSUME NEW s \in Seq(Inspections), NEW t \in Seq(Inspections)
    PROVE  /\ (s \o Submodule \o t) \in Seq(Inspections)
           /\ DOMAIN (s \o Submodule \o t) = 1 .. Len(s) + 3 + Len(t)
           /\ \A i \in 1 .. Len(s) : (s \o Submodule \o t)[i] = s[i]
           /\ (s \o Submodule \o t)[Len(s) + 1] = "gitlink"
           /\ (s \o Submodule \o t)[Len(s) + 2] = "unregistered"
           /\ (s \o Submodule \o t)[Len(s) + 3] = "managedHead"
           /\ \A i \in 1 .. Len(t) : (s \o Submodule \o t)[Len(s) + 3 + i] = t[i]
<1> DEFINE m == Submodule
           sm == s \o m
           all == sm \o t
<1>1. m \in Seq(Inspections) /\ Len(m) = 3
      /\ m[1] = "gitlink" /\ m[2] = "unregistered" /\ m[3] = "managedHead"
  BY DEF Submodule, Inspections, Aspects, Marks, Identity
<1> HIDE DEF m
<1>2. /\ sm \in Seq(Inspections) /\ Len(sm) = Len(s) + Len(m)
      /\ \A i \in 1 .. Len(s) : sm[i] = s[i]
      /\ \A i \in 1 .. Len(m) : sm[Len(s) + i] = m[i]
  BY <1>1, Concatenated, Zenon
<1>3. Len(s) \in Nat /\ Len(t) \in Nat
  OBVIOUS
<1> HIDE DEF sm
<1>4. /\ all \in Seq(Inspections) /\ DOMAIN all = 1 .. Len(sm) + Len(t)
      /\ \A i \in 1 .. Len(sm) : all[i] = sm[i]
      /\ \A i \in 1 .. Len(t) : all[Len(sm) + i] = t[i]
  BY <1>2, Concatenated, Zenon
<1> HIDE DEF all
<1>5. /\ \A i \in 1 .. Len(s) : all[i] = s[i]
      /\ all[Len(s) + 1] = "gitlink" /\ all[Len(s) + 2] = "unregistered"
      /\ all[Len(s) + 3] = "managedHead"
  BY <1>1, <1>2, <1>3, <1>4
<1>6. DOMAIN all = 1 .. Len(s) + 3 + Len(t)
      /\ \A i \in 1 .. Len(t) : all[Len(s) + 3 + i] = t[i]
  BY <1>1, <1>2, <1>3, <1>4
<1>7. all = s \o Submodule \o t
  BY DEF all, sm, m
<1> QED BY <1>4, <1>5, <1>6, <1>7

\* The preflight inspects everything but the identity of the repositories, the
\* link and, except by git status, the files of the sprint repository.
LEMMA PreflightInspects ==
    /\ Preflight \in Seq(Inspections)
    /\ \A a \in Aspects \ Identity :
          a \in {"link", "sprintChanges"} \/ \E i \in DOMAIN Preflight : Preflight[i] = a
    /\ \E i \in DOMAIN Preflight : Preflight[i] = "sprintStatus"
    /\ \E i \in DOMAIN Preflight : Preflight[i] = "gitlink"
    /\ \A i, j \in DOMAIN Preflight :
          Preflight[i] = "gitlink" /\ Preflight[j] = "managedHead" => i < j
<1> DEFINE s == <<"noAgentsFile", "sprintHead", "sprintOperation">>
           t == <<"managedOperation", "branchExpected", "noRemote", "managedFlags",
                  "managedChanges", "sprintFlags", "sprintStatus">>
           P == s \o Submodule \o t
<1>1. s \in Seq(Inspections) /\ t \in Seq(Inspections)
  BY DEF Inspections, Aspects, Marks, Identity
<1>2. Len(s) = 3 /\ s[1] = "noAgentsFile" /\ s[2] = "sprintHead" /\ s[3] = "sprintOperation"
  OBVIOUS
<1>3. /\ Len(t) = 7 /\ t[1] = "managedOperation" /\ t[2] = "branchExpected" /\ t[3] = "noRemote"
      /\ t[4] = "managedFlags" /\ t[5] = "managedChanges" /\ t[6] = "sprintFlags"
      /\ t[7] = "sprintStatus"
  OBVIOUS
<1>4. P = Preflight
  BY DEF Preflight
<1> HIDE DEF s, t
<1>5. /\ P \in Seq(Inspections) /\ DOMAIN P = 1 .. Len(s) + 3 + Len(t)
      /\ \A i \in 1 .. Len(s) : P[i] = s[i]
      /\ P[Len(s) + 1] = "gitlink" /\ P[Len(s) + 2] = "unregistered"
      /\ P[Len(s) + 3] = "managedHead"
      /\ \A i \in 1 .. Len(t) : P[Len(s) + 3 + i] = t[i]
  BY <1>1, SubmoduleBetween, Zenon
<1> HIDE DEF P
<1>6. DOMAIN P = 1 .. 13 /\ \A i \in 1 .. 7 : P[6 + i] = t[i]
  BY <1>2, <1>3, <1>5
<1>7. /\ P[1] = "noAgentsFile" /\ P[2] = "sprintHead" /\ P[3] = "sprintOperation"
      /\ P[4] = "gitlink" /\ P[5] = "unregistered" /\ P[6] = "managedHead"
      /\ P[7] = "managedOperation" /\ P[8] = "branchExpected" /\ P[9] = "noRemote"
      /\ P[10] = "managedFlags" /\ P[11] = "managedChanges" /\ P[12] = "sprintFlags"
      /\ P[13] = "sprintStatus"
  BY <1>2, <1>3, <1>5, <1>6
<1>8. \A a \in Aspects \ Identity :
          a \in {"link", "sprintChanges"} \/ \E i \in 1 .. 13 : P[i] = a
  BY <1>7 DEF Aspects, Marks, Identity
<1>9. \A i, j \in 1 .. 13 : P[i] = "gitlink" /\ P[j] = "managedHead" => i < j
  BY <1>7
<1>10. 13 \in DOMAIN P /\ 4 \in DOMAIN P
  BY <1>6
<1>11. P[13] = "sprintStatus" /\ P[4] = "gitlink"
  BY <1>7
<1>12. P \in Seq(Inspections)
  BY <1>5
<1>13. DOMAIN P = 1 .. 13
  BY <1>6
<1> QED BY <1>4, <1>8, <1>9, <1>10, <1>11, <1>12, <1>13

\* The snapshot reads the identity of the repositories.
LEMMA CaptureInspects ==
    /\ Capture \in Seq(Inspections)
    /\ \A f \in Identity : \E i \in DOMAIN Capture : Capture[i] = f
    /\ \E i \in DOMAIN Capture : Capture[i] = "gitlink"
    /\ \A i, j \in DOMAIN Capture :
          Capture[i] = "gitlink" /\ Capture[j] = "managedHead" => i < j
<1> DEFINE s == <<"sprintHead">>
           t == <<"sprintBranch", "managedBranch">>
           C == s \o Submodule \o t
<1>1. s \in Seq(Inspections) /\ t \in Seq(Inspections)
  BY DEF Inspections, Aspects, Identity
<1>2. Len(s) = 1 /\ s[1] = "sprintHead"
      /\ Len(t) = 2 /\ t[1] = "sprintBranch" /\ t[2] = "managedBranch"
  OBVIOUS
<1>3. C = Capture
  BY DEF Capture
<1> HIDE DEF s, t
<1>4. /\ C \in Seq(Inspections) /\ DOMAIN C = 1 .. Len(s) + 3 + Len(t)
      /\ \A i \in 1 .. Len(s) : C[i] = s[i]
      /\ C[Len(s) + 1] = "gitlink" /\ C[Len(s) + 2] = "unregistered"
      /\ C[Len(s) + 3] = "managedHead"
      /\ \A i \in 1 .. Len(t) : C[Len(s) + 3 + i] = t[i]
  BY <1>1, SubmoduleBetween, Zenon
<1> HIDE DEF C
<1>5. DOMAIN C = 1 .. 6
  BY <1>2, <1>4
<1>6. /\ C[1] = "sprintHead" /\ C[2] = "gitlink" /\ C[3] = "unregistered"
      /\ C[4] = "managedHead" /\ C[5] = "sprintBranch" /\ C[6] = "managedBranch"
  BY <1>2, <1>4
<1>7. \A f \in Identity : \E i \in 1 .. 6 : C[i] = f
  BY <1>6 DEF Identity
<1>8. \A i, j \in 1 .. 6 : C[i] = "gitlink" /\ C[j] = "managedHead" => i < j
  BY <1>6
<1>9. 2 \in DOMAIN C
  BY <1>5
<1>10. C[2] = "gitlink"
  BY <1>6
<1>11. C \in Seq(Inspections)
  BY <1>4
<1> QED BY <1>3, <1>7, <1>8, <1>5, <1>9, <1>10, <1>11

\* What passing an inspection does to the list of those that are left.
LEMMA OneLess ==
    ASSUME TypeOK, GitlinkFirst, todo # << >>, todo' = Tail(todo)
    PROVE  /\ todo' \in Seq(Inspections)
           /\ \A what : Left(what) => what = Head(todo) \/ Left(what)'
           /\ \A what : Left(what)' => Left(what)
           /\ GitlinkFirst'
           /\ Head(todo) = "managedHead" => ~Left("gitlink")
           /\ Left(Head(todo))
<1>1. todo \in Seq(Inspections)
  BY DEF TypeOK, Inspections
<1>2. /\ Len(todo) \in Nat \ {0} /\ DOMAIN todo = 1 .. Len(todo)
      /\ todo' \in Seq(Inspections)
      /\ DOMAIN todo' = 1 .. Len(todo) - 1
      /\ \A i \in 1 .. Len(todo) - 1 : todo'[i] = todo[i + 1]
      /\ Head(todo) = todo[1]
  BY <1>1
<1>3. ASSUME NEW what, Left(what) PROVE what = Head(todo) \/ Left(what)'
  <2>1. PICK i \in 1 .. Len(todo) : todo[i] = what
    BY <1>2, <1>3 DEF Left
  <2>2. CASE i = 1 BY <1>2, <2>1, <2>2
  <2>3. CASE i # 1
    <3>1. i - 1 \in 1 .. Len(todo) - 1 /\ todo'[i - 1] = todo[i]
      BY <1>2, <2>3
    <3> QED BY <1>2, <2>1, <3>1 DEF Left
  <2> QED BY <2>2, <2>3
<1>4. ASSUME NEW what, Left(what)' PROVE Left(what)
  BY <1>2, <1>4 DEF Left
<1>5. GitlinkFirst'
  <2> SUFFICES ASSUME NEW i \in DOMAIN todo', NEW j \in DOMAIN todo',
                      todo'[i] = "gitlink", todo'[j] = "managedHead"
               PROVE  i < j
    BY DEF GitlinkFirst
  <2>1. i + 1 \in DOMAIN todo /\ j + 1 \in DOMAIN todo /\ i \in Nat /\ j \in Nat
    BY <1>2
  <2>2. i + 1 < j + 1
    BY <1>2, <2>1 DEF GitlinkFirst
  <2> QED BY <2>1, <2>2
<1>6. Head(todo) = "managedHead" => ~Left("gitlink")
  BY <1>2 DEF GitlinkFirst, Left
<1>7. Left(Head(todo))
  BY <1>2 DEF Left
<1> QED BY <1>2, <1>3, <1>4, <1>5, <1>6, <1>7

-----------------------------------------------------------------------------
(* Aspects and codes *)

\* What one state of the repositories shows, aspect by aspect: hidden changes count
\* both as right and as wrong.
LEMMA Shown ==
    ASSUME NEW r \in Repositories, NEW snap
    PROVE  /\ RightIn(r, snap) \subseteq Aspects
           /\ WrongIn(r, snap) \subseteq Aspects
           /\ RightIn(r, snap) \cup WrongIn(r, snap) = Aspects
           /\ \A m \in Marks \ r.marks : m \in RightIn(r, snap)
           /\ NoManagedChangeShows(r) => "managedChanges" \in RightIn(r, snap)
           /\ r.marks \subseteq WrongIn(r, snap)
           /\ \A f \in Identity : IF r[f] = snap[f] THEN f \in RightIn(r, snap)
                                                   ELSE f \in WrongIn(r, snap)
           /\ r.gitlink = r.managedHead => "link" \in RightIn(r, snap)
           /\ r.gitlink # r.managedHead => "link" \in WrongIn(r, snap)
           /\ r.managedBranch = Expected => "branchExpected" \in RightIn(r, snap)
           /\ r.managedBranch # Expected => "branchExpected" \in WrongIn(r, snap)
           /\ NothingShows(r) => {"sprintStatus", "link", "sprintChanges"} \subseteq RightIn(r, snap)
           /\ ~SprintClean(r) => "sprintStatus" \in WrongIn(r, snap)
<1> DEFINE R == RightIn(r, snap)
           W == WrongIn(r, snap)
<1>1. r.marks \subseteq Marks
  BY DEF Repositories
<1>2. R \subseteq Aspects /\ W \subseteq Aspects
  BY <1>1 DEF RightIn, WrongIn, Aspects, Marks, Identity
<1>3. /\ \A m \in Marks \ r.marks : m \in R
      /\ NoManagedChangeShows(r) => "managedChanges" \in R
      /\ r.marks \subseteq W
      /\ \A f \in Identity : IF r[f] = snap[f] THEN f \in R ELSE f \in W
      /\ r.managedBranch = Expected => "branchExpected" \in R
      /\ r.managedBranch # Expected => "branchExpected" \in W
      /\ r.gitlink = r.managedHead => "link" \in R
      /\ r.gitlink # r.managedHead => "link" \in W
      /\ NothingShows(r) => "sprintStatus" \in R
      /\ ~SprintClean(r) => "sprintStatus" \in W
  BY DEF RightIn, WrongIn
<1>4. NothingShows(r) => "link" \in R /\ "sprintChanges" \in R
  <2>1. "sprintFlags" \in r.marks => "link" \in R /\ "sprintChanges" \in R
    BY DEF RightIn
  <2>2. "sprintChanges" \in Marks
    BY DEF Marks
  <2> QED BY <1>3, <2>1, <2>2 DEF NothingShows
<1>5. SprintClean(r) => NothingShows(r)
  BY DEF SprintClean, NothingShows, NoManagedChangeShows
<1>6. Aspects \subseteq R \cup W
  BY <1>3, <1>5 DEF Aspects
<1> QED BY <1>2, <1>3, <1>4, <1>6

\* A step that leaves repositories, snapshot and accounts alone, in a check that
\* goes on, leaves Noted alone.
LEMMA PassKeeps ==
    ASSUME IInv, NEW what, Inspecting(what), Pass
    PROVE  /\ todo' \in Seq(Inspections)
           /\ \A a : Left(a) => a = what \/ Left(a)'
           /\ \A a : Left(a)' => Left(a)
           /\ what = "managedHead" => ~Left("gitlink")
           /\ GitlinkFirst'
           /\ TypeOK' /\ Noted' /\ VerifyAccounts' /\ EndsWithVerdict'
           /\ Checking /\ Checking' /\ Left(what)
<1> USE DEF IInv
<1>1. /\ phase # "ended" /\ todo # << >> /\ Head(todo) = what /\ todo' = Tail(todo)
      /\ UNCHANGED <<repo, edits, snapshot, right, wrong, phase, outcome>>
  BY DEF Inspecting, Pass
<1>2. /\ todo' \in Seq(Inspections)
      /\ \A a : Left(a) => a = what \/ Left(a)'
      /\ \A a : Left(a)' => Left(a)
      /\ what = "managedHead" => ~Left("gitlink")
      /\ GitlinkFirst'
      /\ Left(what)
  BY <1>1, OneLess
<1>3. TypeOK'
  BY <1>1, <1>2 DEF TypeOK, Inspections
<1>4. Noted'
  BY <1>1 DEF Noted, Checking
<1>5. VerifyAccounts' /\ EndsWithVerdict'
  BY <1>1 DEF VerifyAccounts, EndsWithVerdict
<1>6. Checking
  BY <1>1 DEF TypeOK, Phases, Checking, EndsWithVerdict
<1> QED BY <1>1, <1>2, <1>3, <1>4, <1>5, <1>6 DEF Checking

\* A refusal is a verdict if it names something that was wrong.
LEMMA FailKeeps ==
    ASSUME IInv, NEW code, Fail(code),
           UNCHANGED <<repo, edits, snapshot, right, wrong>>,
           code \in Codes \ {"none", "placeholder"},
           Blamed(outcome') \cap wrong # {}
    PROVE  IInv'
<1> USE DEF IInv
<1>1. /\ phase' = "ended" /\ todo' = << >> /\ seen' = seen
      /\ outcome' \in Codes \ {"none", "placeholder"}
  BY DEF Fail, Codes
<1>2. TypeOK' /\ SeenTypeOK'
  BY <1>1 DEF TypeOK, SeenTypeOK, Phases
<1>3. Noted' /\ LinkRead' /\ PreflightAccounts' /\ CaptureAccounts' /\ VerifyAccounts'
  BY <1>1 DEF Noted, LinkRead, PreflightAccounts, CaptureAccounts, VerifyAccounts, Checking
<1>4. GitlinkFirst'
  BY <1>1 DEF GitlinkFirst
<1>5. EndsWithVerdict'
  BY <1>1 DEF EndsWithVerdict
<1> QED BY <1>2, <1>3, <1>4, <1>5

\* The check after the probe blames the agent, the preflight names the check.
LEMMA FailsAs ==
    ASSUME NEW code, Fail(code)
    PROVE  outcome' = code \/ (outcome' = "unexpected_agent_repository_change" /\ code \in AgentCodes)
BY DEF Fail

-----------------------------------------------------------------------------
(* The inspections *)

\* An inspection that reads nothing into seen and leaves an aspect right.
LEMMA SeesRight ==
    ASSUME IInv, NEW what \in Aspects \ Identity, Inspecting(what), Pass, UNCHANGED seen,
           what \in RightIn(repo, snapshot),
           what = "sprintStatus" => {"link", "sprintChanges"} \subseteq RightIn(repo, snapshot)
    PROVE  IInv'
<1> USE DEF IInv
<1>1. UNCHANGED <<repo, edits, snapshot, right, wrong, phase, outcome, seen>>
  BY DEF Inspecting, Pass
<1>2. /\ \A a : Left(a) => a = what \/ Left(a)'
      /\ \A a : Left(a)' => Left(a)
      /\ Checking
      /\ TypeOK' /\ Noted' /\ GitlinkFirst' /\ VerifyAccounts' /\ EndsWithVerdict'
  BY PassKeeps
<1>3. RightIn(repo, snapshot) \subseteq right
  BY <1>2 DEF Noted
<1>4. SeenTypeOK'
  BY <1>1 DEF SeenTypeOK
<1>5. what # "gitlink"
  BY DEF Aspects, Marks, Identity
<1>6. LinkRead'
  BY <1>1, <1>2, <1>5 DEF LinkRead, Checking
<1>7. PreflightAccounts'
  BY <1>1, <1>2, <1>3 DEF PreflightAccounts
<1>8. CaptureAccounts'
  BY <1>1, <1>2 DEF CaptureAccounts
<1> QED BY <1>2, <1>4, <1>6, <1>7, <1>8

LEMMA InspectMarkKeeps == ASSUME IInv, NEW m \in DOMAIN CodeOf, InspectMark(m) PROVE IInv'
<1> USE DEF IInv
<1>1. m \in Marks /\ m \in Aspects \ Identity /\ m # "sprintStatus" /\ m # "link"
  BY DEF CodeOf, Marks, Aspects, Identity
<1>2. Inspecting(m)
  BY DEF InspectMark
<1>a. repo \in Repositories
  BY DEF TypeOK
<1>3. CASE Pass /\ UNCHANGED seen
           /\ (m \notin repo.marks \/ (m = "managedChanges" /\ NoManagedChangeShows(repo)))
  <2>1. m \in RightIn(repo, snapshot)
    BY <1>1, <1>3, <1>a, Shown
  <2> QED BY <1>1, <1>2, <1>3, <2>1, SeesRight
<1>4. CASE m \in repo.marks /\ Fail(CodeOf[m])
  <2>1. Fail(CodeOf[m])
    BY <1>4
  <2>2. m \in wrong
    <3>1. Checking
      BY <1>2 DEF Inspecting, TypeOK, Phases, Checking, EndsWithVerdict
    <3>2. m \in WrongIn(repo, snapshot)
      BY <1>4, <1>a, Shown
    <3> QED BY <3>1, <3>2 DEF Noted
  <2>3. CodeOf[m] \in Codes \ {"none", "placeholder"}
    BY DEF CodeOf, Codes
  <2>4. m \in Blamed(outcome')
    <3>1. CASE outcome' = CodeOf[m]
      BY <3>1 DEF CodeOf, Blamed
    <3>2. CASE outcome' = "unexpected_agent_repository_change" /\ CodeOf[m] \in AgentCodes
      <4>1. m \in {"sprintOperation", "managedOperation", "managedFlags", "managedChanges",
                   "sprintFlags"}
        BY <3>2 DEF CodeOf, AgentCodes
      <4> QED BY <3>2, <4>1 DEF Blamed
    <3> QED BY <2>1, <3>1, <3>2, FailsAs
  <2>5. UNCHANGED <<repo, edits, snapshot, right, wrong>>
    BY <1>2 DEF Inspecting
  <2> QED BY <2>1, <2>2, <2>3, <2>4, <2>5, FailKeeps
<1> QED BY <1>3, <1>4 DEF InspectMark

LEMMA InspectBranchKeeps == ASSUME IInv, InspectBranch PROVE IInv'
<1> USE DEF IInv
<1>1. Inspecting("branchExpected")
  BY DEF InspectBranch
<1>2. "branchExpected" \in Aspects \ Identity
  BY DEF Aspects, Marks, Identity
<1>3. CASE repo.managedBranch = Expected
  <2>1. Pass /\ UNCHANGED seen
    BY <1>3 DEF InspectBranch
  <2>2. "branchExpected" \in RightIn(repo, snapshot)
    BY <1>3, Shown DEF TypeOK
  <2> QED BY <1>1, <1>2, <2>1, <2>2, SeesRight
<1>4. CASE repo.managedBranch # Expected
  <2>1. Fail("wrong_branch")
    BY <1>4 DEF InspectBranch
  <2>2. "branchExpected" \in wrong
    <3>1. Checking
      BY <1>1 DEF Inspecting, TypeOK, Phases, Checking, EndsWithVerdict
    <3>2. "branchExpected" \in WrongIn(repo, snapshot)
      BY <1>4, Shown DEF TypeOK
    <3> QED BY <3>1, <3>2 DEF Noted
  <2>3. "branchExpected" \in Blamed(outcome')
    <3>1. CASE outcome' = "wrong_branch" BY <3>1 DEF Blamed
    <3>2. CASE outcome' = "unexpected_agent_repository_change" BY <3>2 DEF Blamed
    <3> QED BY <2>1, <3>1, <3>2, FailsAs
  <2>4. UNCHANGED <<repo, edits, snapshot, right, wrong>>
    BY <1>1 DEF Inspecting
  <2>5. "wrong_branch" \in Codes \ {"none", "placeholder"}
    BY DEF Codes
  <2> QED BY <2>1, <2>2, <2>3, <2>4, <2>5, FailKeeps
<1> QED BY <1>3, <1>4

LEMMA InspectSprintStatusKeeps == ASSUME IInv, InspectSprintStatus PROVE IInv'
<1> USE DEF IInv
<1>1. Inspecting("sprintStatus")
  BY DEF InspectSprintStatus
<1>2. "sprintStatus" \in Aspects \ Identity
  BY DEF Aspects, Marks, Identity
<1>3. CASE NothingShows(repo) /\ Pass /\ UNCHANGED seen
  <2>1. {"sprintStatus", "link", "sprintChanges"} \subseteq RightIn(repo, snapshot)
    BY <1>3, Shown DEF TypeOK
  <2> QED BY <1>1, <1>2, <1>3, <2>1, SeesRight
<1>4. CASE ~SprintClean(repo) /\ Fail("dirty_sprint_repository")
  <2>1. Fail("dirty_sprint_repository")
    BY <1>4
  <2>2. "sprintStatus" \in wrong
    <3>1. Checking
      BY <1>1 DEF Inspecting, TypeOK, Phases, Checking, EndsWithVerdict
    <3>2. "sprintStatus" \in WrongIn(repo, snapshot)
      BY <1>4, Shown DEF TypeOK
    <3> QED BY <3>1, <3>2 DEF Noted
  <2>3. "sprintStatus" \in Blamed(outcome')
    <3>1. CASE outcome' = "dirty_sprint_repository" BY <3>1 DEF Blamed
    <3>2. CASE outcome' = "unexpected_agent_repository_change" BY <3>2 DEF Blamed
    <3> QED BY <2>1, <3>1, <3>2, FailsAs
  <2>4. UNCHANGED <<repo, edits, snapshot, right, wrong>>
    BY <1>1 DEF Inspecting
  <2>5. "dirty_sprint_repository" \in Codes \ {"none", "placeholder"}
    BY DEF Codes
  <2> QED BY <2>1, <2>2, <2>3, <2>4, <2>5, FailKeeps
<1> QED BY <1>3, <1>4 DEF InspectSprintStatus

\* An inspection that reads a field of the snapshot.
LEMMA ReadsField ==
    ASSUME IInv, NEW f \in Identity, Inspecting(f), Pass, seen' = [seen EXCEPT ![f] = repo[f]]
    PROVE  IInv'
<1> USE DEF IInv
<1>1. UNCHANGED <<repo, edits, snapshot, right, wrong, phase, outcome>>
  BY DEF Inspecting, Pass
<1>2. /\ \A a : Left(a) => a = f \/ Left(a)'
      /\ \A a : Left(a)' => Left(a)
      /\ Checking
      /\ TypeOK' /\ Noted' /\ GitlinkFirst' /\ VerifyAccounts' /\ EndsWithVerdict'
  BY PassKeeps
<1>3. /\ RightIn(repo, snapshot) \subseteq right
      /\ WrongIn(repo, snapshot) \subseteq wrong
  BY <1>2 DEF Noted
<1>4. f # "gitlink" /\ f \in Aspects
  BY DEF Aspects, Identity
<1>5. repo[f] \in Domain(f) /\ repo[f] \in Readings
  BY DEF TypeOK, Repositories, Domain, Readings, Identity
<1>6. SeenTypeOK' /\ seen'[f] = repo[f] /\ \A g \in Identity \cup {"gitlink"} : g # f => seen'[g] = seen[g]
  BY <1>5 DEF SeenTypeOK
<1>7. seen'.gitlink = seen.gitlink
  BY <1>4, <1>6
<1>8. LinkRead'
  BY <1>1, <1>2, <1>4, <1>7 DEF LinkRead, Checking
<1>9. PreflightAccounts'
  BY <1>1, <1>2 DEF PreflightAccounts, Identity
<1>10. CaptureAccounts'
  <2> SUFFICES ASSUME phase \in {"capture", "recapture"}, NEW g \in Identity, ~Left(g)'
               PROVE  /\ seen'[g] \in Domain(g)
                      /\ seen'[g] = snapshot[g] => g \in right
                      /\ seen'[g] # snapshot[g] => g \in wrong
    BY <1>1 DEF CaptureAccounts, Domain
  <2>1. CASE g = f
    BY <1>3, <1>4, <1>5, <1>6, <2>1, Shown DEF TypeOK
  <2>2. CASE g # f
    BY <1>2, <1>6, <2>2 DEF CaptureAccounts
  <2> QED BY <2>1, <2>2
<1> QED BY <1>2, <1>6, <1>8, <1>9, <1>10

LEMMA InspectSprintKeeps == ASSUME IInv, InspectSprint PROVE IInv'
<1>1. "sprintHead" \in Identity /\ Inspecting("sprintHead") /\ Pass
      /\ seen' = [seen EXCEPT !["sprintHead"] = repo["sprintHead"]]
  BY DEF InspectSprint, Identity
<1> QED BY <1>1, ReadsField

LEMMA ReadBranchKeeps == ASSUME IInv, NEW f, ReadBranch(f) PROVE IInv'
<1>1. f \in Identity /\ Inspecting(f) /\ Pass /\ seen' = [seen EXCEPT ![f] = repo[f]]
  BY DEF ReadBranch, Identity
<1> QED BY <1>1, ReadsField

LEMMA InspectGitlinkKeeps == ASSUME IInv, InspectGitlink PROVE IInv'
<1> USE DEF IInv
<1>1. Inspecting("gitlink")
  BY DEF InspectGitlink
<1>2. UNCHANGED <<repo, edits, snapshot, right, wrong>>
  BY <1>1 DEF Inspecting
<1>3. Checking
  BY <1>1 DEF Inspecting, TypeOK, Phases, Checking, EndsWithVerdict
<1>5. repo.gitlink # repo.managedHead => "link" \in wrong
  BY <1>3, Shown DEF Noted, TypeOK
<1>6. CASE repo.gitlink = None
  <2>1. Fail("invalid_submodule")
    BY <1>6 DEF InspectGitlink
  <2>2. repo.managedHead # None
    BY GuardAssumption DEF TypeOK, Repositories
  <2>3. outcome' = "invalid_submodule"
    BY <2>1 DEF Fail, AgentCodes
  <2>4. "link" \in Blamed(outcome')
    BY <2>3 DEF Blamed
  <2>5. "invalid_submodule" \in Codes \ {"none", "placeholder"}
    BY DEF Codes
  <2> QED BY <1>2, <1>5, <1>6, <2>1, <2>2, <2>4, <2>5, FailKeeps
<1>7. CASE repo.gitlink # None
  <2>1. Pass /\ seen' = [seen EXCEPT !.gitlink = repo.gitlink]
    BY <1>7 DEF InspectGitlink
  <2>2. /\ \A a : Left(a) => a = "gitlink" \/ Left(a)'
        /\ \A a : Left(a)' => Left(a)
        /\ TypeOK' /\ Noted' /\ GitlinkFirst' /\ VerifyAccounts' /\ EndsWithVerdict'
    BY <1>1, <2>1, PassKeeps
  <2>3. phase' = phase
    BY <2>1 DEF Pass
  <2>4. SeenTypeOK' /\ seen'.gitlink = repo.gitlink /\ \A f \in Identity : seen'[f] = seen[f]
    <3>1. repo.gitlink \in Readings
      BY DEF TypeOK, Repositories, Readings
    <3>2. "gitlink" \notin Identity
      BY DEF Identity
    <3> QED BY <2>1, <3>1, <3>2 DEF SeenTypeOK
  <2>5. LinkRead'
    BY <1>2, <1>5, <2>4 DEF LinkRead
  <2>6. PreflightAccounts'
    <3>1. "gitlink" \notin Aspects
      BY DEF Aspects, Marks, Identity
    <3> QED BY <1>2, <2>2, <2>3, <3>1 DEF PreflightAccounts
  <2>7. CaptureAccounts'
    <3>1. "gitlink" \notin Identity
      BY DEF Identity
    <3> QED BY <1>2, <2>2, <2>3, <2>4, <3>1 DEF CaptureAccounts
  <2> QED BY <2>2, <2>4, <2>5, <2>6, <2>7
<1> QED BY <1>6, <1>7

LEMMA InspectManagedKeeps == ASSUME IInv, InspectManaged PROVE IInv'
<1> USE DEF IInv
<1>1. Inspecting("managedHead")
  BY DEF InspectManaged
<1>2. CASE repo.managedHead # seen.gitlink
  <2>1. Fail("submodule_sha_mismatch")
    BY <1>2 DEF InspectManaged
  <2>2. UNCHANGED <<repo, edits, snapshot, right, wrong>>
    BY <1>1 DEF Inspecting
  <2>3. "link" \in wrong
    <3>1. Checking
      BY <1>1 DEF Inspecting, TypeOK, Phases, Checking, EndsWithVerdict
    <3>2. todo # << >> /\ Head(todo) = "managedHead"
      BY <1>1 DEF Inspecting
    <3>3. Left("managedHead") /\ ~Left("gitlink")
      <4>1. todo \in Seq(Inspections)
        BY DEF TypeOK, Inspections
      <4>2. 1 \in DOMAIN todo /\ todo[1] = "managedHead" /\ \A i \in DOMAIN todo : i >= 1
        BY <3>2, <4>1
      <4>3. \A i \in DOMAIN todo : ~(i < 1)
        BY <4>1, <4>2
      <4> QED BY <4>2, <4>3 DEF Left, GitlinkFirst
    <3> QED BY <1>2, <3>1, <3>3 DEF LinkRead
  <2>4. "link" \in Blamed(outcome')
    <3>1. CASE outcome' = "submodule_sha_mismatch" BY <3>1 DEF Blamed
    <3>2. CASE outcome' = "unexpected_agent_repository_change" BY <3>2 DEF Blamed
    <3> QED BY <2>1, <3>1, <3>2, FailsAs
  <2>5. "submodule_sha_mismatch" \in Codes \ {"none", "placeholder"}
    BY DEF Codes
  <2> QED BY <2>1, <2>2, <2>3, <2>4, <2>5, FailKeeps
<1>3. CASE repo.managedHead = seen.gitlink
  <2>1. Pass /\ seen' = [seen EXCEPT !["managedHead"] = repo["managedHead"]]
    BY <1>3 DEF InspectManaged
  <2>2. "managedHead" \in Identity
    BY DEF Identity
  <2> QED BY <1>1, <2>1, <2>2, ReadsField
<1> QED BY <1>2, <1>3

LEMMA InspectKeeps == ASSUME IInv, Inspect PROVE IInv'
BY InspectMarkKeeps, InspectSprintKeeps, InspectGitlinkKeeps, InspectManagedKeeps, ReadBranchKeeps,
   InspectBranchKeeps, InspectSprintStatusKeeps DEF Inspect

-----------------------------------------------------------------------------
(* The phases and the edits *)

\* A capture that begins takes the repositories as they are.
LEMMA CaptureBegins ==
    ASSUME IInv, Begin(Capture, snapshot),
           UNCHANGED <<repo, edits, snapshot, outcome>>, phase # "ended",
           phase' \in {"capture", "recapture"}
    PROVE  IInv'
<1> USE DEF IInv
<1>1. /\ todo' = Capture /\ seen' = [f \in Identity \cup {"gitlink"} |-> None]
      /\ right' = RightIn(repo, snapshot) /\ wrong' = WrongIn(repo, snapshot)
  BY DEF Begin
<1>2. TypeOK'
  <2>1. /\ RightIn(repo, snapshot) \subseteq Aspects /\ WrongIn(repo, snapshot) \subseteq Aspects
        /\ RightIn(repo, snapshot) \cup WrongIn(repo, snapshot) = Aspects
    BY Shown DEF TypeOK
  <2> QED BY <1>1, <2>1, CaptureInspects DEF TypeOK, Phases, Inspections
<1>3. SeenTypeOK'
  BY <1>1 DEF SeenTypeOK, Readings
<1>4. Noted'
  BY <1>1 DEF Noted
<1>5. GitlinkFirst'
  BY <1>1, CaptureInspects DEF GitlinkFirst
<1>6. LinkRead'
  BY <1>1, CaptureInspects DEF LinkRead, Left
<1>7. PreflightAccounts' /\ VerifyAccounts'
  BY DEF PreflightAccounts, VerifyAccounts
<1>8. CaptureAccounts'
  BY <1>1, CaptureInspects DEF CaptureAccounts, Left
<1>9. EndsWithVerdict'
  BY DEF EndsWithVerdict
<1> QED BY <1>2, <1>3, <1>4, <1>5, <1>6, <1>7, <1>8, <1>9

\* The snapshot is what the capture has read.
LEMMA KeepSnapshotKeeps == ASSUME IInv, KeepSnapshot PROVE IInv'
<1> USE DEF IInv
<1>1. /\ phase = "capture" /\ todo = << >> /\ snapshot' = IdentityOf(seen) /\ phase' = "probe"
      /\ UNCHANGED <<repo, edits, todo, seen, outcome, right, wrong>>
  BY DEF KeepSnapshot
<1>2. \A f \in Identity : seen[f] \in Domain(f)
  BY <1>1 DEF CaptureAccounts, Left
<1>3. snapshot' \in Snapshots
  BY <1>1, <1>2 DEF IdentityOf, Identity, Domain, Snapshots
<1>4. TypeOK' /\ SeenTypeOK'
  BY <1>1, <1>3 DEF TypeOK, SeenTypeOK, Phases
<1>5. Noted' /\ LinkRead' /\ PreflightAccounts' /\ CaptureAccounts' /\ VerifyAccounts'
  BY <1>1 DEF Noted, LinkRead, PreflightAccounts, CaptureAccounts, VerifyAccounts, Checking
<1>6. GitlinkFirst' /\ EndsWithVerdict'
  BY <1>1 DEF GitlinkFirst, EndsWithVerdict
<1> QED BY <1>4, <1>5, <1>6

\* After the comparison every field of the snapshot has been right once; if it
\* fails, one of them has been wrong.
LEMMA CompareKeeps == ASSUME IInv, Compare PROVE IInv'
<1> USE DEF IInv
<1>1. phase = "recapture" /\ todo = << >> /\ UNCHANGED <<repo, edits, snapshot, right, wrong>>
  BY DEF Compare
<1>2. \A f \in Identity : /\ seen[f] = snapshot[f] => f \in right
                          /\ seen[f] # snapshot[f] => f \in wrong
  BY <1>1 DEF CaptureAccounts, Left
<1>3. IdentityOf(seen) = snapshot <=> \A f \in Identity : seen[f] = snapshot[f]
  BY DEF IdentityOf, TypeOK, Snapshots, Identity
<1>4. CASE IdentityOf(seen) # snapshot
  <2>1. Fail("unexpected_agent_repository_change")
    BY <1>4 DEF Compare
  <2>2. PICK f \in Identity : f \in wrong
    BY <1>2, <1>3, <1>4
  <2>3. outcome' = "unexpected_agent_repository_change"
    BY <2>1 DEF Fail
  <2>4. f \in Blamed(outcome')
    BY <2>3 DEF Blamed
  <2>5. "unexpected_agent_repository_change" \in Codes \ {"none", "placeholder"}
    BY DEF Codes
  <2> QED BY <1>1, <2>1, <2>2, <2>4, <2>5, FailKeeps
<1>5. CASE IdentityOf(seen) = snapshot
  <2>1. phase' = "verify" /\ todo' = Preflight /\ UNCHANGED <<seen, outcome>>
    BY <1>5 DEF Compare, Fail
  <2>2. Identity \subseteq right
    BY <1>2, <1>3, <1>5
  <2>3. TypeOK' /\ SeenTypeOK'
    BY <1>1, <2>1, PreflightInspects DEF TypeOK, SeenTypeOK, Phases, Inspections
  <2>4. Noted' /\ VerifyAccounts' /\ CaptureAccounts'
    BY <1>1, <2>1, <2>2 DEF Noted, VerifyAccounts, CaptureAccounts, Checking
  <2>5. GitlinkFirst'
    BY <2>1, PreflightInspects DEF GitlinkFirst
  <2>6. LinkRead'
    BY <2>1, PreflightInspects DEF LinkRead, Left
  <2>7. PreflightAccounts'
    BY <2>1, PreflightInspects DEF PreflightAccounts, Left
  <2>8. EndsWithVerdict'
    BY <1>1, <2>1 DEF EndsWithVerdict
  <2> QED BY <2>3, <2>4, <2>5, <2>6, <2>7, <2>8
<1> QED BY <1>4, <1>5

LEMMA EndProbeKeeps == ASSUME IInv, EndProbe PROVE IInv'
<1> USE DEF IInv
<1>1. /\ phase = "verify" /\ todo = << >> /\ phase' = "ended" /\ outcome' = "placeholder"
      /\ UNCHANGED <<repo, edits, todo, seen, snapshot, right, wrong>>
  BY DEF EndProbe
<1>2. Aspects \subseteq right
  BY <1>1 DEF PreflightAccounts, VerifyAccounts, Left
<1>3. TypeOK' /\ SeenTypeOK'
  BY <1>1 DEF TypeOK, SeenTypeOK, Phases, Codes
<1>4. Noted' /\ LinkRead' /\ PreflightAccounts' /\ CaptureAccounts' /\ VerifyAccounts'
  BY <1>1 DEF Noted, LinkRead, PreflightAccounts, CaptureAccounts, VerifyAccounts, Checking
<1>5. GitlinkFirst' /\ EndsWithVerdict'
  BY <1>1, <1>2 DEF GitlinkFirst, EndsWithVerdict
<1> QED BY <1>3, <1>4, <1>5

\* One edit cannot change the gitlink and the managed HEAD together.
LEMMA OneThingAtATime ==
    ASSUME TypeOK, NEW r \in Edits(repo)
    PROVE  /\ r \in Repositories
           /\ r.gitlink = repo.gitlink \/ r.managedHead = repo.managedHead
<1>1. repo \in Repositories
  BY DEF TypeOK
<1>2. CASE r \in {[repo EXCEPT !.marks = (@ \ {m}) \cup ({m} \ @)] : m \in Marks}
  BY <1>1, <1>2 DEF Repositories
<1>3. CASE r \in {[repo EXCEPT !.sprintHead = c] : c \in SprintCommits}
  BY <1>1, <1>3 DEF Repositories
<1>4. CASE r \in {[repo EXCEPT !.managedHead = c] : c \in ManagedCommits}
  BY <1>1, <1>4 DEF Repositories
<1>5. CASE r \in {[repo EXCEPT !.gitlink = c] : c \in ManagedCommits \cup {None}}
  BY <1>1, <1>5 DEF Repositories
<1>6. CASE r \in {[repo EXCEPT !.sprintBranch = b] : b \in Branches \cup {None}}
  BY <1>1, <1>6 DEF Repositories
<1>7. CASE r \in {[repo EXCEPT !.managedBranch = b] : b \in Branches \cup {None}}
  BY <1>1, <1>7 DEF Repositories
<1> QED BY <1>2, <1>3, <1>4, <1>5, <1>6, <1>7 DEF Edits

\* An edit adds to what was right and to what was wrong.
LEMMA EditKeeps == ASSUME IInv, Edit PROVE IInv'
<1> USE DEF IInv
<1>1. /\ phase # "ended" /\ edits < MaxEdits /\ edits' = edits + 1
      /\ repo' \in Edits(repo)
      /\ right' = right \cup RightIn(repo', snapshot)
      /\ wrong' = wrong \cup WrongIn(repo', snapshot)
      /\ UNCHANGED <<phase, todo, seen, snapshot, outcome>>
  BY DEF Edit
<1>2. repo' \in Repositories /\ (repo'.gitlink = repo.gitlink \/ repo'.managedHead = repo.managedHead)
  BY <1>1, OneThingAtATime
<1>3. RightIn(repo', snapshot) \subseteq Aspects /\ WrongIn(repo', snapshot) \subseteq Aspects
  BY <1>2, Shown
<1>4. edits' \in 0 .. MaxEdits
  BY <1>1, GuardAssumption DEF TypeOK
<1>5. right' \subseteq Aspects /\ wrong' \subseteq Aspects /\ right' \cup wrong' = Aspects
  BY <1>1, <1>3 DEF TypeOK
<1>6. TypeOK' /\ SeenTypeOK'
  BY <1>1, <1>2, <1>4, <1>5 DEF TypeOK, SeenTypeOK
<1>7. Noted'
  BY <1>1 DEF Noted
<1>8. GitlinkFirst'
  BY <1>1 DEF GitlinkFirst
<1>9. LinkRead'
  <2> SUFFICES ASSUME LinkRead, Checking, Left("managedHead"), ~Left("gitlink")
               PROVE  \/ "link" \in wrong'
                      \/ repo'.gitlink = seen.gitlink /\ repo'.managedHead = seen.gitlink
    BY <1>1 DEF LinkRead, Left, Checking
  <2>1. repo'.gitlink # repo'.managedHead => "link" \in wrong'
    BY <1>1, <1>2, Shown
  <2> QED BY <1>1, <1>2, <2>1 DEF LinkRead
<1>10. PreflightAccounts' /\ CaptureAccounts' /\ VerifyAccounts'
  BY <1>1 DEF PreflightAccounts, CaptureAccounts, VerifyAccounts, Left, Domain
<1>11. EndsWithVerdict'
  BY <1>1 DEF EndsWithVerdict
<1> QED BY <1>6, <1>7, <1>8, <1>9, <1>10, <1>11

-----------------------------------------------------------------------------
(* The results *)

LEMMA Initial == Init => IInv
<1> SUFFICES ASSUME Init PROVE IInv
  OBVIOUS
<1>1. /\ repo \in FitRepositories /\ edits = 0 /\ phase = "start" /\ todo = Preflight
      /\ seen = [f \in Identity \cup {"gitlink"} |-> None]
      /\ snapshot = IdentityOf(repo) /\ outcome = "none"
      /\ right = RightIn(repo, snapshot) /\ wrong = WrongIn(repo, snapshot)
  BY DEF Init
<1>2. repo \in Repositories
  BY <1>1 DEF FitRepositories
<1>3. right \subseteq Aspects /\ wrong \subseteq Aspects /\ right \cup wrong = Aspects
  BY <1>1, <1>2, Shown
<1>4. snapshot \in Snapshots
  BY <1>1, <1>2 DEF Repositories, IdentityOf, Identity, Snapshots
<1>5. TypeOK /\ SeenTypeOK
  BY <1>1, <1>2, <1>3, <1>4, PreflightInspects, GuardAssumption
     DEF TypeOK, SeenTypeOK, Phases, Codes, Inspections, Readings
<1>6. Noted
  BY <1>1 DEF Noted
<1>7. GitlinkFirst
  BY <1>1, PreflightInspects DEF GitlinkFirst
<1>8. LinkRead /\ PreflightAccounts
  BY <1>1, PreflightInspects DEF LinkRead, PreflightAccounts, Left
<1>9. CaptureAccounts /\ VerifyAccounts /\ EndsWithVerdict
  BY <1>1 DEF CaptureAccounts, VerifyAccounts, EndsWithVerdict
<1> QED BY <1>5, <1>6, <1>7, <1>8, <1>9 DEF IInv

LEMMA Inductive == Spec => []IInv
<1>1. IInv /\ [Next]_vars => IInv'
  <2> SUFFICES ASSUME IInv, [Next]_vars PROVE IInv'
    OBVIOUS
  <2>1. CASE Inspect BY <2>1, InspectKeeps
  <2>2. CASE StartCapture BY <2>2, CaptureBegins DEF StartCapture
  <2>3. CASE KeepSnapshot BY <2>3, KeepSnapshotKeeps
  <2>4. CASE ProbeEnds BY <2>4, CaptureBegins DEF ProbeEnds
  <2>5. CASE Compare BY <2>5, CompareKeeps
  <2>6. CASE EndProbe BY <2>6, EndProbeKeeps
  <2>7. CASE Edit BY <2>7, EditKeeps
  <2>8. CASE UNCHANGED vars
    BY <2>8 DEF vars, IInv, TypeOK, SeenTypeOK, Noted, GitlinkFirst, LinkRead, PreflightAccounts,
       CaptureAccounts, VerifyAccounts, EndsWithVerdict, Left, Checking
  <2> QED BY <2>1, <2>2, <2>3, <2>4, <2>5, <2>6, <2>7, <2>8 DEF Next, Controller
<1> QED BY <1>1, Initial, PTL DEF Spec

\* Repositories, inspections and verdicts keep their types.
THEOREM TypeCorrect == Spec => []TypeOK
<1>1. IInv => TypeOK
  BY DEF IInv
<1> QED BY <1>1, Inductive, PTL

\* A check that passes saw each thing right at some moment, or a change hidden
\* by index flags set after they were looked for (git.py:102, 103); a refusal
\* names something that was wrong at some moment: whatever is edited between the
\* inspections.
THEOREM VerdictsAreTrue == Spec => []VerdictIsTrue
<1>1. IInv => VerdictIsTrue
  <2> SUFFICES ASSUME IInv PROVE VerdictIsTrue
    OBVIOUS
  <2>1. phase = "start" /\ todo = << >> => Aspects \ Identity \subseteq right
    BY DEF IInv, PreflightAccounts, Left
  <2> QED BY <2>1 DEF IInv, EndsWithVerdict, VerdictIsTrue
<1> QED BY <1>1, Inductive, PTL
=============================================================================
