------------------------- MODULE ArtifactWriteProofs -------------------------
(***************************************************************************)
(* What _atomic_write gives its callers, for any artifacts and contents,   *)
(* any number of calls, failing system calls, deaths and losses of power:  *)
(* a name never leads to part of a file, an acknowledged file is not lost, *)
(* an error tells whether the file is there, and a call is one step with   *)
(* an outcome of ArtifactOutcome.  Then what validate_invocation_records   *)
(* makes of the records while they are written: it accepts nothing that    *)
(* was not acceptable, and refuses nothing that has been all the time.     *)
(***************************************************************************)
EXTENDS RecordReader, FiniteSetTheorems, SequenceTheorems, TLAPS

-----------------------------------------------------------------------------
(* The invariant *)

Entries == {w \in [artifact: Artifacts, value: UNION {Content[a] : a \in Artifacts},
                   whole: BOOLEAN, synced: BOOLEAN] : w.value \in Content[w.artifact]}

CallSet == [replace: BOOLEAN, known: BOOLEAN, installed: BOOLEAN,
            error: {"none", "os", "refused"}]

Typed ==
    /\ level \in 0..2
    /\ target \in [Artifacts -> Calls] /\ temps \subseteq 1..This
    /\ writes \in Seq(Entries) /\ This <= MaxWrites
    /\ pc \in {"idle", "directory", "temporary", "fill", "install", "unlink", "sync", "check",
               "finish", "dead"}
    /\ call \in CallSet
    /\ answer \in {"none", "ok", "installed", "other", "dead"}
    /\ blind \in BOOLEAN
    /\ kept \in [Artifacts -> SUBSET Calls] /\ keptTemps \subseteq 1..This
    /\ before \in [files: FilesSet, answer: Outcome!Answers]
    /\ acked \in [Artifacts -> Calls]
    /\ faults \in 0..MaxFaults /\ powerLosses \in 0..MaxPowerLosses

InCall == pc \notin {"idle", "dead"}
Holds(a) == target[a] = This

\* A write of a that is complete on the disk.
Good(a, n) ==
    /\ n \in 1..This
    /\ writes[n].artifact = a /\ writes[n].whole /\ writes[n].synced

\* What the names lead to, now and after a loss of power.
NamesAreGood ==
    /\ temps # {} => level = 2
    /\ \A a \in Artifacts :
          /\ target[a] # 0 => Good(a, target[a]) /\ level = 2
          /\ \A n \in kept[a] : n # 0 => Good(a, n)
          /\ acked[a] <= This
          /\ level = 2 \/ pc # "dead" => acked[a] <= target[a]
          /\ \A n \in kept[a] : acked[a] <= n

\* What the local variables of _atomic_write know.
CallKnows ==
    InCall =>
        /\ This > 0
        /\ pc \notin {"directory", "finish"} => level = 2
        /\ pc \in {"directory", "temporary", "fill", "install"} =>
              /\ ~call.installed /\ ~Holds(Name) /\ call.error = "none"
              /\ pc # "install" => ~call.known /\ ~writes[This].synced
        /\ pc \in {"directory", "temporary"} => This \notin temps
        /\ pc = "install" => call.known /\ writes[This].whole /\ writes[This].synced
        /\ call.replace => Name = "metadata"
        /\ pc = "unlink" => ~call.replace
        /\ pc \in {"unlink", "sync"} => call.installed /\ call.known /\ call.error = "none"
        /\ pc = "sync" => This \notin temps
        /\ pc = "check" => ~call.installed /\ call.error = "os"
        /\ call.installed => Holds(Name)
        /\ pc = "finish" =>
              /\ call.error = "none" =>
                    /\ call.installed /\ This \notin temps /\ level = 2
                    /\ \A a \in Artifacts : kept[a] = {target[a]}
              /\ call.error = "os" /\ Holds(Name) => call.installed \/ blind
              /\ call.error = "refused" => ~Holds(Name) /\ This \notin temps

AnswersTrue ==
    /\ pc = "idle" => answer # "dead"
    /\ InCall => before.answer # "dead"
    /\ ErrorsTellTheTruth

\* How the directory differs from what it was when the call began.
SinceBegin ==
    InCall =>
        LET f == before.files
            v == writes[This].value IN
        /\ \A b \in Artifacts \ {Name} : f[b] = Value(b) /\ (b \in f.linked <=> target[b] \in temps)
        /\ f.stray <=> \E n \in temps \ {This} : target[writes[n].artifact] # n
        /\ ~Holds(Name) => f[Name] = Value(Name) /\ (Name \in f.linked <=> target[Name] \in temps)
        /\ Holds(Name) \/ This \in temps \/ pc \notin {"directory", "finish"} =>
              MayInstall(f, Name, v) /\ Name \notin f.linked /\ level = 2
        /\ Holds(Name) => IF call.replace THEN This \notin temps ELSE f[Name] = NoFiles[Name]
        /\ pc \in {"temporary", "fill", "install"} /\ ~call.replace => target[Name] = 0
        /\ pc = "directory" => (call.replace <=> Name = "metadata" /\ target[Name] # 0)
        /\ pc = "finish" /\ call.error = "refused" => ~MayInstall(f, Name, v)
        /\ f.dir => level > 0
        /\ ~MayInstall(f, Name, v) => f.dir

IInv == Typed /\ NamesAreGood /\ CallKnows /\ AnswersTrue /\ SinceBegin

-----------------------------------------------------------------------------
(* Values *)

LEMMA ContentTypes ==
    /\ \A v \in Content["metadata"] : v \in Metadata /\ LifecycleValid(v)
    /\ \A v \in Content["prompt"] : v = TRUE
    /\ \A v \in Content["transcript"] : v = TRUE
    /\ \A v \in Content["result"] : v \in Results
BY WriteAssumption

LEMMA NoFilesTypes ==
    /\ NoFiles.metadata \in Metadata /\ NoFiles.prompt = FALSE /\ NoFiles.transcript = FALSE
    /\ NoFiles.result = "none" /\ "none" \notin Results
BY DEF NoFiles, NoMetadata, Metadata, Results

LEMMA EntryTypes ==
    ASSUME Typed, NEW n \in 1..This
    PROVE  /\ This \in Nat /\ writes[n] \in Entries /\ writes[n].artifact \in Artifacts
           /\ writes[n].value \in Content[writes[n].artifact]
BY DEF Typed, Entries, This

LEMMA ValueTypes ==
    ASSUME Typed, NamesAreGood, NEW a \in Artifacts
    PROVE  IF target[a] = 0 THEN Value(a) = NoFiles[a]
                            ELSE /\ target[a] \in 1..This /\ writes[target[a]].artifact = a
                                 /\ Value(a) = writes[target[a]].value /\ Value(a) \in Content[a]
<1>1. CASE target[a] # 0
  <2>1. target[a] \in 1..This /\ writes[target[a]].artifact = a
    BY <1>1 DEF NamesAreGood, Good
  <2> QED BY <1>1, <2>1, EntryTypes DEF Value
<1> QED BY <1>1 DEF Value

\* A name leads to nothing exactly when the artifact has the value of none,
\* unless it is the metadata.
LEMMA ValuesTell ==
    ASSUME Typed, NamesAreGood, NEW a \in Artifacts, a # "metadata"
    PROVE  Value(a) = NoFiles[a] <=> target[a] = 0
<1>1. a \in {"prompt", "result", "transcript"}
  BY DEF Artifacts, Immutable
<1> QED BY <1>1, ValueTypes, ContentTypes, NoFilesTypes

LEMMA ViewType ==
    ASSUME Typed, NamesAreGood
    PROVE  View \in FilesSet
<1>1. Value("metadata") \in Metadata
  BY ValueTypes, ContentTypes, NoFilesTypes DEF Artifacts, Immutable
<1>2. Value("prompt") \in BOOLEAN /\ Value("transcript") \in BOOLEAN
  BY ValueTypes, ContentTypes, NoFilesTypes DEF Artifacts, Immutable
<1>3. Value("result") \in {"none"} \cup Results
  BY ValueTypes, ContentTypes, NoFilesTypes DEF Artifacts, Immutable
<1>4. (level > 0) \in BOOLEAN /\ {a \in Artifacts : target[a] \in temps} \in SUBSET Artifacts
      /\ (\E n \in temps : target[writes[n].artifact] # n) \in BOOLEAN
  OBVIOUS
<1> QED BY <1>1, <1>2, <1>3, <1>4 DEF View, FilesSet

\* What the call itself is about.
LEMMA ThisWrite ==
    ASSUME Typed, This > 0
    PROVE  /\ This \in 1..This /\ This \in Nat /\ Name \in Artifacts
           /\ writes[This].value \in Content[Name]
<1>1. This \in Nat
  BY DEF Typed, This
<1>2. This \in 1..This
  BY <1>1
<1> QED BY <1>1, <1>2, EntryTypes DEF Name

\* Only one name leads to a write.
LEMMA OneName ==
    ASSUME Typed, NamesAreGood, NEW a \in Artifacts, target[a] # 0, NEW b \in Artifacts,
           target[b] = target[a]
    PROVE  a = b
BY DEF NamesAreGood, Good

\* The number of links tells whether the temporary name is there.
LEMMA LinkCount ==
    ASSUME Typed, NamesAreGood, NEW a \in Artifacts, target[a] # 0
    PROVE  Links(target[a]) = 1 <=> target[a] \notin temps
<1>1. {b \in Artifacts : target[b] = target[a]} = {a}
  BY OneName
<1>2. Cardinality({a}) = 1
  BY FS_Singleton
<1>3. Cardinality({b \in Artifacts : target[b] = target[a]}) = 1
  BY <1>1, <1>2
<1> QED BY <1>3 DEF Links

LEMMA FaultEffect ==
    ASSUME Typed, NEW c \in CallSet, Fault(c)
    PROVE  /\ faults' \in 0..MaxFaults
           /\ call' \in CallSet /\ call'.error = "os" /\ call'.replace = c.replace
           /\ call'.known = c.known /\ call'.installed = c.installed
           /\ pc' = IF c.known /\ ~c.installed THEN "check" ELSE "finish"
<1>1. faults' \in 0..MaxFaults
  BY WriteAssumption DEF Fault, Typed
<1>2. call' = [c EXCEPT !.error = "os"]
  BY DEF Fault, Goto
<1>3. pc' = IF c.known /\ ~c.installed THEN "check" ELSE "finish"
  BY DEF Fault, Goto
<1> QED BY <1>1, <1>2, <1>3 DEF CallSet

-----------------------------------------------------------------------------
(* What the steps of a call have in common *)

\* The writes keep what they are and whether they are good.
SameWrites ==
    /\ Len(writes') = Len(writes)
    /\ \A n \in 1..This : /\ writes'[n].artifact = writes[n].artifact
                          /\ writes'[n].value = writes[n].value
                          /\ writes[n].whole /\ writes[n].synced =>
                                 writes'[n].whole /\ writes'[n].synced

LEMMA UnchangedWrites == ASSUME UNCHANGED writes PROVE SameWrites
BY DEF SameWrites, This

LEMMA SameGood ==
    ASSUME SameWrites
    PROVE  /\ This' = This
           /\ \A a, n : Good(a, n) => Good(a, n)'
BY DEF SameWrites, Good, This

LEMMA SameName ==
    ASSUME SameWrites, Typed, This > 0
    PROVE  Name' = Name /\ This' = This /\ writes'[This].value = writes[This].value
BY ThisWrite DEF SameWrites, Name, This

LEMMA NamesStay ==
    ASSUME Typed, NamesAreGood, SameWrites, UNCHANGED <<target, acked, kept>>,
           level' \in level..2, temps' # {} => level' = 2,
           pc # "dead" \/ UNCHANGED <<pc, level>>
    PROVE  NamesAreGood'
<1>1. /\ This' = This
      /\ \A a, n : Good(a, n) => Good(a, n)'
  BY SameGood
<1>2. level = 2 => level' = 2
  BY DEF Typed
<1> QED BY <1>1, <1>2 DEF NamesAreGood

\* The value of a name is that of the write it leads to.
LEMMA ValueStays ==
    ASSUME Typed, NamesAreGood, SameWrites, NEW a \in Artifacts, target'[a] = target[a]
    PROVE  Value(a)' = Value(a)
<1>1. CASE target[a] = 0 BY <1>1 DEF Value
<1>2. CASE target[a] # 0
  <2>1. target[a] \in 1..This
    BY <1>2, ValueTypes
  <2> QED BY <1>2, <2>1 DEF Value, SameWrites
<1> QED BY <1>1, <1>2

\* Of the names, only that of the artifact can lead to the write in progress.
LEMMA OtherNames ==
    ASSUME Typed, NamesAreGood, This > 0, NEW b \in Artifacts, Holds(b)
    PROVE  b = Name
BY DEF NamesAreGood, Good, Holds, Name

\* A step of a call that leaves the names and all temporary names but its own.
LEMMA SinceStays ==
    ASSUME IInv, InCall, InCall', SameWrites, UNCHANGED <<target, before>>,
           temps' \ {This} = temps \ {This}, level' \in level..2,
           call'.replace = call.replace, pc' # "directory",
           Holds(Name) \/ This \in temps' \/ pc' # "finish" =>
               /\ MayInstall(before.files, Name, writes[This].value)
               /\ Name \notin before.files.linked /\ level' = 2,
           Holds(Name) /\ call.replace => This \notin temps',
           pc' \in {"temporary", "fill", "install"} /\ ~call.replace => target[Name] = 0,
           pc' = "finish" /\ call'.error = "refused" =>
               ~MayInstall(before.files, Name, writes[This].value)
    PROVE  SinceBegin'
<1> DEFINE f == before.files
           v == writes[This].value
<1>1. Typed /\ NamesAreGood /\ This > 0 /\ SinceBegin
  BY DEF IInv, CallKnows
<1>2. Name' = Name /\ This' = This /\ v' = v /\ f' = f /\ Name \in Artifacts
  BY <1>1, SameName, ThisWrite
<1>3. \A b \in Artifacts : Value(b)' = Value(b)
  BY <1>1, ValueStays
<1>4. \A b \in Artifacts : Holds(b)' <=> Holds(b)
  BY <1>2 DEF Holds
<1>5. ASSUME NEW b \in Artifacts, ~Holds(b)
      PROVE  target'[b] \in temps' <=> target[b] \in temps
  BY <1>5 DEF Holds
<1>6. ASSUME NEW b \in Artifacts \ {Name} PROVE ~Holds(b)
  BY <1>1, OtherNames
<1>7. temps \subseteq 1..This
  BY <1>1 DEF Typed
<1>8. \A n \in temps \ {This} : writes'[n].artifact = writes[n].artifact
  BY <1>7 DEF SameWrites
<1>9. (\E n \in temps \ {This} : target[writes[n].artifact] # n)
      <=> (\E n \in temps' \ {This'} : target'[writes'[n].artifact] # n)
  BY <1>2, <1>8
<1>10. MayInstall(f, Name, v)' <=> MayInstall(f, Name, v)
  BY <1>2 DEF MayInstall, LifecycleValid
<1>11. level > 0 => level' > 0
  BY <1>1 DEF Typed
<1>12. /\ \A b \in Artifacts \ {Name} :
             f[b] = Value(b) /\ (b \in f.linked <=> target[b] \in temps)
       /\ f.stray <=> \E n \in temps \ {This} : target[writes[n].artifact] # n
       /\ ~Holds(Name) => f[Name] = Value(Name) /\ (Name \in f.linked <=> target[Name] \in temps)
       /\ Holds(Name) => call.replace \/ f[Name] = NoFiles[Name]
       /\ f.dir => level > 0
       /\ ~MayInstall(f, Name, v) => f.dir
  BY <1>1 DEF SinceBegin
<1>13. \A b \in (Artifacts \ {Name})' :
           f'[b] = Value(b)' /\ (b \in f'.linked <=> target'[b] \in temps')
  BY <1>2, <1>3, <1>5, <1>6, <1>12
<1>14. f'.stray <=> \E n \in temps' \ {This'} : target'[writes'[n].artifact] # n
  BY <1>2, <1>9, <1>12
<1>15. ~Holds(Name)' =>
           f'[Name'] = Value(Name)' /\ (Name' \in f'.linked <=> target'[Name'] \in temps')
  BY <1>2, <1>3, <1>4, <1>5, <1>12
<1>16. Holds(Name)' \/ This' \in temps' \/ pc' \notin {"directory", "finish"} =>
           MayInstall(f, Name, v)' /\ Name' \notin f'.linked /\ level' = 2
  BY <1>2, <1>4, <1>10
<1>17. Holds(Name)' => IF call'.replace THEN This' \notin temps' ELSE f'[Name'] = NoFiles[Name']
  BY <1>2, <1>4, <1>12
<1>18. pc' \in {"temporary", "fill", "install"} /\ ~call'.replace => target'[Name'] = 0
  BY <1>2
<1>19. (f'.dir => level' > 0) /\ (~MayInstall(f, Name, v)' => f'.dir)
  BY <1>2, <1>10, <1>11, <1>12
<1>20. pc' = "finish" /\ call'.error = "refused" => ~MayInstall(f, Name, v)'
  BY <1>10
<1> QED BY <1>13, <1>14, <1>15, <1>16, <1>17, <1>18, <1>19, <1>20 DEF SinceBegin

-----------------------------------------------------------------------------
(* The steps of a call *)

LEMMA CallStays ==
    ASSUME IInv, InCall, InCall', UNCHANGED before
    PROVE  AnswersTrue'
BY DEF IInv, AnswersTrue, InCall, ErrorsTellTheTruth

\* What a refused destination means.
LEMMA RefusalIsRight ==
    ASSUME IInv, pc = "directory", target[Name] # 0
    PROVE  /\ ~call.replace => Name # "metadata" /\ before.files[Name] # NoFiles[Name]
           /\ call.replace =>
                 /\ Name = "metadata"
                 /\ Links(target[Name]) # 1 <=> Name \in before.files.linked
<1>1. Typed /\ NamesAreGood /\ InCall /\ This > 0 /\ ~Holds(Name) /\ SinceBegin
  BY DEF IInv, CallKnows, InCall
<1>2. Name \in Artifacts
  BY <1>1, ThisWrite
<1>3. /\ call.replace <=> Name = "metadata"
      /\ before.files[Name] = Value(Name)
      /\ Name \in before.files.linked <=> target[Name] \in temps
  BY <1>1 DEF SinceBegin
<1>4. Name # "metadata" => Value(Name) # NoFiles[Name]
  BY <1>1, <1>2, ValuesTell
<1>5. Links(target[Name]) = 1 <=> target[Name] \notin temps
  BY <1>1, <1>2, LinkCount
<1> QED BY <1>3, <1>4, <1>5

LEMMA OpenDirectoryStep ==
    ASSUME IInv, OpenDirectory
    PROVE  IInv'
<1> DEFINE f == before.files
           v == writes[This].value
<1>1. /\ Typed /\ NamesAreGood /\ CallKnows /\ SinceBegin /\ InCall
      /\ pc = "directory" /\ This > 0 /\ ~Holds(Name)
      /\ ~call.installed /\ call.error = "none" /\ ~call.known /\ This \notin temps
      /\ call \in CallSet /\ level \in 0..2
  BY DEF IInv, OpenDirectory, InCall, CallKnows, Typed
<1>2. /\ This \in 1..This /\ This \in Nat /\ Name \in Artifacts /\ v \in Content[Name]
      /\ target[Name] \in Calls
  BY <1>1, ThisWrite DEF Typed
<1>3. SameWrites /\ Name' = Name /\ This' = This /\ v' = v
      /\ UNCHANGED <<target, temps, writes, answer, blind, before, kept, keptTemps, acked,
                     powerLosses>>
  BY <1>1, UnchangedWrites, SameName DEF OpenDirectory, durable
<1>4. \/ /\ level' = 2 /\ faults' = faults
         /\ target[Name] # 0 /\ (~call.replace \/ Links(target[Name]) # 1)
         /\ pc' = "finish" /\ call' = [call EXCEPT !.error = "refused"]
      \/ /\ level' = 2 /\ faults' = faults /\ pc' = "temporary" /\ call' = call
         /\ target[Name] = 0 \/ (call.replace /\ Links(target[Name]) = 1)
      \/ /\ level' \in level..2 /\ faults' \in 0..MaxFaults /\ pc' = "finish"
         /\ call' \in CallSet /\ call'.error = "os" /\ call'.replace = call.replace
         /\ ~call'.installed
  BY <1>1, FaultEffect DEF OpenDirectory, Destination, Goto
<1>5. /\ call' \in CallSet /\ call'.replace = call.replace /\ ~call'.installed
      /\ call'.error = "none" => pc' = "temporary" /\ call' = call
      /\ pc' \in {"temporary", "finish"} /\ level' \in level..2
      /\ pc' = "temporary" => level' = 2 /\ call' = call
      /\ faults' \in 0..MaxFaults
  BY <1>1, <1>4 DEF CallSet, Typed
<1>6. Typed'
  BY <1>1, <1>3, <1>5 DEF Typed
<1>7. NamesAreGood'
  BY <1>1, <1>3, <1>5, NamesStay DEF NamesAreGood
<1>8. CallKnows'
  <2>1. ~writes[This].synced /\ (call.replace => Name = "metadata")
    BY <1>1 DEF CallKnows
  <2>2. pc' = "finish" => call'.error # "none" /\ ~Holds(Name) /\ This \notin temps
    BY <1>1, <1>5
  <2>3. CASE pc' = "temporary" BY <1>1, <1>3, <1>5, <2>1, <2>3 DEF CallKnows, Holds
  <2>4. CASE pc' = "finish" BY <1>1, <1>3, <1>5, <2>1, <2>2, <2>4 DEF CallKnows, Holds
  <2> QED BY <1>5, <2>3, <2>4
<1>9. InCall'
  BY <1>5 DEF InCall
<1>10. pc' = "temporary" => MayInstall(f, Name, v) /\ Name \notin f.linked
  <2> SUFFICES ASSUME pc' = "temporary" PROVE MayInstall(f, Name, v) /\ Name \notin f.linked
    OBVIOUS
  <2>1. f[Name] = Value(Name) /\ (Name \in f.linked <=> target[Name] \in temps)
    BY <1>1 DEF SinceBegin
  <2>2. CASE target[Name] = 0
    <3>1. f[Name] = NoFiles[Name]
      BY <1>2, <2>1, <2>2 DEF Value
    <3>2. Name \notin f.linked
      BY <1>1, <2>1, <2>2 DEF Typed
    <3>3. Name = "metadata" => LifecycleValid(v)
      BY <1>2, ContentTypes
    <3> QED BY <3>1, <3>2, <3>3 DEF MayInstall
  <2>3. CASE target[Name] # 0
    <3>1. call.replace /\ Links(target[Name]) = 1
      BY <1>4, <2>3
    <3>2. Name = "metadata" /\ Name \notin f.linked
      BY <1>1, <2>3, <3>1, RefusalIsRight
    <3> QED BY <1>2, <3>2, ContentTypes DEF MayInstall
  <2> QED BY <2>2, <2>3
<1>11. pc' = "temporary" /\ ~call.replace => target[Name] = 0
  BY <1>4
<1>12. SinceBegin'
  <2>1. call'.error = "refused" => ~MayInstall(f, Name, v)
    <3>1. call'.error = "refused" =>
              target[Name] # 0 /\ (~call.replace \/ Links(target[Name]) # 1)
      BY <1>1, <1>4 DEF CallSet
    <3> QED BY <1>1, <3>1, RefusalIsRight DEF MayInstall
  <2> QED BY <1>1, <1>3, <1>5, <1>9, <1>10, <1>11, <2>1, SinceStays
<1>13. AnswersTrue'
  BY <1>1, <1>3, <1>9, CallStays
<1> QED BY <1>6, <1>7, <1>8, <1>12, <1>13 DEF IInv

LEMMA OpenTemporaryStep ==
    ASSUME IInv, OpenTemporary
    PROVE  IInv'
<1>1. /\ Typed /\ NamesAreGood /\ CallKnows /\ SinceBegin /\ InCall
      /\ pc = "temporary" /\ This > 0 /\ ~Holds(Name) /\ level = 2
      /\ ~call.installed /\ call.error = "none" /\ ~call.known /\ This \notin temps
      /\ call \in CallSet /\ (call.replace => Name = "metadata") /\ ~writes[This].synced
  BY DEF IInv, OpenTemporary, InCall, CallKnows, Typed
<1>2. /\ This \in 1..This /\ Name \in Artifacts
  BY <1>1, ThisWrite
<1>3. SameWrites /\ Name' = Name /\ This' = This
      /\ UNCHANGED <<level, target, writes, answer, blind, before, kept, acked, powerLosses>>
  BY <1>1, UnchangedWrites, SameName DEF OpenTemporary
<1>4. /\ temps' \in {temps, temps \cup {This}} /\ keptTemps' = keptTemps \cup temps'
      /\ faults' \in 0..MaxFaults
      /\ call' \in CallSet /\ call'.replace = call.replace /\ ~call'.installed /\ ~call'.known
      /\ \/ pc' = "fill" /\ call'.error = "none"
         \/ pc' = "finish" /\ call'.error = "os"
  BY <1>1, FaultEffect DEF OpenTemporary, Goto, Typed
<1>5. Typed'
  BY <1>1, <1>2, <1>3, <1>4 DEF Typed
<1>6. NamesAreGood'
  BY <1>1, <1>3, NamesStay, <1>5 DEF NamesAreGood
<1>7. CallKnows'
  BY <1>1, <1>3, <1>4 DEF CallKnows, Holds
<1>8. InCall'
  BY <1>4 DEF InCall
<1>9. /\ MayInstall(before.files, Name, writes[This].value)
      /\ Name \notin before.files.linked
      /\ ~call.replace => target[Name] = 0
  BY <1>1 DEF SinceBegin
<1>10. SinceBegin'
  BY <1>1, <1>3, <1>4, <1>8, <1>9, SinceStays
<1>11. AnswersTrue'
  BY <1>1, <1>3, <1>8, CallStays
<1> QED BY <1>5, <1>6, <1>7, <1>10, <1>11 DEF IInv

LEMMA FillStep ==
    ASSUME IInv, Fill
    PROVE  IInv'
<1>1. /\ Typed /\ NamesAreGood /\ CallKnows /\ SinceBegin /\ InCall
      /\ pc = "fill" /\ This > 0 /\ ~Holds(Name) /\ level = 2 /\ ~call.installed
      /\ call \in CallSet /\ (call.replace => Name = "metadata") /\ ~writes[This].synced
      /\ writes \in Seq(Entries) /\ This \in Nat
  BY ThisWrite DEF IInv, Fill, InCall, CallKnows, Typed
<1>2. /\ This \in 1..This /\ Name \in Artifacts /\ writes[This] \in Entries
  BY <1>1, ThisWrite, EntryTypes
<1>3. PICK whole \in BOOLEAN, synced \in BOOLEAN :
          /\ writes' = [writes EXCEPT ![This] = [@ EXCEPT !.whole = whole, !.synced = synced]]
          /\ pc' = "install" => whole /\ synced
  <2>1. CASE /\ writes' = [writes EXCEPT ![This].whole = TRUE, ![This].synced = TRUE]
             /\ pc' = "install"
    <3>1. writes' = [writes EXCEPT ![This] = [@ EXCEPT !.whole = TRUE, !.synced = TRUE]]
      BY <2>1
    <3> QED BY <3>1
  <2>2. CASE /\ \E whole \in BOOLEAN : writes' = [writes EXCEPT ![This].whole = whole]
             /\ \E known \in BOOLEAN : Fault([call EXCEPT !.known = known])
    <3>1. PICK whole \in BOOLEAN : writes' = [writes EXCEPT ![This].whole = whole]
      BY <2>2
    <3>2. writes' = [writes EXCEPT ![This] = [@ EXCEPT !.whole = whole, !.synced = FALSE]]
      BY <1>1, <1>2, <3>1 DEF Entries
    <3>3. pc' # "install"
      BY <2>2 DEF Fault, Goto
    <3> QED BY <3>2, <3>3
  <2> QED BY <2>1, <2>2 DEF Fill, Goto
<1>4. /\ UNCHANGED <<level, target, temps, answer, blind, before, kept, keptTemps, acked,
                     powerLosses>>
      /\ call' \in CallSet /\ call'.replace = call.replace /\ ~call'.installed
      /\ faults' \in 0..MaxFaults
      /\ \/ pc' = "install" /\ call'.error = "none" /\ call'.known
         \/ pc' = "check" /\ call'.error = "os"
         \/ pc' = "finish" /\ call'.error = "os"
  <2>1. UNCHANGED <<level, target, temps, answer, blind, before, kept, keptTemps, acked,
                    powerLosses>>
    BY DEF Fill, disk, durable
  <2>2. CASE Goto("install", [call EXCEPT !.known = TRUE]) /\ UNCHANGED faults
    BY <1>1, <2>1, <2>2 DEF Goto, CallSet, IInv, CallKnows, InCall, Typed
  <2>3. CASE \E known \in BOOLEAN : Fault([call EXCEPT !.known = known])
    <3>1. PICK known \in BOOLEAN : Fault([call EXCEPT !.known = known])
      BY <2>3
    <3>2. [call EXCEPT !.known = known] \in CallSet
      BY <1>1 DEF CallSet
    <3> DEFINE c == [call EXCEPT !.known = known]
    <3>3. c.replace = call.replace /\ c.installed = call.installed
      BY <1>1 DEF CallSet
    <3> HIDE DEF c
    <3>4. Fault(c) /\ c \in CallSet
      BY <3>1, <3>2 DEF c
    <3> QED BY <1>1, <2>1, <3>3, <3>4, FaultEffect
  <2> QED BY <2>1, <2>2, <2>3 DEF Fill
<1>5. /\ Len(writes') = Len(writes) /\ writes' \in Seq(Entries)
      /\ \A n \in 1..This : n # This => writes'[n] = writes[n]
      /\ writes'[This] = [writes[This] EXCEPT !.whole = whole, !.synced = synced]
  <2>1. [writes[This] EXCEPT !.whole = whole, !.synced = synced] \in Entries
    BY <1>2 DEF Entries
  <2> DEFINE e == [writes[This] EXCEPT !.whole = whole, !.synced = synced]
  <2> HIDE DEF e
  <2>2. e \in Entries /\ writes' = [writes EXCEPT ![This] = e]
    BY <1>3, <2>1 DEF e
  <2>3. Len(writes') = Len(writes) /\ writes' \in Seq(Entries)
    BY <1>1, <1>2, <2>2, ExceptSeq DEF This
  <2>4. writes'[This] = e /\ \A n \in 1..This : n # This => writes'[n] = writes[n]
    BY <1>1, <1>2, <2>2 DEF This
  <2> QED BY <2>3, <2>4 DEF e
<1>6. SameWrites
  BY <1>1, <1>2, <1>5 DEF SameWrites, Entries
<1>7. Name' = Name /\ This' = This
  BY <1>1, <1>6, SameName
<1>8. Typed'
  BY <1>1, <1>4, <1>5, <1>7 DEF Typed
<1>9. NamesAreGood'
  BY <1>1, <1>4, <1>6, NamesStay DEF NamesAreGood
<1>10. pc' = "install" => writes'[This].whole /\ writes'[This].synced
  BY <1>2, <1>3, <1>5 DEF Entries
<1>11. CallKnows'
  BY <1>1, <1>4, <1>7, <1>10 DEF CallKnows, Holds
<1>12. InCall'
  BY <1>4 DEF InCall
<1>13. /\ MayInstall(before.files, Name, writes[This].value)
       /\ Name \notin before.files.linked
       /\ ~call.replace => target[Name] = 0
  BY <1>1 DEF SinceBegin
<1>14. SinceBegin'
  BY <1>1, <1>4, <1>6, <1>7, <1>12, <1>13, SinceStays
<1>15. AnswersTrue'
  BY <1>1, <1>4, <1>12, CallStays
<1> QED BY <1>8, <1>9, <1>11, <1>14, <1>15 DEF IInv

LEMMA UnlinkStep ==
    ASSUME IInv, UnlinkTemporary
    PROVE  IInv'
<1>1. /\ Typed /\ NamesAreGood /\ CallKnows /\ SinceBegin /\ InCall
      /\ pc = "unlink" /\ This > 0 /\ Holds(Name) /\ level = 2
      /\ call.installed /\ call.known /\ call.error = "none" /\ ~call.replace
      /\ call \in CallSet
  BY DEF IInv, UnlinkTemporary, InCall, CallKnows, Typed
<1>2. /\ This \in 1..This /\ Name \in Artifacts
  BY <1>1, ThisWrite
<1>3. SameWrites /\ Name' = Name /\ This' = This
      /\ UNCHANGED <<level, target, writes, answer, blind, before, kept, keptTemps, acked,
                     powerLosses>>
  BY <1>1, UnchangedWrites, SameName DEF UnlinkTemporary, durable
<1>4. /\ temps' \in {temps, temps \ {This}}
      /\ faults' \in 0..MaxFaults
      /\ call' \in CallSet /\ call'.replace = call.replace /\ call'.installed /\ call'.known
      /\ \/ pc' = "sync" /\ call'.error = "none" /\ This \notin temps'
         \/ pc' = "finish" /\ call'.error = "os"
  BY <1>1, FaultEffect DEF UnlinkTemporary, Goto, Typed
<1>5. Typed'
  BY <1>1, <1>2, <1>3, <1>4 DEF Typed
<1>6. NamesAreGood'
  BY <1>1, <1>3, NamesStay, <1>5 DEF NamesAreGood
<1>7. CallKnows'
  BY <1>1, <1>3, <1>4 DEF CallKnows, Holds
<1>8. InCall'
  BY <1>4 DEF InCall
<1>9. /\ MayInstall(before.files, Name, writes[This].value)
      /\ Name \notin before.files.linked
  BY <1>1 DEF SinceBegin
<1>10. SinceBegin'
  BY <1>1, <1>3, <1>4, <1>8, <1>9, SinceStays
<1>11. AnswersTrue'
  BY <1>1, <1>3, <1>8, CallStays
<1> QED BY <1>5, <1>6, <1>7, <1>10, <1>11 DEF IInv

LEMMA SyncStep ==
    ASSUME IInv, SyncDirectory
    PROVE  IInv'
<1>1. /\ Typed /\ NamesAreGood /\ CallKnows /\ SinceBegin /\ InCall
      /\ pc = "sync" /\ This > 0 /\ Holds(Name) /\ level = 2 /\ This \notin temps
      /\ call.installed /\ call.known /\ call.error = "none"
      /\ (call.replace => Name = "metadata")
      /\ call \in CallSet
  BY DEF IInv, SyncDirectory, InCall, CallKnows, Typed
<1>2. /\ This \in 1..This /\ Name \in Artifacts
  BY <1>1, ThisWrite
<1>3. SameWrites /\ Name' = Name /\ This' = This
      /\ UNCHANGED <<level, target, temps, writes, answer, blind, before, acked, powerLosses>>
  BY <1>1, UnchangedWrites, SameName DEF SyncDirectory, disk
<1>4. /\ Settle \/ UNCHANGED durable
      /\ faults' \in 0..MaxFaults
      /\ call' \in CallSet /\ call'.replace = call.replace /\ call'.installed /\ call'.known
      /\ pc' = "finish"
      /\ (call'.error = "none" /\ Settle) \/ call'.error = "os"
  BY <1>1, FaultEffect DEF SyncDirectory, Goto, Typed
<1>5. Typed'
  <2>1. kept' \in [Artifacts -> SUBSET Calls] /\ keptTemps' \subseteq 1..This
    <3>1. CASE Settle
      <4>1. \A a \in Artifacts : target[a] \in Calls
        BY <1>1 DEF Typed
      <4>2. kept' = [a \in Artifacts |-> {target[a]}] /\ keptTemps' = temps
        BY <3>1 DEF Settle
      <4> QED BY <1>1, <4>1, <4>2 DEF Typed
    <3>2. CASE UNCHANGED durable BY <1>1, <3>2 DEF Typed, durable
    <3> QED BY <1>4, <3>1, <3>2
  <2> QED BY <1>1, <1>3, <1>4, <2>1 DEF Typed
<1>6. NamesAreGood'
  <2>1. \A a \in Artifacts : \A n \in kept'[a] : n = target[a] \/ n \in kept[a]
    BY <1>4 DEF Settle, durable
  <2>2. \A a, n : Good(a, n) => Good(a, n)'
    BY <1>3, SameGood
  <2>3. \A a \in Artifacts : acked[a] <= target[a]
    BY <1>1 DEF NamesAreGood
  <2>4. temps' = temps /\ level' = level /\ target' = target /\ acked' = acked
    BY <1>3
  <2> QED BY <1>1, <1>3, <2>1, <2>2, <2>3, <2>4 DEF NamesAreGood
<1>7. CallKnows'
  <2>1. call'.error = "none" => \A a \in Artifacts : kept'[a] = {target'[a]}
    BY <1>3, <1>4 DEF Settle
  <2> QED BY <1>1, <1>3, <1>4, <2>1 DEF CallKnows, Holds
<1>8. InCall'
  BY <1>4 DEF InCall
<1>9. /\ MayInstall(before.files, Name, writes[This].value)
      /\ Name \notin before.files.linked
  BY <1>1 DEF SinceBegin
<1>10. SinceBegin'
  BY <1>1, <1>3, <1>4, <1>8, <1>9, SinceStays
<1>11. AnswersTrue'
  BY <1>1, <1>3, <1>8, CallStays
<1> QED BY <1>5, <1>6, <1>7, <1>10, <1>11 DEF IInv

LEMMA CheckStep ==
    ASSUME IInv, CheckInstalled
    PROVE  IInv'
<1>1. /\ Typed /\ NamesAreGood /\ CallKnows /\ SinceBegin /\ InCall
      /\ pc = "check" /\ This > 0 /\ level = 2
      /\ ~call.installed /\ call.error = "os" /\ (call.replace => Name = "metadata")
      /\ call \in CallSet
  BY DEF IInv, CheckInstalled, InCall, CallKnows, Typed
<1>2. /\ This \in 1..This /\ Name \in Artifacts
  BY <1>1, ThisWrite
<1>3. SameWrites /\ Name' = Name /\ This' = This
      /\ UNCHANGED <<level, target, temps, writes, answer, before, kept, keptTemps, acked,
                     powerLosses>>
  BY <1>1, UnchangedWrites, SameName DEF CheckInstalled, disk, durable
<1>4. /\ faults' \in 0..MaxFaults /\ blind' \in BOOLEAN
      /\ call' \in CallSet /\ call'.replace = call.replace /\ call'.error = "os"
      /\ pc' = "finish"
      /\ call'.installed => Holds(Name)
      /\ Holds(Name) => call'.installed \/ blind'
  <2>1. CASE /\ Goto("finish", [call EXCEPT !.installed = (target[Name] = This)])
             /\ UNCHANGED <<blind, before, faults>>
    <3>1. (target[Name] = This) \in BOOLEAN
      OBVIOUS
    <3>2. call' = [call EXCEPT !.installed = (target[Name] = This)]
      BY <2>1 DEF Goto
    <3>3. call' \in CallSet /\ call'.replace = call.replace /\ call'.error = "os"
          /\ call'.installed = (target[Name] = This)
      BY <1>1, <3>1, <3>2 DEF CallSet
    <3> QED BY <1>1, <2>1, <3>3 DEF Goto, Typed, Holds
  <2>2. CASE /\ faults < MaxFaults /\ faults' = faults + 1
             /\ Goto("finish", call) /\ blind' = TRUE
    BY <1>1, <2>2, WriteAssumption DEF Goto, Typed
  <2> QED BY <2>1, <2>2 DEF CheckInstalled
<1>5. Typed'
  BY <1>1, <1>3, <1>4 DEF Typed
<1>6. NamesAreGood'
  BY <1>1, <1>3, NamesStay, <1>5 DEF NamesAreGood
<1>7. CallKnows'
  BY <1>1, <1>3, <1>4 DEF CallKnows, Holds
<1>8. InCall'
  BY <1>4 DEF InCall
<1>9. /\ MayInstall(before.files, Name, writes[This].value)
      /\ Name \notin before.files.linked
      /\ Holds(Name) /\ call.replace => This \notin temps
  BY <1>1 DEF SinceBegin
<1>10. SinceBegin'
  BY <1>1, <1>3, <1>4, <1>8, <1>9, SinceStays
<1>11. AnswersTrue'
  BY <1>1, <1>3, <1>8, CallStays
<1> QED BY <1>5, <1>6, <1>7, <1>10, <1>11 DEF IInv

LEMMA InstallStep ==
    ASSUME IInv, Install
    PROVE  IInv'
<1> DEFINE f == before.files
           v == writes[This].value
<1>1. /\ Typed /\ NamesAreGood /\ CallKnows /\ SinceBegin /\ InCall
      /\ pc = "install" /\ This > 0 /\ ~Holds(Name) /\ level = 2
      /\ ~call.installed /\ call.known /\ call.error = "none"
      /\ (call.replace => Name = "metadata") /\ Good(Name, This)
      /\ call \in CallSet
  BY ThisWrite DEF IInv, Install, InCall, CallKnows, Typed, Good, Name
<1>2. /\ This \in 1..This /\ This \in Calls /\ Name \in Artifacts
  BY <1>1, ThisWrite, WriteAssumption DEF Typed, Calls
<1>3. SameWrites /\ Name' = Name /\ This' = This /\ v' = v /\ (\A a, n : Good(a, n) => Good(a, n)')
      /\ UNCHANGED <<level, writes, answer, blind, before, keptTemps, acked, powerLosses>>
  BY <1>1, UnchangedWrites, SameName, SameGood DEF Install
<1>4. /\ Installs \/ UNCHANGED <<target, temps>>
      /\ faults' \in 0..MaxFaults
      /\ call' \in CallSet /\ call'.replace = call.replace /\ call'.known
      /\ \/ /\ pc' = IF call.replace THEN "sync" ELSE "unlink"
            /\ call'.installed /\ call'.error = "none" /\ Installs
         \/ pc' = "check" /\ ~call'.installed /\ call'.error = "os"
  <2>1. CASE /\ Goto(IF call.replace THEN "sync" ELSE "unlink", [call EXCEPT !.installed = TRUE])
             /\ Installs /\ UNCHANGED faults
    BY <1>1, <2>1 DEF Goto, CallSet, Typed
  <2>2. CASE (Installs \/ UNCHANGED <<target, temps>>) /\ Fault(call)
    BY <1>1, <2>2, FaultEffect
  <2> QED BY <2>1, <2>2 DEF Install
<1>5. /\ target' \in [Artifacts -> Calls] /\ temps' \subseteq temps
      /\ \A b \in Artifacts \ {Name} : target'[b] = target[b]
      /\ target'[Name] = This \/ (target'[Name] = target[Name] /\ temps' = temps)
      /\ Installs => target'[Name] = This
      /\ temps' \ {This} = temps \ {This}
      /\ Installs => IF call.replace THEN This \notin temps' ELSE temps' = temps
  BY <1>1, <1>2, <1>4 DEF Typed, Installs
<1>6. /\ kept' \in [Artifacts -> SUBSET Calls]
      /\ \A a \in Artifacts : \A n \in kept'[a] : n \in kept[a] \/ (a = Name /\ n = target'[Name])
  <2>1. target'[Name] \in Calls
    BY <1>2, <1>5
  <2>2. kept' = [kept EXCEPT ![Name] = @ \cup {target'[Name]}]
    BY DEF Install
  <2> QED BY <1>1, <1>2, <2>1, <2>2 DEF Typed
<1>7. Typed'
  BY <1>1, <1>3, <1>4, <1>5, <1>6 DEF Typed
<1>8. NamesAreGood'
  <2>1. acked[Name] <= This /\ acked[Name] <= target[Name]
    BY <1>1, <1>2 DEF NamesAreGood
  <2>2. acked[Name] <= target'[Name] /\ (target'[Name] # 0 => Good(Name, target'[Name]))
    BY <1>1, <1>2, <1>5, <2>1 DEF NamesAreGood
  <2>3. ASSUME NEW a \in Artifacts
        PROVE  acked[a] <= target'[a] /\ (target'[a] # 0 => Good(a, target'[a]))
    <3>1. CASE a = Name BY <2>2, <3>1
    <3>2. CASE a # Name BY <1>1, <1>5, <3>2 DEF NamesAreGood
    <3> QED BY <3>1, <3>2
  <2>4. ASSUME NEW a \in Artifacts, NEW n \in kept'[a]
        PROVE  (n # 0 => Good(a, n)) /\ acked[a] <= n
    BY <1>1, <1>6, <2>2, <2>4 DEF NamesAreGood
  <2>5. \A a \in Artifacts : acked[a] <= This
    BY <1>1 DEF NamesAreGood
  <2> QED BY <1>1, <1>3, <2>3, <2>4, <2>5 DEF NamesAreGood
<1>9. CallKnows'
  BY <1>1, <1>3, <1>4, <1>5 DEF CallKnows, Holds
<1>10. InCall'
  BY <1>4 DEF InCall
<1>11. AnswersTrue'
  BY <1>1, <1>3, <1>10, CallStays
<1>12. /\ \A b \in Artifacts \ {Name} :
             f[b] = Value(b) /\ (b \in f.linked <=> target[b] \in temps)
       /\ f.stray <=> \E n \in temps \ {This} : target[writes[n].artifact] # n
       /\ f[Name] = Value(Name) /\ (Name \in f.linked <=> target[Name] \in temps)
       /\ MayInstall(f, Name, v) /\ Name \notin f.linked
       /\ ~call.replace => target[Name] = 0
       /\ f.dir => level > 0
  BY <1>1 DEF SinceBegin
<1>13. SinceBegin'
  <2>1. CASE ~Installs
    <3>1. UNCHANGED <<target, temps>> /\ pc' = "check"
      BY <1>4, <2>1
    <3> QED BY <1>1, <1>3, <1>4, <1>10, <1>12, <3>1, SinceStays
  <2>2. CASE Installs
    <3>1. Holds(Name)' /\ pc' \in {"sync", "unlink", "check"}
      BY <1>3, <1>4, <1>5, <2>2 DEF Holds
    <3>2. ASSUME NEW b \in Artifacts \ {Name}
          PROVE  f'[b] = Value(b)' /\ (b \in f'.linked <=> target'[b] \in temps')
      <4>1. target[b] # This
        BY <1>1, OtherNames DEF Holds
      <4>2. Value(b)' = Value(b)
        BY <1>1, <1>3, <1>5, ValueStays
      <4> QED BY <1>3, <1>5, <1>12, <4>1, <4>2
    <3>3. f'.stray <=> \E n \in temps' \ {This'} : target'[writes'[n].artifact] # n
      <4>1. ASSUME NEW n \in temps \ {This}
            PROVE  target'[writes[n].artifact] # n <=> target[writes[n].artifact] # n
        <5>1. writes[n].artifact \in Artifacts
          BY <1>1, EntryTypes DEF Typed
        <5>2. target[Name] # n
          BY <1>12
        <5> QED BY <1>2, <1>5, <2>2, <5>1, <5>2
      <4> QED BY <1>3, <1>5, <1>12, <4>1
    <3>4. MayInstall(f, Name, v)' /\ Name' \notin f'.linked /\ level' = 2
      BY <1>1, <1>3, <1>12 DEF MayInstall, LifecycleValid
    <3>5. IF call'.replace THEN This' \notin temps' ELSE f'[Name'] = NoFiles[Name']
      <4>1. ~call.replace => f[Name] = NoFiles[Name]
        BY <1>12 DEF Value
      <4> QED BY <1>3, <1>4, <1>5, <2>2, <4>1
    <3>6. f'.dir => level' > 0
      BY <1>3, <1>12
    <3> QED BY <1>3, <3>1, <3>2, <3>3, <3>4, <3>5, <3>6 DEF SinceBegin
  <2> QED BY <2>1, <2>2
<1> QED BY <1>7, <1>8, <1>9, <1>11, <1>13 DEF IInv

LEMMA FinishStep ==
    ASSUME IInv, Finish
    PROVE  IInv'
<1>1. /\ Typed /\ NamesAreGood /\ CallKnows /\ InCall
      /\ pc = "finish" /\ This > 0 /\ call \in CallSet
  BY DEF IInv, Finish, InCall, CallKnows, Typed
<1>2. /\ This \in 1..This /\ This \in Calls /\ Name \in Artifacts
  BY <1>1, ThisWrite, WriteAssumption DEF Typed, Calls
<1>3. SameWrites /\ Name' = Name /\ This' = This /\ pc' = "idle" /\ call' = NoCall
      /\ UNCHANGED <<level, target, writes, blind, before, kept, keptTemps, powerLosses>>
  BY <1>1, UnchangedWrites, SameName DEF Finish, durable, Goto
<1>4. PICK failed \in BOOLEAN :
          LET error == IF failed /\ call.error = "none" THEN "os" ELSE call.error IN
          /\ IF failed
               THEN /\ faults < MaxFaults /\ faults' = faults + 1
                    /\ temps' \in {temps, temps \ {This}}
               ELSE temps' = temps \ {This} /\ UNCHANGED faults
          /\ answer' = CASE error = "none" -> "ok"
                         [] error = "os" /\ call.installed -> "installed"
                         [] OTHER -> "other"
          /\ acked' = IF error = "none" THEN [acked EXCEPT ![Name] = This] ELSE acked
  BY DEF Finish
<1> DEFINE error == IF failed /\ call.error = "none" THEN "os" ELSE call.error
<1>5. /\ temps' \in {temps, temps \ {This}} /\ (error = "none" => temps' = temps \ {This})
      /\ faults' \in 0..MaxFaults
  BY <1>1, <1>4, WriteAssumption DEF Typed
<1>6. /\ call.error = "none" =>
            /\ call.installed /\ This \notin temps /\ level = 2
            /\ \A a \in Artifacts : kept[a] = {target[a]}
      /\ call.error = "os" /\ Holds(Name) => call.installed \/ blind
      /\ call.error = "refused" => ~Holds(Name)
      /\ call.installed => Holds(Name)
  BY <1>1 DEF CallKnows
<1>7. /\ answer' \in {"ok", "installed", "other"}
      /\ answer' = "ok" => error = "none"
      /\ answer' = "installed" => call.installed
      /\ answer' = "other" => error = "refused" \/ (error = "os" /\ ~call.installed)
  BY <1>1, <1>4 DEF CallSet
<1>8. acked' \in [Artifacts -> Calls]
      /\ \A a \in Artifacts : acked'[a] = acked[a] \/ (a = Name /\ acked'[a] = This /\ error = "none")
  BY <1>1, <1>2, <1>4 DEF Typed
<1>9. Typed'
  BY <1>1, <1>3, <1>5, <1>7, <1>8 DEF Typed, NoCall, CallSet
<1>10. NamesAreGood'
  <2>1. ASSUME NEW a \in Artifacts
        PROVE  /\ acked'[a] <= This /\ acked'[a] <= target[a]
               /\ \A n \in kept[a] : acked'[a] <= n
    <3>1. CASE acked'[a] = acked[a]
      BY <1>1, <3>1 DEF NamesAreGood
    <3>2. CASE a = Name /\ acked'[a] = This /\ error = "none"
      <4>1. call.error = "none"
        BY <3>2
      <4>2. target[a] = This /\ kept[a] = {This}
        BY <1>6, <3>2, <4>1 DEF Holds
      <4> QED BY <1>2, <3>2, <4>2
    <3> QED BY <1>8, <3>1, <3>2
  <2>2. \A a, n : Good(a, n) => Good(a, n)'
    BY <1>3, SameGood
  <2>3. temps' # {} => level' = 2
    BY <1>1, <1>3, <1>5 DEF NamesAreGood
  <2> QED BY <1>1, <1>3, <2>1, <2>2, <2>3 DEF NamesAreGood
<1>11. AnswersTrue'
  <2>1. answer' = "ok" => Holds(Name) /\ This \notin temps'
    BY <1>5, <1>6, <1>7
  <2>2. answer' = "installed" => Holds(Name)
    BY <1>6, <1>7
  <2>3. answer' = "other" /\ Holds(Name) => blind
    BY <1>6, <1>7
  <2> QED BY <1>3, <1>7, <2>1, <2>2, <2>3 DEF AnswersTrue, ErrorsTellTheTruth, InCall, Holds
<1>12. ~InCall'
  BY <1>3 DEF InCall
<1> QED BY <1>9, <1>10, <1>11, <1>12 DEF IInv, CallKnows, SinceBegin

LEMMA CrashStep ==
    ASSUME IInv, Crash
    PROVE  IInv'
<1>1. /\ Typed /\ NamesAreGood /\ pc' = "dead" /\ call' = NoCall /\ answer' = "dead"
      /\ UNCHANGED <<level, target, temps, writes, blind, before, kept, keptTemps, acked,
                     faults, powerLosses>>
  BY DEF IInv, Crash, Goto, disk, durable
<1>2. Typed'
  BY <1>1 DEF Typed, NoCall, CallSet, This
<1>3. NamesAreGood'
  BY <1>1 DEF NamesAreGood, Good, This
<1> QED BY <1>1, <1>2, <1>3
        DEF IInv, CallKnows, SinceBegin, AnswersTrue, ErrorsTellTheTruth, InCall

LEMMA PowerLossStep ==
    ASSUME IInv, PowerLoss
    PROVE  IInv'
<1>1. /\ Typed /\ NamesAreGood /\ pc' = "dead" /\ call' = NoCall /\ answer' = "dead"
      /\ UNCHANGED <<blind, before, kept, keptTemps, acked, faults>>
      /\ powerLosses' \in 0..MaxPowerLosses /\ level' \in 0..level
      /\ temps' \in SUBSET (IF level' = 2 THEN keptTemps ELSE {})
  BY WriteAssumption DEF IInv, PowerLoss, Goto, durable, Typed
<1>2. /\ target' \in [Artifacts -> Calls]
      /\ \A a \in Artifacts : target'[a] = 0 \/ (level' = 2 /\ target'[a] \in kept[a])
      /\ level' = 2 => \A a \in Artifacts : target'[a] \in kept[a]
  <2>1. 0 \in Calls
    BY WriteAssumption DEF Calls
  <2>2. CASE level' = 2 BY <2>2 DEF PowerLoss
  <2>3. CASE level' # 2
    <3>1. target' = [a \in Artifacts |-> 0]
      BY <2>3 DEF PowerLoss
    <3> QED BY <2>1, <2>3, <3>1
  <2> QED BY <2>2, <2>3
<1>3. /\ writes' \in Seq(Entries) /\ This' = This
      /\ \A n \in 1..This : /\ writes'[n].artifact = writes[n].artifact
                            /\ writes[n].whole /\ writes[n].synced =>
                                   writes'[n].whole /\ writes'[n].synced
  <2>1. PICK lost \in SUBSET {n \in DOMAIN writes : ~writes[n].synced} :
            writes' = [n \in DOMAIN writes |-> [writes[n] EXCEPT !.whole = @ /\ n \notin lost]]
    BY DEF PowerLoss
  <2>2. This \in Nat /\ DOMAIN writes = 1..This
    BY <1>1 DEF Typed, This
  <2>3. ASSUME NEW n \in 1..This
        PROVE  /\ writes'[n] \in Entries /\ writes'[n].artifact = writes[n].artifact
               /\ writes'[n].synced = writes[n].synced
               /\ writes[n].synced => writes'[n].whole = writes[n].whole
    <3>1. writes[n] \in Entries
      BY <1>1, EntryTypes
    <3>2. (writes[n].whole /\ n \notin lost) \in BOOLEAN
      OBVIOUS
    <3>3. writes'[n] = [writes[n] EXCEPT !.whole = writes[n].whole /\ n \notin lost]
      BY <2>1, <2>2, <3>1 DEF Entries
    <3>4. writes[n].synced => n \notin lost
      BY <2>1
    <3>5. writes[n].whole \in BOOLEAN
      BY <3>1 DEF Entries
    <3>6. writes'[n] \in Entries /\ writes'[n].artifact = writes[n].artifact
          /\ writes'[n].synced = writes[n].synced
          /\ writes'[n].whole = (writes[n].whole /\ n \notin lost)
      BY <3>1, <3>2, <3>3 DEF Entries
    <3> QED BY <3>4, <3>5, <3>6
  <2>4. writes' = [n \in 1..This |-> writes'[n]]
    BY <2>1, <2>2
  <2>5. writes' \in Seq(Entries)
    <3>1. writes' \in [1..This -> Entries]
      BY <2>3, <2>4
    <3> QED BY <2>2, <3>1
  <2>6. This' = This
    <3>1. DOMAIN writes' = 1..This
      BY <2>4
    <3>2. DOMAIN writes' = 1..Len(writes') /\ Len(writes') \in Nat
      BY <2>5, LenProperties
    <3> QED BY <2>2, <3>1, <3>2 DEF This
  <2> QED BY <2>3, <2>5, <2>6
<1>4. \A a, n : Good(a, n) => Good(a, n)'
  BY <1>3 DEF Good
<1>5. level' \in 0..2 /\ (level' = 2 => level = 2)
  BY <1>1 DEF Typed
<1>6. Typed'
  BY <1>1, <1>2, <1>3, <1>5 DEF Typed, NoCall, CallSet
<1>7. NamesAreGood'
  BY <1>1, <1>2, <1>3, <1>4, <1>5 DEF NamesAreGood
<1> QED BY <1>1, <1>6, <1>7
        DEF IInv, CallKnows, SinceBegin, AnswersTrue, ErrorsTellTheTruth, InCall

LEMMA BeginStep ==
    ASSUME IInv, NEW a \in Artifacts, NEW value \in Content[a], Begin(a, value)
    PROVE  IInv'
<1> DEFINE e == [artifact |-> a, value |-> value, whole |-> FALSE, synced |-> FALSE]
           replace == a = "metadata" /\ target[a] # 0
<1>1. /\ Typed /\ NamesAreGood /\ pc = "idle" /\ pc' = "directory" /\ answer # "dead"
      /\ This \in Nat /\ This < MaxWrites /\ blind' = FALSE
      /\ before' = [files |-> View, answer |-> Told]
      /\ writes' = Append(writes, e) /\ writes \in Seq(Entries)
      /\ call' = [NoCall EXCEPT !.replace = replace]
      /\ UNCHANGED <<level, target, temps, answer, kept, keptTemps, acked, faults, powerLosses>>
  BY DEF IInv, Begin, Goto, disk, durable, Typed, This, AnswersTrue
<1>2. /\ writes' \in Seq(Entries) /\ This' = This + 1 /\ writes'[This'] = e
      /\ \A n \in 1..This : writes'[n] = writes[n]
  <2>1. e \in Entries
    <3>1. value \in UNION {Content[b] : b \in Artifacts}
      OBVIOUS
    <3> QED BY <3>1 DEF Entries
  <2> HIDE DEF e
  <2> QED BY <1>1, <2>1, AppendProperties DEF This
<1>3. /\ Name' = a /\ writes'[This'].value = value /\ ~writes'[This'].synced
  BY <1>2 DEF Name
<1>4. /\ call' \in CallSet /\ call'.replace = replace /\ ~call'.known /\ ~call'.installed
      /\ call'.error = "none"
  <2>1. replace \in BOOLEAN
    OBVIOUS
  <2> HIDE DEF replace
  <2> QED BY <1>1, <2>1 DEF NoCall, CallSet
<1> HIDE DEF e, replace
<1>5. temps \subseteq 1..This /\ This' \notin temps
  BY <1>1, <1>2 DEF Typed
<1>6. \A b \in Artifacts : target[b] \in 0..This /\ target[b] # This'
  BY <1>1, <1>2, ValueTypes
<1>7. Told \in Outcome!Answers
  BY <1>1 DEF Told, Outcome!Answers, Typed
<1>8. View \in FilesSet
  BY <1>1, ViewType
<1>9. Typed'
  <2>1. before' \in [files: FilesSet, answer: Outcome!Answers]
    BY <1>1, <1>7, <1>8
  <2>2. temps \subseteq 1..(This + 1) /\ keptTemps \subseteq 1..(This + 1) /\ This + 1 <= MaxWrites
    BY <1>1, WriteAssumption DEF Typed
  <2> QED BY <1>1, <1>2, <1>4, <2>1, <2>2 DEF Typed
<1>10. NamesAreGood'
  <2>1. ASSUME NEW b, NEW n, Good(b, n) PROVE Good(b, n)'
    <3>1. n \in 1..This /\ n \in 1..This'
      BY <1>1, <1>2, <2>1 DEF Good
    <3>2. writes'[n] = writes[n]
      BY <1>2, <3>1
    <3> QED BY <2>1, <3>1, <3>2 DEF Good
  <2>2. \A b \in Artifacts : acked[b] <= This'
    BY <1>1, <1>2 DEF NamesAreGood, Typed, Calls
  <2> QED BY <1>1, <2>1, <2>2 DEF NamesAreGood
<1>11. CallKnows'
  <2>1. This' > 0 /\ ~Holds(Name)' /\ (call'.replace => Name' = "metadata")
    <3>1. Holds(Name)' <=> target[a] = This'
      BY <1>1, <1>3 DEF Holds
    <3>2. This' > 0
      BY <1>1, <1>2
    <3>3. call'.replace => Name' = "metadata"
      BY <1>3, <1>4 DEF replace
    <3> QED BY <1>6, <3>1, <3>2, <3>3
  <2> QED BY <1>1, <1>3, <1>4, <1>5, <2>1 DEF CallKnows
<1>12. AnswersTrue'
  <2>1. Told # "dead"
    BY <1>1 DEF Told, Typed
  <2> QED BY <1>1, <2>1 DEF AnswersTrue, ErrorsTellTheTruth, InCall
<1>13. SinceBegin'
  <2> DEFINE f == View
  <2>1. \A b \in Artifacts : Value(b)' = Value(b)
    <3>1. ASSUME NEW b \in Artifacts, target[b] # 0 PROVE writes'[target[b]] = writes[target[b]]
      <4>1. This \in Nat /\ target[b] \in 0..This
        BY <1>1, <1>6
      <4>2. target[b] \in 1..This
        BY <3>1, <4>1
      <4> QED BY <1>2, <4>2
    <3> QED BY <1>1, <3>1 DEF Value
  <2>2. \A b \in Artifacts : f[b] = Value(b) /\ (b \in f.linked <=> target[b] \in temps)
    <3>1. \A b \in Artifacts : b \in {"metadata", "prompt", "result", "transcript"}
      BY DEF Artifacts, Immutable
    <3> QED BY <3>1 DEF View
  <2>3. f.stray <=> \E n \in temps' \ {This'} : target'[writes'[n].artifact] # n
    <3>1. temps' \ {This'} = temps
      BY <1>1, <1>5
    <3>2. f.stray <=> \E n \in temps : target[writes[n].artifact] # n
      BY DEF View
    <3>3. \A n \in temps : writes'[n] = writes[n]
      BY <1>2, <1>5
    <3> QED BY <1>1, <3>1, <3>2, <3>3
  <2>4. f.dir <=> level > 0
    BY DEF View
  <2>5. ~MayInstall(f, a, value) => level = 2
    <3>1. a = "metadata" => LifecycleValid(value)
      BY ContentTypes
    <3>2. a # "metadata" => (f[a] = NoFiles[a] <=> target[a] = 0)
      BY <1>1, <2>2, ValuesTell
    <3>3. a \in f.linked => temps # {}
      BY <2>2
    <3> QED BY <1>1, <3>1, <3>2, <3>3 DEF MayInstall, NamesAreGood
  <2>6. before'.files = f /\ pc' = "directory" /\ ~Holds(Name)' /\ This' \notin temps'
    BY <1>1, <1>3, <1>5, <1>6 DEF Holds
  <2> HIDE DEF f
  <2> DEFINE g == before'.files
  <2>7. g = f
    BY <2>6
  <2>8. MayInstall(g, Name', writes'[This'].value) <=> MayInstall(f, a, value)
    BY <1>3, <2>7
  <2>9. \A b \in Artifacts : g[b] = Value(b)' /\ (b \in g.linked <=> target'[b] \in temps')
    BY <1>1, <2>1, <2>2, <2>7
  <2>10. g.stray <=> \E n \in temps' \ {This'} : target'[writes'[n].artifact] # n
    BY <2>3, <2>7
  <2>11. call'.replace <=> Name' = "metadata" /\ target'[Name'] # 0
    BY <1>1, <1>3, <1>4 DEF replace
  <2>12. (g.dir <=> level' > 0) /\ (~MayInstall(g, Name', writes'[This'].value) => g.dir)
    <3>1. ~MayInstall(g, Name', writes'[This'].value) => level = 2
      BY <2>5, <2>8
    <3>2. level' = level
      BY <1>1
    <3>3. level = 2 => level > 0
      OBVIOUS
    <3> HIDE DEF g
    <3> QED BY <2>4, <2>7, <3>1, <3>2, <3>3
  <2>13. Name' \in Artifacts
    BY <1>3
  <2> QED BY <2>6, <2>9, <2>10, <2>11, <2>12, <2>13 DEF SinceBegin, MayInstall, LifecycleValid
<1> QED BY <1>9, <1>10, <1>11, <1>12, <1>13 DEF IInv

LEMMA Initially == Init => IInv
<1> SUFFICES ASSUME Init PROVE IInv
  OBVIOUS
<1>1. Len(<< >>) = 0
  OBVIOUS
<1>2. NoFiles \in FilesSet
  BY NoFilesTypes DEF NoFiles, FilesSet
<1>3. Typed
  <2>1. 0 \in Calls
    BY WriteAssumption DEF Calls
  <2>2. writes \in Seq(Entries) /\ This = 0
    BY <1>1 DEF Init, This
  <2>3. call \in CallSet
    BY DEF Init, NoCall, CallSet
  <2>4. before \in [files: FilesSet, answer: Outcome!Answers]
    BY <1>2 DEF Init, Outcome!Answers
  <2>5. /\ target \in [Artifacts -> Calls] /\ acked \in [Artifacts -> Calls]
        /\ kept \in [Artifacts -> SUBSET Calls]
    BY <2>1 DEF Init
  <2>6. 0 <= MaxWrites /\ faults \in 0..MaxFaults /\ powerLosses \in 0..MaxPowerLosses
    BY WriteAssumption DEF Init
  <2>7. /\ level \in 0..2 /\ temps \subseteq 1..This /\ keptTemps \subseteq 1..This
        /\ pc = "idle" /\ answer = "none"
    BY DEF Init
  <2>8. blind \in BOOLEAN
    BY Zenon DEF Init
  <2> QED BY <2>2, <2>3, <2>4, <2>5, <2>6, <2>7, <2>8 DEF Typed
<1>4. NamesAreGood /\ AnswersTrue
  BY <1>1 DEF Init, NamesAreGood, AnswersTrue, ErrorsTellTheTruth, InCall, This
<1> QED BY <1>3, <1>4 DEF Init, IInv, CallKnows, SinceBegin, InCall

LEMMA Stuttering ==
    ASSUME IInv, UNCHANGED vars
    PROVE  IInv'
<1>1. UNCHANGED <<level, target, temps, writes, pc, call, answer, blind, before, kept,
                  keptTemps,
                  acked, faults, powerLosses>>
  BY DEF vars
<1>2. Typed' /\ NamesAreGood' /\ CallKnows' /\ AnswersTrue'
  BY <1>1 DEF IInv, Typed, NamesAreGood, CallKnows, AnswersTrue, ErrorsTellTheTruth, InCall,
              Good, Holds, Name, This, Calls
<1>3. SinceBegin'
  BY <1>1 DEF IInv, SinceBegin, InCall, Holds, Name, This, Value, MayInstall, LifecycleValid
<1> QED BY <1>2, <1>3 DEF IInv

-----------------------------------------------------------------------------
(* Theorems *)

LEMMA Inductive ==
    ASSUME IInv, [Next]_vars
    PROVE  IInv'
<1>1. CASE \E a \in Artifacts : \E value \in Content[a] : Begin(a, value)
  BY <1>1, BeginStep
<1>2. CASE Proceed
  BY <1>2, OpenDirectoryStep, OpenTemporaryStep, FillStep, InstallStep, UnlinkStep, SyncStep,
     CheckStep, FinishStep DEF Proceed
<1>3. CASE Crash BY <1>3, CrashStep
<1>4. CASE PowerLoss BY <1>4, PowerLossStep
<1>5. CASE UNCHANGED vars BY <1>5, Stuttering
<1> QED BY <1>1, <1>2, <1>3, <1>4, <1>5 DEF Next

LEMMA Invariant == Spec => []IInv
<1>1. Init => IInv
  BY Initially
<1>2. IInv /\ [Next]_vars => IInv'
  BY Inductive
<1> QED BY <1>1, <1>2, PTL DEF Spec

\* The variables of _atomic_write and the disk have the values they should have.
THEOREM Typing == Spec => []TypeOK
<1>1. IInv => TypeOK
  <2> SUFFICES ASSUME IInv PROVE TypeOK
    OBVIOUS
  <2>1. Typed
    BY DEF IInv
  <2>2. This \in Nat /\ This <= MaxWrites /\ DOMAIN writes = 1..This
    BY <2>1 DEF Typed, This
  <2>3. \A n \in DOMAIN writes :
            /\ writes[n].artifact \in Artifacts /\ writes[n].value \in Content[writes[n].artifact]
            /\ writes[n].whole \in BOOLEAN /\ writes[n].synced \in BOOLEAN
    BY <2>1, <2>2, EntryTypes DEF Entries
  <2>4. Len(writes) \in Calls /\ temps \subseteq Calls /\ keptTemps \subseteq Calls
    BY <2>1, <2>2, WriteAssumption DEF Typed, Calls, This
  <2>5. before.files \in FilesSet
    BY <2>1 DEF Typed
  <2> QED BY <2>1, <2>3, <2>4, <2>5 DEF Typed, TypeOK, CallSet
<1> QED BY <1>1, Invariant, PTL

\* What _atomic_write has reported as written stays, and the name of an artifact
\* never leads to a part of one.
THEOREM AcknowledgedArtifactsSurvive == Spec => []AcknowledgedSurvives
<1>1. IInv => AcknowledgedSurvives
  <2> SUFFICES ASSUME IInv, NEW a \in Artifacts
               PROVE  /\ level = 2 => target[a] >= acked[a]
                      /\ target[a] # 0 => writes[target[a]].whole
    BY DEF AcknowledgedSurvives
  <2>1. target[a] \in Nat /\ acked[a] \in Nat
    BY WriteAssumption DEF IInv, Typed, Calls
  <2> QED BY <2>1 DEF IInv, NamesAreGood, Good
<1> QED BY <1>1, Invariant, PTL

\* An error of _atomic_write says "installed" exactly when the artifact has been
\* installed, unless the stat that would tell failed as well.
THEOREM ErrorsAreTrue == Spec => []ErrorsTellTheTruth
<1>1. IInv => ErrorsTellTheTruth
  BY DEF IInv, AnswersTrue
<1> QED BY <1>1, Invariant, PTL

-----------------------------------------------------------------------------
(* The refinement *)

ViewTyped ==
    /\ View \in FilesSet
    /\ \A a \in Artifacts : View[a] = NoFiles[a] \/ View[a] \in Content[a]

LEMMA ViewKnown == IInv => ViewTyped
<1> SUFFICES ASSUME IInv PROVE ViewTyped
  OBVIOUS
<1>1. Typed /\ NamesAreGood
  BY DEF IInv
<1>2. \A a \in Artifacts : View[a] = Value(a)
  <2>1. \A a \in Artifacts : a \in {"metadata", "prompt", "result", "transcript"}
    BY DEF Artifacts, Immutable
  <2> QED BY <2>1 DEF View
<1> QED BY <1>1, <1>2, ViewType, ValueTypes DEF ViewTyped

\* The directory with only the temporary names of t.
ViewWith(t) ==
    [dir |-> level > 0,
     metadata |-> Value("metadata"), prompt |-> Value("prompt"),
     result |-> Value("result"), transcript |-> Value("transcript"),
     linked |-> {a \in Artifacts : target[a] \in t},
     stray |-> \E n \in t : target[writes[n].artifact] # n]

LEMMA FilesEqual ==
    ASSUME NEW g \in FilesSet, NEW h \in FilesSet, g.dir = h.dir, g.linked = h.linked,
           g.stray = h.stray, \A a \in Artifacts : g[a] = h[a]
    PROVE  g = h
<1>1. g.metadata = h.metadata /\ g.prompt = h.prompt /\ g.result = h.result
      /\ g.transcript = h.transcript
  BY DEF Artifacts, Immutable
<1> QED BY <1>1 DEF FilesSet

\* Put changes the artifact and makes the directory, and nothing else.
LEMMA PutIs ==
    ASSUME NEW f \in FilesSet, NEW g \in FilesSet, NEW a \in Artifacts,
           g.dir = TRUE, \A b \in Artifacts \ {a} : g[b] = f[b], g.stray = f.stray,
           g.linked = f.linked
    PROVE  g = Put(f, a, g[a])
<1>1. CASE a = "metadata"
  <2>1. g.metadata = g[a] /\ g.prompt = f.prompt /\ g.result = f.result
        /\ g.transcript = f.transcript
    BY <1>1 DEF Artifacts, Immutable
  <2> QED BY <1>1, <2>1 DEF Put, FilesSet
<1>2. CASE a = "prompt"
  <2>1. g.metadata = f.metadata /\ g.prompt = g[a] /\ g.result = f.result
        /\ g.transcript = f.transcript
    BY <1>2 DEF Artifacts, Immutable
  <2> QED BY <1>2, <2>1 DEF Put, FilesSet
<1>3. CASE a = "result"
  <2>1. g.metadata = f.metadata /\ g.prompt = f.prompt /\ g.result = g[a]
        /\ g.transcript = f.transcript
    BY <1>3 DEF Artifacts, Immutable
  <2> QED BY <1>3, <2>1 DEF Put, FilesSet
<1>4. CASE a = "transcript"
  <2>1. g.metadata = f.metadata /\ g.prompt = f.prompt /\ g.result = f.result
        /\ g.transcript = g[a]
    BY <1>4 DEF Artifacts, Immutable
  <2> QED BY <1>4, <2>1 DEF Put, FilesSet
<1> QED BY <1>1, <1>2, <1>3, <1>4 DEF Artifacts, Immutable

LEMMA PutLinked ==
    ASSUME NEW f \in FilesSet, NEW g \in FilesSet, NEW a \in Artifacts,
           g.dir = TRUE, \A b \in Artifacts \ {a} : g[b] = f[b], g.stray = f.stray,
           g.linked = f.linked \cup {a}
    PROVE  g = [Put(f, a, g[a]) EXCEPT !.linked = @ \cup {a}]
<1> DEFINE h == [g EXCEPT !.linked = f.linked]
<1>1. h \in FilesSet /\ h.linked = f.linked /\ h.dir = g.dir /\ h.stray = g.stray
      /\ h.metadata = g.metadata /\ h.prompt = g.prompt /\ h.result = g.result
      /\ h.transcript = g.transcript
  BY DEF FilesSet
<1>2. \A b \in Artifacts : h[b] = g[b]
  BY <1>1 DEF Artifacts, Immutable
<1>3. g = [h EXCEPT !.linked = @ \cup {a}]
  BY DEF FilesSet
<1> HIDE DEF h
<1>4. h = Put(f, a, h[a])
  <2>1. h.dir = TRUE /\ h.stray = f.stray /\ h.linked = f.linked
    BY <1>1
  <2>2. \A b \in Artifacts \ {a} : h[b] = f[b]
    BY <1>2
  <2> QED BY <1>1, <2>1, <2>2, PutIs
<1>5. h[a] = g[a]
  BY <1>2
<1> QED BY <1>3, <1>4, <1>5

\* With and without its temporary name, a call leaves what its outcome allows.
LEMMA CallLeaves ==
    ASSUME IInv, InCall, NEW t, t = temps \/ t = temps \ {This}
    PROVE  LET f == before.files
               v == writes[This].value IN
           /\ ~MayInstall(f, Name, v) => ViewWith(t) = f
           /\ MayInstall(f, Name, v) => ViewWith(t) \in Prefixes(f, Name, v)
           /\ Holds(Name) => MayInstall(f, Name, v) /\ ViewWith(t)[Name] = v
           /\ Holds(Name) /\ This \notin t => ViewWith(t) = Put(f, Name, v)
           /\ ~Holds(Name) => ViewWith(t)[Name] = f[Name]
<1> DEFINE f == before.files
           v == writes[This].value
           g == ViewWith(t)
<1>1. Typed /\ NamesAreGood /\ This > 0 /\ SinceBegin
  BY DEF IInv, CallKnows
<1>2. This \in 1..This /\ Name \in Artifacts /\ f \in FilesSet
  BY <1>1, ThisWrite DEF Typed
<1>3. \A a \in Artifacts : g[a] = Value(a)
  <2>1. \A a \in Artifacts : a \in {"metadata", "prompt", "result", "transcript"}
    BY DEF Artifacts, Immutable
  <2> QED BY <2>1 DEF ViewWith
<1>4. g.dir = (level > 0) /\ g.linked = {a \in Artifacts : target[a] \in t}
      /\ g.stray = \E n \in t : target[writes[n].artifact] # n
  BY DEF ViewWith
<1>5. g \in FilesSet
  <2>1. View \in FilesSet
    BY <1>1, ViewType
  <2>2. g.metadata = View.metadata /\ g.prompt = View.prompt /\ g.result = View.result
        /\ g.transcript = View.transcript
    BY DEF View, ViewWith
  <2>3. View.metadata \in Metadata /\ View.prompt \in BOOLEAN
        /\ View.result \in {"none"} \cup Results /\ View.transcript \in BOOLEAN
    BY <2>1 DEF FilesSet
  <2>4. g.metadata \in Metadata /\ g.prompt \in BOOLEAN
        /\ g.result \in {"none"} \cup Results /\ g.transcript \in BOOLEAN
    BY <2>2, <2>3
  <2>5. (level > 0) \in BOOLEAN /\ {a \in Artifacts : target[a] \in t} \in SUBSET Artifacts
        /\ (\E n \in t : target[writes[n].artifact] # n) \in BOOLEAN
    OBVIOUS
  <2> QED BY <2>4, <2>5 DEF ViewWith, FilesSet
<1> HIDE DEF g
<1>6. /\ \A b \in Artifacts \ {Name} :
            f[b] = Value(b) /\ (b \in f.linked <=> target[b] \in temps)
      /\ f.stray <=> \E n \in temps \ {This} : target[writes[n].artifact] # n
      /\ ~Holds(Name) => f[Name] = Value(Name) /\ (Name \in f.linked <=> target[Name] \in temps)
      /\ Holds(Name) \/ This \in temps =>
            MayInstall(f, Name, v) /\ Name \notin f.linked /\ level = 2
      /\ Holds(Name) => IF call.replace THEN This \notin temps ELSE f[Name] = NoFiles[Name]
      /\ f.dir => level > 0
      /\ ~MayInstall(f, Name, v) => f.dir
  BY <1>1 DEF SinceBegin
<1>7. \A b \in Artifacts \ {Name} : b \in g.linked <=> b \in f.linked
  <2>1. \A b \in Artifacts \ {Name} : target[b] # This
    BY <1>1, OtherNames DEF Holds
  <2> QED BY <1>4, <1>6, <2>1
<1>8. f.linked \subseteq Artifacts /\ g.linked \subseteq Artifacts
      /\ f.dir \in BOOLEAN /\ f.stray \in BOOLEAN /\ g.dir \in BOOLEAN /\ g.stray \in BOOLEAN
  BY <1>2, <1>5 DEF FilesSet
<1>9. /\ level = 2 => g.dir = TRUE
      /\ g.stray <=> \E n \in t : target[writes[n].artifact] # n
  <2>1. level = 2 => (level > 0) = TRUE
    OBVIOUS
  <2> QED BY <1>4, <2>1
<1> HIDE DEF f, v
<1>10. Holds(Name) \/ This \in temps =>
           MayInstall(f, Name, v) /\ Name \notin f.linked /\ level = 2
  BY <1>6
<1>11. f.stray <=> \E n \in temps \ {This} : target[writes[n].artifact] # n
  BY <1>6
<1>12. ASSUME ~Holds(Name)
      PROVE  /\ \A a \in Artifacts : g[a] = f[a]
             /\ g.linked = f.linked
             /\ This \notin t => g.stray = f.stray
             /\ This \in t => g.stray = TRUE /\ g.dir = TRUE /\ MayInstall(f, Name, v)
             /\ f.dir => g.dir
  <2>1. \A a \in Artifacts : g[a] = f[a]
    BY <1>3, <1>6, <1>12
  <2>2. Name \in g.linked <=> Name \in f.linked
    BY <1>2, <1>4, <1>6, <1>12 DEF Holds
  <2>3. g.linked = f.linked
    BY <1>7, <1>8, <2>2
  <2>4. This \notin t => g.stray = f.stray
    BY <1>4, <1>6, <1>8
  <2>5. This \in t => g.stray = TRUE
    BY <1>2, <1>4, <1>8, <1>12 DEF Holds, Name
  <2>6. This \in t => g.dir = TRUE /\ MayInstall(f, Name, v)
    BY <1>9, <1>10
  <2> QED BY <1>4, <1>6, <2>1, <2>3, <2>4, <2>5, <2>6
<1>13. ASSUME Holds(Name)
       PROVE  /\ g[Name] = v /\ \A b \in Artifacts \ {Name} : g[b] = f[b]
              /\ g.dir = TRUE /\ g.stray = f.stray /\ MayInstall(f, Name, v)
              /\ This \notin t => g.linked = f.linked
              /\ This \in t => g.linked = f.linked \cup {Name} /\ f[Name] = NoFiles[Name]
  <2>1. g[Name] = v
    BY <1>1, <1>2, <1>3, <1>13 DEF Holds, Value, v
  <2>2. \A b \in Artifacts \ {Name} : g[b] = f[b]
    BY <1>3, <1>6
  <2>3. g.stray = f.stray
    <3>1. This \in t => target[writes[This].artifact] = This
      BY <1>13 DEF Holds, Name
    <3>2. (\E n \in t : target[writes[n].artifact] # n)
          <=> (\E n \in temps \ {This} : target[writes[n].artifact] # n)
      BY <1>13, <3>1 DEF Holds, Name
    <3> QED BY <1>8, <1>9, <1>11, <3>2
  <2>4. Name \in g.linked <=> This \in t
    BY <1>2, <1>4, <1>13 DEF Holds
  <2>5. Name \notin f.linked /\ g.dir = TRUE /\ MayInstall(f, Name, v)
    BY <1>9, <1>10, <1>13
  <2>6. This \in t => f[Name] = NoFiles[Name]
    BY <1>6, <1>13
  <2>7. This \notin t => g.linked = f.linked
    BY <1>7, <1>8, <2>4, <2>5
  <2>8. This \in t => g.linked = f.linked \cup {Name}
    BY <1>2, <1>7, <1>8, <2>4, <2>5
  <2> QED BY <2>1, <2>2, <2>3, <2>5, <2>6, <2>7, <2>8
<1>14. ASSUME ~Holds(Name)
       PROVE  /\ g.dir = f.dir /\ This \notin t => g = f
              /\ g.dir = TRUE /\ This \notin t => g = [f EXCEPT !.dir = TRUE]
              /\ This \in t => g = [f EXCEPT !.dir = TRUE, !.stray = TRUE]
  <2>1. g.dir = f.dir /\ This \notin t => g = f
    BY <1>2, <1>5, <1>12, <1>14, FilesEqual
  <2>2. g.metadata = f.metadata /\ g.prompt = f.prompt /\ g.result = f.result
        /\ g.transcript = f.transcript
    BY <1>12, <1>14 DEF Artifacts, Immutable
  <2>3. g.dir = TRUE /\ This \notin t => g = [f EXCEPT !.dir = TRUE]
    BY <1>2, <1>5, <1>12, <1>14, <2>2 DEF FilesSet
  <2>4. This \in t => g = [f EXCEPT !.dir = TRUE, !.stray = TRUE]
    BY <1>2, <1>5, <1>12, <1>14, <2>2 DEF FilesSet
  <2> QED BY <2>1, <2>3, <2>4
<1>15. ASSUME Holds(Name)
       PROVE  /\ This \notin t => g = Put(f, Name, v)
              /\ This \in t => g = [Put(f, Name, v) EXCEPT !.linked = @ \cup {Name}]
  <2>1. f \in FilesSet /\ g \in FilesSet /\ Name \in Artifacts
    BY <1>2, <1>5
  <2>2. /\ g[Name] = v /\ \A b \in Artifacts \ {Name} : g[b] = f[b]
        /\ g.dir = TRUE /\ g.stray = f.stray
        /\ This \notin t => g.linked = f.linked
        /\ This \in t => g.linked = f.linked \cup {Name}
    BY <1>13, <1>15
  <2>3. ASSUME g.linked = f.linked PROVE g = Put(f, Name, g[Name])
    BY <2>1, <2>2, <2>3, PutIs
  <2>4. g.linked = f.linked \cup {Name} =>
            g = [Put(f, Name, g[Name]) EXCEPT !.linked = @ \cup {Name}]
    BY <2>1, <2>2, PutLinked
  <2> QED BY <2>2, <2>3, <2>4
<1>16. ~MayInstall(f, Name, v) => g = f
  <2> SUFFICES ASSUME ~MayInstall(f, Name, v) PROVE g = f
    OBVIOUS
  <2>1. ~Holds(Name) /\ This \notin t /\ g.dir = f.dir
    BY <1>4, <1>6, <1>8, <1>12, <1>13
  <2> QED BY <1>14, <2>1
<1>17. g \in Prefixes(f, Name, v)
  <2>1. CASE ~Holds(Name)
    <3>1. g.dir = f.dir \/ g.dir = TRUE
      BY <1>8, <1>12, <2>1
    <3>2. g = f \/ g = [f EXCEPT !.dir = TRUE] \/ g = [f EXCEPT !.dir = TRUE, !.stray = TRUE]
      BY <1>14, <2>1, <3>1
    <3> QED BY <3>2 DEF Prefixes
  <2>2. CASE Holds(Name)
    <3>1. CASE This \notin t
      BY <1>15, <2>2, <3>1 DEF Prefixes
    <3>2. CASE This \in t
      <4>1. f[Name] = NoFiles[Name]
        BY <1>13, <2>2, <3>2
      <4>2. g = [Put(f, Name, v) EXCEPT !.linked = @ \cup {Name}]
        BY <1>15, <2>2, <3>2
      <4> QED BY <4>1, <4>2 DEF Prefixes
    <3> QED BY <3>1, <3>2
  <2> QED BY <2>1, <2>2
<1> QED BY <1>2, <1>12, <1>13, <1>15, <1>16, <1>17 DEF g, f, v

\* The variables of ArtifactOutcome.
SeenFiles == IF pc \in {"idle", "dead"} THEN View ELSE before.files
SeenAnswer == IF pc \in {"idle", "dead"} THEN Told ELSE before.answer

LEMMA SameOperators ==
    /\ Outcome!NoFiles = NoFiles /\ Outcome!Artifacts = Artifacts
    /\ Outcome!Immutable = Immutable /\ Outcome!FilesSet = FilesSet
    /\ \A f : \A a \in Artifacts : \A v \in Content[a] :
          /\ Outcome!Put(f, a, v) = Put(f, a, v)
          /\ Outcome!Prefixes(f, a, v) = Prefixes(f, a, v)
          /\ Outcome!MayInstall(f, a, v) <=> MayInstall(f, a, v)
<1>1. Outcome!NoFiles = NoFiles /\ Outcome!NoMetadata = NoMetadata
  BY DEF Outcome!NoFiles, Outcome!NoMetadata, NoFiles, NoMetadata
<1>2. Outcome!Immutable = Immutable /\ Outcome!Artifacts = Artifacts
  BY DEF Outcome!Immutable, Outcome!Artifacts, Immutable, Artifacts
<1>3. Outcome!Results = Results /\ Outcome!Final = Final /\ Outcome!Metadata = Metadata
  BY DEF Outcome!Results, Results, Outcome!Final, Final, Outcome!Metadata, Metadata
<1>4. Outcome!FilesSet = FilesSet
  BY <1>2, <1>3 DEF Outcome!FilesSet, FilesSet
<1>5. Outcome!Planned = Planned
  BY <1>1 DEF Outcome!Planned, Planned
<1>6. ASSUME NEW f, NEW a \in Artifacts, NEW v \in Content[a]
      PROVE  /\ Outcome!Put(f, a, v) = Put(f, a, v)
             /\ Outcome!Prefixes(f, a, v) = Prefixes(f, a, v)
             /\ Outcome!MayInstall(f, a, v) <=> MayInstall(f, a, v)
  <2>1. Outcome!Put(f, a, v) = Put(f, a, v)
    BY DEF Outcome!Put, Put
  <2>2. Outcome!LifecycleValid(v) <=> LifecycleValid(v)
    BY <1>5 DEF Outcome!LifecycleValid, LifecycleValid
  <2>3. Outcome!Prefixes(f, a, v) = Prefixes(f, a, v)
    BY <1>1, <2>1 DEF Outcome!Prefixes, Prefixes
  <2>4. Outcome!MayInstall(f, a, v) <=> MayInstall(f, a, v)
    BY <1>1, <2>2 DEF Outcome!MayInstall, MayInstall
  <2> QED BY <2>1, <2>3, <2>4
<1> QED BY <1>1, <1>2, <1>4, <1>6

LEMMA ViewFollows ==
    ASSUME UNCHANGED <<level, target, writes>>
    PROVE  View' = ViewWith(temps')
BY DEF View, ViewWith, Value

LEMMA FinishRefines ==
    ASSUME IInv, Finish
    PROVE  \/ Outcome!Refused(Name, writes[This].value)
           \/ /\ MayInstall(before.files, Name, writes[This].value)
              /\ \/ Outcome!Written(Name, writes[This].value)
                 \/ Outcome!Failed(Name, writes[This].value)
<1> DEFINE f == before.files
           v == writes[This].value
           g == ViewWith(temps')
<1>1. /\ Typed /\ CallKnows /\ SinceBegin /\ InCall /\ pc = "finish" /\ This > 0
      /\ call \in CallSet
  BY DEF IInv, Finish, InCall, CallKnows, Typed
<1>2. Name \in Artifacts /\ v \in Content[Name]
  BY <1>1, ThisWrite
<1>3. /\ UNCHANGED <<level, target, writes>> /\ pc' = "idle"
      /\ Name' = Name /\ This' = This /\ (Holds(Name)' <=> Holds(Name))
  BY DEF Finish, Goto, Name, This, Holds
<1>4. PICK failed \in BOOLEAN :
          LET error == IF failed /\ call.error = "none" THEN "os" ELSE call.error IN
          /\ IF failed
               THEN /\ faults < MaxFaults /\ faults' = faults + 1
                    /\ temps' \in {temps, temps \ {This}}
               ELSE temps' = temps \ {This} /\ UNCHANGED faults
          /\ answer' = CASE error = "none" -> "ok"
                         [] error = "os" /\ call.installed -> "installed"
                         [] OTHER -> "other"
          /\ acked' = IF error = "none" THEN [acked EXCEPT ![Name] = This] ELSE acked
  BY DEF Finish
<1>5. /\ temps' = temps \/ temps' = temps \ {This}
      /\ answer' = "ok" => call.error = "none" /\ This \notin temps'
      /\ answer' = "installed" => call.installed /\ call.error # "refused"
      /\ answer' \in {"ok", "installed", "other"}
      /\ answer' = "other" /\ ~call.installed => call.error \in {"refused", "os"}
  BY <1>1, <1>4 DEF CallSet, CallKnows
<1>6. /\ call.installed => Holds(Name)
      /\ call.error = "none" => call.installed
      /\ call.error = "refused" => ~MayInstall(f, Name, v)
  BY <1>1 DEF CallKnows, SinceBegin
<1>7. /\ ~MayInstall(f, Name, v) => g = f
      /\ MayInstall(f, Name, v) => g \in Prefixes(f, Name, v)
      /\ Holds(Name) => MayInstall(f, Name, v) /\ g[Name] = v
      /\ Holds(Name) /\ This \notin temps' => g = Put(f, Name, v)
      /\ ~Holds(Name) => g[Name] = f[Name]
  <2>1. CASE temps' = temps
    BY <1>1, <2>1, CallLeaves
  <2>2. CASE temps' = temps \ {This}
    BY <1>1, <2>2, CallLeaves
  <2> QED BY <1>5, <2>1, <2>2
<1>8. SeenFiles' = g /\ SeenAnswer' = Told' /\ SeenFiles = f /\ SeenAnswer = before.answer
  BY <1>1, <1>3, ViewFollows DEF SeenFiles, SeenAnswer
<1>9. Told' = IF answer' = "installed" /\ Name \notin Immutable THEN "other"
              ELSE IF answer' = "other" /\ Name \in Immutable /\ Holds(Name) THEN "unnoticed"
              ELSE answer'
  BY <1>3 DEF Told, Holds
<1> HIDE DEF f, v, g
<1>10. CASE answer' = "ok"
  <2>1. Holds(Name) /\ This \notin temps'
    BY <1>5, <1>6, <1>10
  <2>2. g = Put(f, Name, v) /\ MayInstall(f, Name, v) /\ Told' = "ok"
    BY <1>7, <1>9, <1>10, <2>1
  <2>3. Outcome!Written(Name, v)
    BY <1>2, <1>8, <2>2, SameOperators DEF Outcome!Written, SeenFiles, SeenAnswer
  <2> QED BY <2>2, <2>3 DEF f, v
<1>11. CASE answer' # "ok" /\ ~MayInstall(f, Name, v)
  <2>1. ~Holds(Name) /\ g = f /\ answer' = "other"
    BY <1>5, <1>6, <1>7, <1>11
  <2>2. Told' = "other"
    BY <1>9, <2>1
  <2>3. Outcome!Refused(Name, v)
    BY <1>2, <1>8, <1>11, <2>1, <2>2, SameOperators DEF Outcome!Refused, SeenFiles, SeenAnswer
  <2> QED BY <2>3 DEF v
<1>12. CASE answer' # "ok" /\ MayInstall(f, Name, v)
  <2>1. g \in Prefixes(f, Name, v)
    BY <1>7, <1>12
  <2>2. CASE Name \in Immutable /\ g[Name] = v
    <3>1. Holds(Name)
      <4>1. Name # "metadata" /\ v # NoFiles[Name]
        BY <1>2, <2>2, ContentTypes, NoFilesTypes DEF Immutable
      <4>2. f[Name] = NoFiles[Name]
        BY <1>12, <4>1 DEF MayInstall
      <4> QED BY <1>7, <2>2, <4>1, <4>2
    <3>2. Told' \in {"installed", "unnoticed"}
      BY <1>5, <1>9, <1>12, <2>2, <3>1
    <3> QED BY <1>2, <1>8, <1>12, <2>1, <2>2, <3>2, SameOperators
            DEF Outcome!Failed, SeenFiles, SeenAnswer, f, v
  <2>3. CASE ~(Name \in Immutable /\ g[Name] = v)
    <3>1. Told' = "other"
      <4>1. Name \in Immutable => ~Holds(Name)
        BY <1>7, <2>3
      <4> QED BY <1>5, <1>6, <1>9, <1>12, <4>1
    <3> QED BY <1>2, <1>8, <1>12, <2>1, <2>3, <3>1, SameOperators
            DEF Outcome!Failed, SeenFiles, SeenAnswer, f, v
  <2> QED BY <2>2, <2>3
<1> QED BY <1>10, <1>11, <1>12

LEMMA CrashRefines ==
    ASSUME IInv, Crash
    PROVE  \/ /\ This > 0 /\ MayInstall(before.files, Name, writes[This].value)
              /\ Outcome!Died(Name, writes[This].value)
           \/ SeenFiles' = SeenFiles
<1>1. /\ pc # "dead" /\ pc' = "dead" /\ answer' = "dead" /\ UNCHANGED <<level, target, writes>>
      /\ temps' = temps
  BY DEF Crash, Goto, disk
<1>2. SeenFiles' = ViewWith(temps) /\ SeenAnswer' = "dead"
  <2>1. Told' = "dead"
    BY <1>1 DEF Told
  <2> QED BY <1>1, <2>1, ViewFollows DEF SeenFiles, SeenAnswer
<1>3. CASE pc = "idle"
  BY <1>2, <1>3 DEF SeenFiles, View, ViewWith
<1>4. CASE InCall
  <2>1. SeenFiles = before.files
    BY <1>4 DEF InCall, SeenFiles
  <2>2. /\ This > 0 /\ Name \in Artifacts /\ writes[This].value \in Content[Name]
    BY <1>4, ThisWrite DEF IInv, CallKnows
  <2>3. CASE ~MayInstall(before.files, Name, writes[This].value)
    BY <1>2, <1>4, <2>1, <2>3, CallLeaves
  <2>4. CASE MayInstall(before.files, Name, writes[This].value)
    <3>1. SeenFiles' \in Prefixes(before.files, Name, writes[This].value)
      BY <1>2, <1>4, <2>4, CallLeaves
    <3> QED BY <1>2, <2>1, <2>2, <2>4, <3>1, SameOperators
            DEF Outcome!Died, SeenFiles, SeenAnswer
  <2> QED BY <2>3, <2>4
<1> QED BY <1>1, <1>3, <1>4 DEF InCall

LEMMA PowerLossRefines ==
    PowerLoss /\ IInv' => Outcome!Lost
<1>1. IInv' => ViewTyped'
  BY ViewKnown, PTL
<1> SUFFICES ASSUME PowerLoss, IInv' PROVE Outcome!Lost
  OBVIOUS
<1>2. pc' = "dead" /\ Told' = "dead"
  BY DEF PowerLoss, Goto, Told
<1> QED BY <1>1, <1>2, SameOperators DEF ViewTyped, Outcome!Lost

\* The steps within a call are not seen.
LEMMA CallStepsStutter ==
    ASSUME IInv, IInv',
           \/ OpenDirectory \/ OpenTemporary \/ Fill \/ Install \/ UnlinkTemporary
           \/ SyncDirectory \/ CheckInstalled
    PROVE  UNCHANGED <<SeenFiles, SeenAnswer>>
<1>1. UNCHANGED before
  BY DEF OpenDirectory, OpenTemporary, Fill, Install, UnlinkTemporary, SyncDirectory,
         CheckInstalled
<1>2. InCall
  BY DEF OpenDirectory, OpenTemporary, Fill, Install, UnlinkTemporary, SyncDirectory,
         CheckInstalled, InCall
<1>3. InCall'
  BY DEF OpenDirectory, OpenTemporary, Fill, Install, UnlinkTemporary, SyncDirectory,
         CheckInstalled, InCall, Destination, Fault, Goto
<1> QED BY <1>1, <1>2, <1>3 DEF InCall, SeenFiles, SeenAnswer

\* Neither is the beginning of a call: until it ends, or the process dies, the
\* directory is what it was.
LEMMA BeginStutters ==
    ASSUME NEW a \in Artifacts, NEW value \in Content[a], Begin(a, value)
    PROVE  UNCHANGED <<SeenFiles, SeenAnswer>>
BY DEF Begin, Goto, SeenFiles, SeenAnswer

\* Every call of _atomic_write, and every death in one, is one step of
\* ArtifactOutcome: the callers of the writers can count on its outcomes.
THEOREM CallsHaveTheirOutcomes == Spec => ImplementsOutcome
<1>1. Init => Outcome!Init
  <2> SUFFICES ASSUME Init PROVE Outcome!Init
    OBVIOUS
  <2>1. View = NoFiles
    <3>1. \A a \in Artifacts : Value(a) = NoFiles[a]
      BY DEF Init, Value
    <3>2. Value("metadata") = NoFiles.metadata /\ Value("prompt") = NoFiles.prompt
          /\ Value("result") = NoFiles.result /\ Value("transcript") = NoFiles.transcript
      BY <3>1 DEF Artifacts, Immutable
    <3>3. (level > 0) = FALSE /\ {a \in Artifacts : target[a] \in temps} = {}
          /\ (\E n \in temps : target[writes[n].artifact] # n) = FALSE
      BY DEF Init
    <3> QED BY <3>2, <3>3 DEF View, NoFiles
  <2>2. Told = "none"
    BY DEF Init, Told
  <2> QED BY <2>1, <2>2, SameOperators DEF Init, Outcome!Init
<1>2. IInv /\ IInv' /\ [Next]_vars => [Outcome!Next]_<<SeenFiles, SeenAnswer>>
  <2> SUFFICES ASSUME IInv, IInv', [Next]_vars
               PROVE  Outcome!Next \/ UNCHANGED <<SeenFiles, SeenAnswer>>
    OBVIOUS
  <2>1. CASE \E a \in Artifacts : \E value \in Content[a] : Begin(a, value)
    BY <2>1, BeginStutters
  <2>2. CASE \/ OpenDirectory \/ OpenTemporary \/ Fill \/ Install \/ UnlinkTemporary
             \/ SyncDirectory \/ CheckInstalled
    BY <2>2, CallStepsStutter
  <2>3. CASE Finish
    <3>1. InCall /\ This > 0 /\ before.answer # "dead"
      BY <2>3 DEF Finish, InCall, IInv, CallKnows, AnswersTrue
    <3>2. Name \in Artifacts /\ writes[This].value \in Content[Name]
      BY <3>1, ThisWrite DEF IInv
    <3>3. \/ Outcome!Refused(Name, writes[This].value)
          \/ /\ Outcome!MayInstall(before.files, Name, writes[This].value)
             /\ \/ Outcome!Written(Name, writes[This].value)
                \/ Outcome!Failed(Name, writes[This].value)
      BY <2>3, <3>2, FinishRefines, SameOperators
    <3> QED BY <3>1, <3>2, <3>3, SameOperators DEF Outcome!Next, InCall
  <2>4. CASE Crash
    <3>1. SeenAnswer # "dead" /\ SeenAnswer' = "dead"
      <4>1. pc # "dead" /\ pc' = "dead" /\ answer' = "dead"
        BY <2>4 DEF Crash, Goto
      <4>2. Told' = "dead" /\ (pc = "idle" => Told # "dead")
        BY <4>1 DEF Told, IInv, AnswersTrue
      <4> QED BY <4>1, <4>2 DEF SeenAnswer, IInv, AnswersTrue, InCall
    <3>2. CASE SeenFiles' = SeenFiles
      BY <3>1, <3>2 DEF Outcome!Next, SeenFiles, SeenAnswer
    <3>3. CASE /\ SeenFiles' # SeenFiles
               /\ This > 0 /\ MayInstall(before.files, Name, writes[This].value)
               /\ Outcome!Died(Name, writes[This].value)
      <4>1. InCall
        BY <2>4, <3>3 DEF Crash, Goto, InCall, SeenFiles, View, Value, disk
      <4>2. Name \in Artifacts /\ writes[This].value \in Content[Name]
        BY <3>3, ThisWrite DEF IInv
      <4>3. Outcome!MayInstall(before.files, Name, writes[This].value)
        BY <3>3, <4>2, SameOperators
      <4> QED BY <3>1, <3>3, <4>1, <4>2, <4>3, SameOperators
              DEF Outcome!Next, SeenAnswer, InCall
    <3> QED BY <2>4, <3>2, <3>3, CrashRefines
  <2>5. CASE PowerLoss
    BY <2>5, PowerLossRefines DEF Outcome!Next
  <2>6. CASE UNCHANGED vars
    <3>1. View' = View /\ Told' = Told
      BY <2>6 DEF vars, View, Value, Told, Name, This
    <3> QED BY <2>6, <3>1 DEF vars, SeenFiles, SeenAnswer
  <2> QED BY <2>1, <2>2, <2>3, <2>4, <2>5, <2>6 DEF Next, Proceed
<1> QED BY <1>1, <1>2, Invariant, PTL
        DEF Spec, ImplementsOutcome, Outcome!Spec, SeenFiles, SeenAnswer

-----------------------------------------------------------------------------
(* The controller that the reader of RecordReader watches *)

\* Its system calls do not fail.
NothingFails ==
    /\ level \in {0, 2} /\ temps \subseteq {This}
    /\ pc \in {"fill", "install", "unlink"} => temps = {This}
    /\ pc \in {"idle", "directory", "temporary", "sync", "finish"} => temps = {}
    /\ pc # "check" /\ (pc = "finish" => call.error = "none")

\* The artifacts are those that the first k steps of the course write.
Writes(i, a) == Courses[course][i].kind = "write" /\ Courses[course][i].artifact = a

Installed(k) ==
    \A a \in Artifacts :
        IF target[a] = 0
          THEN \A i \in 1..k : ~Writes(i, a)
          ELSE \E i \in 1..k : /\ Writes(i, a) /\ Courses[course][i].value = Value(a)
                               /\ \A j \in 1..k : j > i => ~Writes(j, a)

OnCourse ==
    /\ course \in DOMAIN Courses /\ done \in 0..Len(Courses[course])
    /\ InCall => /\ done > 0 /\ Writes(done, Name)
                 /\ Courses[course][done].value = writes[This].value
                 /\ Installed(IF Holds(Name) THEN done ELSE done - 1)
    /\ pc = "idle" => Installed(done)
    /\ pc = "dead" => Installed(done) \/ (done > 0 /\ Installed(done - 1))

\* The pair knows of the events that ArtifactsAgree looks for.
Asks(i, kind) == Courses[course][i].kind = "event" /\ Courses[course][i].request.kind = kind

PairTells ==
    /\ log \in Seq(Events) /\ st \in States
    /\ st.reason = Placeholder =>
           \E i \in 1..done :
               Asks(i, "transition") /\ Courses[course][i].request.reason = Placeholder
    /\ \A i \in 1..done :
           Asks(i, "observe") /\ Courses[course][i].request.type = "agent.completed" =>
               Positions(log, {"agent.completed"}) # {}

CInv == IInv /\ NothingFails /\ OnCourse /\ PairTells

-----------------------------------------------------------------------------
(* The courses *)

LEMMA CourseNames == DOMAIN Courses = {"completed", "violating", "timed_out", "rejected"}
BY DEF Courses

\* Which step writes what.
LEMMA CompletedCourse ==
    /\ Len(Courses["completed"]) = 12
    /\ \A i \in 1..12 : LET s == Courses["completed"][i] IN
          /\ s.kind \in {"write", "event"}
          /\ s.kind = "write" <=> i \in {4, 5, 7, 8, 9, 10}
          /\ i \in {4, 7, 10} => s.artifact = "metadata"
          /\ i = 5 => s.artifact = "prompt"
          /\ i = 8 => s.artifact = "result" /\ s.value = "completed"
          /\ i = 9 => s.artifact = "transcript" /\ s.value = TRUE
          /\ i = 4 => s.value = Planned
          /\ i = 7 => s.value = RunningMetadata
          /\ i = 10 => s.value = Ending(RunningMetadata, "completed", "completed", "kept")
    /\ \A i \in 1..12 : LET s == Courses["completed"][i] IN
          /\ s.kind = "event" => s.request \in Requests
          /\ s.kind = "event" /\ s.request.kind = "transition" =>
                 (s.request.reason = Placeholder <=> i = 12)
          /\ i = 11 => s.kind = "event" /\ s.request.kind = "observe"
                       /\ s.request.type = "agent.completed"
<1>1. Len(Courses["completed"]) = 12
  BY DEF Opening, Starting, Succeeding, Courses
<1>2. \A i \in 1..12 : LET s == Courses["completed"][i] IN
          /\ s.kind \in {"write", "event"}
          /\ s.kind = "write" <=> i \in {4, 5, 7, 8, 9, 10}
          /\ i \in {4, 7, 10} => s.artifact = "metadata"
          /\ i = 5 => s.artifact = "prompt"
          /\ i = 8 => s.artifact = "result" /\ s.value = "completed"
          /\ i = 9 => s.artifact = "transcript" /\ s.value = TRUE
          /\ i = 4 => s.value = Planned
          /\ i = 7 => s.value = RunningMetadata
          /\ i = 10 => s.value = Ending(RunningMetadata, "completed", "completed", "kept")
  BY DEF Opening, Starting, Succeeding, Courses, Write, Event, Observe, Enter
<1>3. \A i \in 1..12 : LET s == Courses["completed"][i] IN
          /\ s.kind = "event" => s.request \in Requests
          /\ s.kind = "event" /\ s.request.kind = "transition" =>
                 (s.request.reason = Placeholder <=> i = 12)
          /\ i = 11 => s.kind = "event" /\ s.request.kind = "observe"
                       /\ s.request.type = "agent.completed"
  BY ReaderAssumption
     DEF Opening, Starting, Succeeding, Courses, Write, Event, Observe, Enter, Requests,
         Observations, Terminal, Reasons, Placeholder
<1> QED BY <1>1, <1>2, <1>3

LEMMA ViolatingCourse ==
    /\ Len(Courses["violating"]) = 11
    /\ \A i \in 1..11 : LET s == Courses["violating"][i] IN
          /\ s.kind \in {"write", "event"}
          /\ s.kind = "write" <=> i \in {4, 5, 7, 8, 9}
          /\ i \in {4, 7, 9} => s.artifact = "metadata"
          /\ i = 5 => s.artifact = "prompt"
          /\ i = 8 => s.artifact = "transcript" /\ s.value = TRUE
          /\ i = 4 => s.value = Planned
          /\ i = 7 => s.value = RunningMetadata
          /\ i = 9 => s.value = Ending(RunningMetadata, "interrupted", "none", "kept")
    /\ \A i \in 1..11 : LET s == Courses["violating"][i] IN
          /\ s.kind = "event" => s.request \in Requests
          /\ s.kind = "event" /\ s.request.kind = "transition" => s.request.reason # Placeholder
<1>1. Len(Courses["violating"]) = 11
  BY DEF Opening, Starting, Violating, Courses
<1>2. \A i \in 1..11 : LET s == Courses["violating"][i] IN
          /\ s.kind \in {"write", "event"}
          /\ s.kind = "write" <=> i \in {4, 5, 7, 8, 9}
          /\ i \in {4, 7, 9} => s.artifact = "metadata"
          /\ i = 5 => s.artifact = "prompt"
          /\ i = 8 => s.artifact = "transcript" /\ s.value = TRUE
          /\ i = 4 => s.value = Planned
          /\ i = 7 => s.value = RunningMetadata
          /\ i = 9 => s.value = Ending(RunningMetadata, "interrupted", "none", "kept")
  BY DEF Opening, Starting, Violating, Courses, Write, Event, Observe, Enter
<1>3. \A i \in 1..11 : LET s == Courses["violating"][i] IN
          /\ s.kind = "event" => s.request \in Requests
          /\ s.kind = "event" /\ s.request.kind = "transition" => s.request.reason # Placeholder
  BY ReaderAssumption
     DEF Opening, Starting, Violating, Courses, Write, Event, Observe, Enter, Requests, Observations, Terminal,
         Reasons, Placeholder
<1> QED BY <1>1, <1>2, <1>3

LEMMA TimingOutCourse ==
    /\ Len(Courses["timed_out"]) = 10
    /\ \A i \in 1..10 : LET s == Courses["timed_out"][i] IN
          /\ s.kind \in {"write", "event"}
          /\ s.kind = "write" <=> i \in {4, 5, 7, 8}
          /\ i \in {4, 7, 8} => s.artifact = "metadata"
          /\ i = 5 => s.artifact = "prompt"
          /\ i = 4 => s.value = Planned
          /\ i = 7 => s.value = RunningMetadata
          /\ i = 8 => s.value = Ending(RunningMetadata, "timed_out", "none", "unavailable")
    /\ \A i \in 1..10 : LET s == Courses["timed_out"][i] IN
          /\ s.kind = "event" => s.request \in Requests
          /\ s.kind = "event" /\ s.request.kind = "transition" => s.request.reason # Placeholder
<1>1. Len(Courses["timed_out"]) = 10
  BY DEF Opening, Starting, TimingOut, Courses
<1>2. \A i \in 1..10 : LET s == Courses["timed_out"][i] IN
          /\ s.kind \in {"write", "event"}
          /\ s.kind = "write" <=> i \in {4, 5, 7, 8}
          /\ i \in {4, 7, 8} => s.artifact = "metadata"
          /\ i = 5 => s.artifact = "prompt"
          /\ i = 4 => s.value = Planned
          /\ i = 7 => s.value = RunningMetadata
          /\ i = 8 => s.value = Ending(RunningMetadata, "timed_out", "none", "unavailable")
  BY DEF Opening, Starting, TimingOut, Courses, Write, Event, Observe, Enter
<1>3. \A i \in 1..10 : LET s == Courses["timed_out"][i] IN
          /\ s.kind = "event" => s.request \in Requests
          /\ s.kind = "event" /\ s.request.kind = "transition" => s.request.reason # Placeholder
  BY ReaderAssumption
     DEF Opening, Starting, TimingOut, Courses, Write, Event, Observe, Enter, Requests, Observations, Terminal,
         Reasons, Placeholder
<1> QED BY <1>1, <1>2, <1>3

LEMMA RejectedCourse ==
    /\ Len(Courses["rejected"]) = 7
    /\ \A i \in 1..7 : LET s == Courses["rejected"][i] IN
          /\ s.kind \in {"write", "event"}
          /\ s.kind = "write" <=> i \in {4, 5, 6}
          /\ i \in {4, 6} => s.artifact = "metadata"
          /\ i = 5 => s.artifact = "prompt"
          /\ i = 4 => s.value = Planned
          /\ i = 6 => s.value = Ending(Planned, "failed", "none", "unavailable")
    /\ \A i \in 1..7 : LET s == Courses["rejected"][i] IN
          /\ s.kind = "event" => s.request \in Requests
          /\ s.kind = "event" /\ s.request.kind = "transition" => s.request.reason # Placeholder
<1>1. Len(Courses["rejected"]) = 7
  BY DEF Opening, Rejected, Courses
<1>2. \A i \in 1..7 : LET s == Courses["rejected"][i] IN
          /\ s.kind \in {"write", "event"}
          /\ s.kind = "write" <=> i \in {4, 5, 6}
          /\ i \in {4, 6} => s.artifact = "metadata"
          /\ i = 5 => s.artifact = "prompt"
          /\ i = 4 => s.value = Planned
          /\ i = 6 => s.value = Ending(Planned, "failed", "none", "unavailable")
  BY DEF Opening, Rejected, Courses, Write, Event, Observe, Enter
<1>3. \A i \in 1..7 : LET s == Courses["rejected"][i] IN
          /\ s.kind = "event" => s.request \in Requests
          /\ s.kind = "event" /\ s.request.kind = "transition" => s.request.reason # Placeholder
  BY ReaderAssumption
     DEF Opening, Rejected, Courses, Write, Event, Observe, Enter, Requests, Observations, Terminal,
         Reasons, Placeholder
<1> QED BY <1>1, <1>2, <1>3

\* A step writes or appends, and only metadata is written twice.
LEMMA Steps ==
    ASSUME course \in DOMAIN Courses, NEW i \in 1..Len(Courses[course])
    PROVE  LET s == Courses[course][i] IN
           /\ s.kind = "event" => s.request \in Requests
           /\ s.kind = "write" => s.artifact \in Artifacts /\ s.value \in Content[s.artifact]
<1>1. DOMAIN Courses[course] = 1..Len(Courses[course])
  BY DEF Courses, Opening, Starting, Succeeding, Violating, TimingOut, Rejected
<1>2. Courses[course][i].kind = "write" =>
          Courses[course][i].value \in Content[Courses[course][i].artifact]
  BY <1>1, CoursesAssumption
<1>3. CASE course = "completed" BY <1>2, <1>3, CompletedCourse DEF Artifacts, Immutable
<1>4. CASE course = "violating" BY <1>2, <1>4, ViolatingCourse DEF Artifacts, Immutable
<1>5. CASE course = "timed_out" BY <1>2, <1>5, TimingOutCourse DEF Artifacts, Immutable
<1>6. CASE course = "rejected" BY <1>2, <1>6, RejectedCourse DEF Artifacts, Immutable
<1> QED BY <1>3, <1>4, <1>5, <1>6, CourseNames

LEMMA WrittenOnce ==
    ASSUME course \in DOMAIN Courses, NEW a \in Artifacts, a # "metadata",
           NEW i \in 1..Len(Courses[course]), NEW j \in 1..Len(Courses[course]),
           Writes(i, a), Writes(j, a)
    PROVE  i = j
<1>1. a \in {"prompt", "result", "transcript"}
  BY DEF Artifacts, Immutable
<1>2. CASE course = "completed" BY <1>1, <1>2, CompletedCourse DEF Writes
<1>3. CASE course = "violating" BY <1>1, <1>3, ViolatingCourse DEF Writes
<1>4. CASE course = "timed_out" BY <1>1, <1>4, TimingOutCourse DEF Writes
<1>5. CASE course = "rejected" BY <1>1, <1>5, RejectedCourse DEF Writes
<1> QED BY <1>2, <1>3, <1>4, <1>5, CourseNames

\* The artifacts of a course agree with one another as soon as there is metadata.
LEMMA InstalledValues ==
    ASSUME IInv, NEW k \in Nat, Installed(k), NEW a \in Artifacts
    PROVE  \/ Value(a) = NoFiles[a] /\ target[a] = 0 /\ \A i \in 1..k : ~Writes(i, a)
           \/ \E i \in 1..k : /\ Writes(i, a) /\ Courses[course][i].value = Value(a)
                              /\ \A j \in 1..k : j > i => ~Writes(j, a)
BY DEF Installed, Value

\* The run is blocked for the placeholder only at the end of the course of success.
LEMMA PlaceholderTells ==
    ASSUME OnCourse, PairTells, st.reason = Placeholder
    PROVE  course = "completed" /\ done = 12 /\ Positions(log, {"agent.completed"}) # {}
<1>1. PICK i \in 1..done : Asks(i, "transition") /\ Courses[course][i].request.reason = Placeholder
  BY DEF PairTells
<1>2. course \in DOMAIN Courses /\ done \in 0..Len(Courses[course])
  BY DEF OnCourse
<1>3. CASE course = "completed"
  <2>1. i = 12 /\ done = 12
    BY <1>1, <1>2, <1>3, CompletedCourse DEF Asks
  <2>2. Asks(11, "observe") /\ Courses[course][11].request.type = "agent.completed"
    BY <1>3, CompletedCourse DEF Asks
  <2> QED BY <1>3, <2>1, <2>2 DEF PairTells
<1>4. CASE course = "violating" BY <1>1, <1>2, <1>4, ViolatingCourse DEF Asks
<1>5. CASE course = "timed_out" BY <1>1, <1>2, <1>5, TimingOutCourse DEF Asks
<1>6. CASE course = "rejected" BY <1>1, <1>2, <1>6, RejectedCourse DEF Asks
<1> QED BY <1>2, <1>3, <1>4, <1>5, <1>6, CourseNames

LEMMA Fields ==
    ASSUME NEW status, NEW result, NEW transcript
    PROVE  /\ Planned.status = "planned" /\ Planned.session = None
           /\ RunningMetadata.status = "running" /\ RunningMetadata.session = Session
           /\ \A m \in {Planned, RunningMetadata} :
                 LET e == Ending(m, status, result, transcript) IN
                 /\ e.status = status /\ e.session = m.session
                 /\ e.result = result /\ e.transcript = transcript
BY DEF Planned, RunningMetadata, Ending, NoMetadata

LEMMA ValuesAgree ==
    ASSUME IInv, OnCourse, PairTells, target["metadata"] # 0,
           NEW k \in 0..done, Installed(k), k >= done - 1
    PROVE  ArtifactsAgree(Value("metadata"), Value("result"), Value("transcript"), st, log)
<1> DEFINE m == Value("metadata")
<1>1. /\ course \in DOMAIN Courses /\ done \in 0..Len(Courses[course]) /\ k \in Nat
      /\ k <= Len(Courses[course]) /\ Len(Courses[course]) \in Nat
  BY CourseNames, CompletedCourse, ViolatingCourse, TimingOutCourse, RejectedCourse DEF OnCourse
<1>2. PICK i \in 1..k : /\ Writes(i, "metadata") /\ Courses[course][i].value = m
                        /\ \A j \in 1..k : j > i => ~Writes(j, "metadata")
  BY DEF Installed, Artifacts
<1>3. \/ Value("result") = "none" /\ \A j \in 1..k : ~Writes(j, "result")
      \/ \E j \in 1..k : Writes(j, "result") /\ Courses[course][j].value = Value("result")
  BY <1>1, InstalledValues DEF Artifacts, Immutable, NoFiles
<1>4. /\ target["transcript"] # 0 <=> \E j \in 1..k : Writes(j, "transcript")
      /\ target["transcript"] = 0 => Value("transcript") = FALSE
      /\ target["transcript"] # 0 => Value("transcript") = TRUE
  <2>1. target["transcript"] # 0 <=> \E j \in 1..k : Writes(j, "transcript")
    BY DEF Installed, Artifacts, Immutable
  <2>2. target["transcript"] = 0 => Value("transcript") = FALSE
    BY NoFilesTypes DEF Value
  <2>3. target["transcript"] # 0 => Value("transcript") = TRUE
    BY ValueTypes, ContentTypes DEF IInv, Artifacts, Immutable
  <2> QED BY <2>1, <2>2, <2>3
<1>5. Session # None
  BY ReaderAssumption, HistoryAssumption
<1>6. st.reason = Placeholder =>
          course = "completed" /\ k >= 11 /\ Positions(log, {"agent.completed"}) # {}
  BY PlaceholderTells
<1> HIDE DEF m
<1>7. CASE course = "completed"
  <2>1. \/ m = Planned /\ k < 7
        \/ m = RunningMetadata /\ k < 10 /\ k >= 7
        \/ m = Ending(RunningMetadata, "completed", "completed", "kept") /\ k >= 10
    BY <1>1, <1>2, <1>7, CompletedCourse DEF Writes
  <2>2. Value("result") = IF k < 8 THEN "none" ELSE "completed"
    BY <1>1, <1>3, <1>7, CompletedCourse DEF Writes
  <2>3. target["transcript"] # 0 <=> k >= 9
    BY <1>1, <1>4, <1>7, CompletedCourse DEF Writes
  <2>4. (k < 9 => Value("transcript") = FALSE) /\ (k >= 9 => Value("transcript") = TRUE)
    BY <1>1, <1>4, <2>3
  <2>5. CASE m = Planned /\ k < 7
    BY <1>1, <1>6, <2>2, <2>4, <2>5 DEF m, ArtifactsAgree, Planned, NoMetadata, Final, Results
  <2>6. CASE m = RunningMetadata /\ k < 10 /\ k >= 7
    <3>1. st.reason # Placeholder
      BY <1>1, <1>6, <2>6
    <3>2. m.status = "running" /\ m.session # None
      BY <1>5, <2>6, Fields
    <3> QED BY <3>1, <3>2 DEF m, ArtifactsAgree, Final, Results
  <2>7. CASE m = Ending(RunningMetadata, "completed", "completed", "kept") /\ k >= 10
    <3>1. /\ m.status = "completed" /\ m.session # None
          /\ m.result = "completed" /\ m.transcript = "kept"
      BY <1>5, <2>7, Fields
    <3>2. Value("result") = "completed" /\ Value("transcript") = TRUE
      BY <1>1, <2>2, <2>4, <2>7
    <3> QED BY <1>6, <3>1, <3>2 DEF m, ArtifactsAgree, Final, Results
  <2> QED BY <2>1, <2>5, <2>6, <2>7
<1>8. CASE course = "violating"
  <2>1. \/ m = Planned /\ k < 7
        \/ m = RunningMetadata /\ k < 9 /\ k >= 7
        \/ m = Ending(RunningMetadata, "interrupted", "none", "kept") /\ k >= 9
    BY <1>1, <1>2, <1>8, ViolatingCourse DEF Writes
  <2>2. Value("result") = "none"
    BY <1>1, <1>3, <1>8, ViolatingCourse DEF Writes
  <2>3. target["transcript"] # 0 <=> k >= 8
    BY <1>1, <1>4, <1>8, ViolatingCourse DEF Writes
  <2>4. (k < 8 => Value("transcript") = FALSE) /\ (k >= 8 => Value("transcript") = TRUE)
    BY <1>1, <1>4, <2>3
  <2>5. CASE m = Planned /\ k < 7
    BY <1>1, <1>6, <1>8, <2>2, <2>4, <2>5
       DEF m, ArtifactsAgree, Planned, NoMetadata, Final, Results
  <2>6. CASE m = RunningMetadata /\ k < 9 /\ k >= 7
    BY <1>1, <1>5, <1>6, <1>8, <2>6
       DEF m, ArtifactsAgree, RunningMetadata, Planned, NoMetadata, Final, Results
  <2>7. CASE m = Ending(RunningMetadata, "interrupted", "none", "kept") /\ k >= 9
    <3>1. /\ m.status = "interrupted" /\ m.session # None
          /\ m.result = "none" /\ m.transcript = "kept"
      BY <1>5, <2>7, Fields
    <3>2. Value("transcript") = TRUE
      BY <1>1, <2>4, <2>7
    <3> QED BY <1>6, <1>8, <2>2, <3>1, <3>2 DEF m, ArtifactsAgree, Final, Results
  <2> QED BY <2>1, <2>5, <2>6, <2>7
<1>9. CASE course = "timed_out"
  <2>1. \/ m = Planned
        \/ m = RunningMetadata
        \/ m = Ending(RunningMetadata, "timed_out", "none", "unavailable")
    BY <1>1, <1>2, <1>9, TimingOutCourse DEF Writes
  <2>2. Value("result") = "none" /\ Value("transcript") = FALSE
    BY <1>1, <1>3, <1>4, <1>9, TimingOutCourse DEF Writes
  <2> QED BY <1>6, <1>9, <2>1, <2>2
          DEF m, ArtifactsAgree, Planned, RunningMetadata, Ending, NoMetadata, Final, Results
<1>10. CASE course = "rejected"
  <2>1. m = Planned \/ m = Ending(Planned, "failed", "none", "unavailable")
    BY <1>1, <1>2, <1>10, RejectedCourse DEF Writes
  <2>2. Value("result") = "none" /\ Value("transcript") = FALSE
    BY <1>1, <1>3, <1>4, <1>10, RejectedCourse DEF Writes
  <2> QED BY <1>6, <1>10, <2>1, <2>2
          DEF m, ArtifactsAgree, Planned, Ending, NoMetadata, Final, Results
<1> QED BY <1>1, <1>7, <1>8, <1>9, <1>10, CourseNames

LEMMA AlwaysAgree ==
    ASSUME CInv, target["metadata"] # 0
    PROVE  ArtifactsAgree(Value("metadata"), Value("result"), Value("transcript"), st, log)
<1>1. \E k \in 0..done : Installed(k) /\ k >= done - 1
  <2>1. done \in Nat
    BY CourseNames, CompletedCourse, ViolatingCourse, TimingOutCourse, RejectedCourse
       DEF CInv, OnCourse
  <2>2. CASE InCall
    BY <2>1, <2>2 DEF CInv, OnCourse
  <2>3. CASE pc = "idle"
    BY <2>1, <2>3 DEF CInv, OnCourse
  <2>4. CASE pc = "dead"
    BY <2>1, <2>4 DEF CInv, OnCourse
  <2> QED BY <2>2, <2>3, <2>4 DEF InCall
<1> QED BY <1>1, ValuesAgree DEF CInv

-----------------------------------------------------------------------------
(* The steps of the controller *)

\* What was written stays.
Kept ==
    /\ This' \in {This, This + 1}
    /\ \A n \in 1..This : /\ writes'[n].artifact = writes[n].artifact
                          /\ writes'[n].value = writes[n].value

\* A step of a call that does not fail.
CallStep ==
    \/ pc = "directory" /\ pc' = "temporary" /\ level' = 2 /\ UNCHANGED <<target, temps>>
    \/ pc = "temporary" /\ pc' = "fill" /\ temps' = {This} /\ UNCHANGED <<level, target>>
    \/ pc = "fill" /\ pc' = "install" /\ UNCHANGED disk
    \/ /\ pc = "install" /\ pc' = IF call.replace THEN "sync" ELSE "unlink"
       /\ target' = [target EXCEPT ![Name] = This]
       /\ temps' = IF call.replace THEN {} ELSE {This}
       /\ UNCHANGED level
    \/ pc = "unlink" /\ pc' = "sync" /\ temps' = {} /\ UNCHANGED <<level, target>>
    \/ pc = "sync" /\ pc' = "finish" /\ call'.error = "none" /\ UNCHANGED disk
    \/ pc = "finish" /\ pc' = "idle" /\ UNCHANGED disk

CallBegins ==
    /\ pc = "idle" /\ pc' = "directory" /\ UNCHANGED disk
    /\ done < Len(Courses[course]) /\ done' = done + 1 /\ This' = This + 1
    /\ Writes(done', Name') /\ Courses[course][done'].value = writes'[This'].value

LEMMA RecordTypes ==
    ASSUME CInv
    PROVE  /\ Typed /\ NamesAreGood /\ This \in Nat /\ course \in DOMAIN Courses
           /\ Len(Courses[course]) \in Nat /\ done \in Nat /\ done <= Len(Courses[course])
           /\ InCall => This > 0 /\ Name \in Artifacts
           /\ \A a \in Artifacts : target[a] \in 0..This
<1>1. Typed /\ NamesAreGood /\ OnCourse
  BY DEF CInv, IInv
<1>2. Len(Courses[course]) \in Nat /\ course \in DOMAIN Courses
  BY <1>1, CourseNames, CompletedCourse, ViolatingCourse, TimingOutCourse, RejectedCourse
     DEF OnCourse
<1>3. InCall => This > 0 /\ Name \in Artifacts
  BY <1>1, ThisWrite DEF CInv, IInv, CallKnows
<1>4. \A a \in Artifacts : target[a] \in 0..This
  BY <1>1 DEF NamesAreGood, Good, Typed, This
<1> QED BY <1>1, <1>2, <1>3, <1>4 DEF OnCourse, Typed, This

LEMMA ProceedSteps ==
    ASSUME CInv, Proceed, UNCHANGED faults
    PROVE  SameWrites /\ InCall /\ CallStep
<1>1. /\ Typed /\ NothingFails /\ CallKnows /\ SinceBegin /\ OnCourse /\ faults \in Nat
      /\ NamesAreGood
  BY WriteAssumption DEF CInv, IInv, Typed
<1>2. \A c : ~Fault(c)
  BY <1>1 DEF Fault
<1>3. CASE OpenDirectory
  <2>1. /\ pc = "directory" /\ SameWrites /\ UNCHANGED <<target, temps>> /\ InCall
        /\ level' = 2 /\ Destination
    BY <1>2, <1>3, UnchangedWrites DEF OpenDirectory, InCall
  <2>2. Name \in Artifacts /\ ~Holds(Name) /\ temps = {}
    BY <1>1, <2>1, ThisWrite DEF CallKnows, NothingFails
  <2>3. ASSUME target[Name] # 0 PROVE call.replace /\ Links(target[Name]) = 1
    <3>1. Name = "metadata"
      <4> SUFFICES ASSUME Name # "metadata" PROVE FALSE
        OBVIOUS
      <4>1. Installed(done - 1) /\ Writes(done, Name) /\ done > 0
        BY <1>1, <2>1, <2>2 DEF OnCourse
      <4>2. PICK i \in 1..(done - 1) : Writes(i, Name)
        BY <2>2, <2>3, <4>1 DEF Installed
      <4> QED BY <2>2, <4>1, <4>2, WrittenOnce, RecordTypes
    <3>2. call.replace
      BY <1>1, <2>1, <2>3, <3>1 DEF SinceBegin
    <3> QED BY <1>1, <2>2, <2>3, <3>2, LinkCount
  <2>4. pc' = "temporary"
    BY <2>1, <2>3 DEF Destination, Goto
  <2> QED BY <2>1, <2>4 DEF CallStep
<1>4. CASE OpenTemporary
  <2>1. pc = "temporary" /\ temps = {}
    BY <1>1, <1>4 DEF OpenTemporary, NothingFails
  <2> QED BY <1>2, <1>4, <2>1, UnchangedWrites DEF OpenTemporary, Goto, InCall, CallStep
<1>5. CASE Fill
  <2>1. /\ pc = "fill" /\ pc' = "install" /\ UNCHANGED disk
        /\ writes' = [writes EXCEPT ![This].whole = TRUE, ![This].synced = TRUE]
    BY <1>2, <1>5 DEF Fill, Goto
  <2>2. InCall /\ This \in 1..This /\ writes \in Seq(Entries)
    BY <1>1, <2>1, ThisWrite DEF InCall, CallKnows, Typed
  <2>3. SameWrites
    BY <2>1, <2>2 DEF SameWrites, This, Entries
  <2> QED BY <2>1, <2>2, <2>3 DEF CallStep
<1>6. CASE Install
  <2>1. pc = "install" /\ temps = {This} /\ InCall
    BY <1>1, <1>6 DEF Install, NothingFails, InCall
  <2>2. Installs /\ Goto(IF call.replace THEN "sync" ELSE "unlink",
                         [call EXCEPT !.installed = TRUE])
    BY <1>2, <1>6 DEF Install
  <2>3. SameWrites /\ UNCHANGED level
    BY <1>6, UnchangedWrites DEF Install
  <2> QED BY <2>1, <2>2, <2>3 DEF Installs, Goto, CallStep
<1>7. CASE UnlinkTemporary
  <2>1. pc = "unlink" /\ temps = {This} /\ InCall
    BY <1>1, <1>7 DEF UnlinkTemporary, NothingFails, InCall
  <2> QED BY <1>2, <1>7, <2>1, UnchangedWrites DEF UnlinkTemporary, Goto, CallStep
<1>8. CASE SyncDirectory
  <2>1. pc = "sync" /\ InCall /\ call.error = "none"
    BY <1>1, <1>8 DEF SyncDirectory, CallKnows, InCall
  <2> QED BY <1>2, <1>8, <2>1, UnchangedWrites DEF SyncDirectory, Goto, CallStep
<1>9. CASE CheckInstalled
  BY <1>1, <1>9 DEF CheckInstalled, NothingFails
<1>10. CASE Finish
  <2>1. pc = "finish" /\ temps = {} /\ InCall
    BY <1>1, <1>10 DEF Finish, NothingFails, InCall
  <2>2. /\ temps' = temps \ {This} /\ pc' = "idle" /\ UNCHANGED <<level, target, writes>>
    BY <1>1, <1>10 DEF Finish, Goto
  <2> QED BY <2>1, <2>2, UnchangedWrites DEF CallStep, disk
<1> QED BY <1>3, <1>4, <1>5, <1>6, <1>7, <1>8, <1>9, <1>10 DEF Proceed

LEMMA BeginSteps ==
    ASSUME CInv, Due("write"), Begin(Step.artifact, Step.value), done' = done + 1
    PROVE  /\ Step.artifact \in Artifacts /\ Step.value \in Content[Step.artifact]
           /\ CallBegins
           /\ \A n \in 1..This : writes'[n] = writes[n]
<1> DEFINE s == Courses[course][done + 1]
           entry == [artifact |-> s.artifact, value |-> s.value, whole |-> FALSE,
                     synced |-> FALSE]
<1>1. /\ done + 1 \in 1..Len(Courses[course]) /\ s.kind = "write" /\ Step = s
      /\ course \in DOMAIN Courses
      /\ writes \in Seq(Entries) /\ This \in Nat
  BY RecordTypes DEF Due, Step, Typed
<1>2. s.artifact \in Artifacts /\ s.value \in Content[s.artifact]
  BY <1>1, Steps
<1>3. writes' = Append(writes, entry) /\ pc = "idle" /\ pc' = "directory" /\ UNCHANGED disk
  BY <1>1 DEF Begin, Goto
<1>4. This' = This + 1 /\ writes'[This'] = entry /\ \A n \in 1..This : writes'[n] = writes[n]
  BY <1>1, <1>3 DEF This
<1>5. Name' = s.artifact /\ writes'[This'].value = s.value
  BY <1>4 DEF Name
<1>6. Writes(done', Name') /\ Courses[course][done'].value = writes'[This'].value
  BY <1>1, <1>5 DEF Writes
<1> QED BY <1>1, <1>2, <1>3, <1>4, <1>6 DEF CallBegins, Due

\* What is installed stays, and a step that is not a write adds nothing.
LEMMA InstalledStays ==
    ASSUME CInv, Kept, UNCHANGED <<target, course>>, NEW k \in Nat, Installed(k)
    PROVE  Installed(k)'
<1>1. \A a \in Artifacts : target[a] # 0 => target[a] \in 1..This
  BY RecordTypes
<1>2. \A a \in Artifacts : Value(a)' = Value(a)
  BY <1>1 DEF Value, Kept
<1> QED BY <1>2 DEF Installed, Writes

LEMMA InstalledFollows ==
    ASSUME CInv, NEW k \in Nat, Installed(k), Courses[course][k + 1].kind = "event"
    PROVE  Installed(k + 1)
<1>1. \A a \in Artifacts : ~Writes(k + 1, a)
  BY DEF Writes
<1>2. \A i \in 1..(k + 1) : i \in 1..k \/ i = k + 1
  OBVIOUS
<1>3. 1..k \subseteq 1..(k + 1)
  OBVIOUS
<1> QED BY <1>1, <1>2, <1>3 DEF Installed

LEMMA CallKept ==
    ASSUME CInv, SameWrites, CallStep, UNCHANGED <<course, done>>
    PROVE  /\ Kept /\ InCall /\ This' = This /\ Name' = Name /\ This > 0
           /\ writes'[This].value = writes[This].value
<1>1. InCall
  BY DEF CallStep, InCall
<1>2. This > 0 /\ Typed
  BY <1>1, RecordTypes
<1> QED BY <1>1, <1>2, SameName DEF Kept, SameWrites

LEMMA NothingFailsStays ==
    ASSUME CInv, SameWrites, CallStep, UNCHANGED <<course, done>>
    PROVE  NothingFails'
BY CallKept DEF CInv, NothingFails, CallStep, disk

LEMMA OnCourseStays ==
    ASSUME CInv, SameWrites, CallStep, UNCHANGED <<course, done>>
    PROVE  OnCourse'
<1>1. /\ Kept /\ InCall /\ This' = This /\ Name' = Name /\ This > 0
      /\ writes'[This].value = writes[This].value
  BY CallKept
<1>2. /\ Typed /\ NamesAreGood /\ course \in DOMAIN Courses /\ done \in Nat \ {0}
      /\ Writes(done, Name) /\ Name \in Artifacts /\ This \in 1..This
      /\ Courses[course][done].value = writes[This].value
      /\ Installed(IF Holds(Name) THEN done ELSE done - 1)
      /\ done \in 0..Len(Courses[course])
  BY <1>1, RecordTypes DEF CInv, OnCourse
<1>3. Writes(done, Name)' /\ course' \in DOMAIN Courses /\ done' \in 0..Len(Courses[course'])
      /\ done' > 0 /\ Courses[course'][done'].value = writes'[This'].value
  BY <1>1, <1>2 DEF Writes
<1>4. CASE pc = "install"
  <2>1. target' = [target EXCEPT ![Name] = This] /\ InCall' /\ ~Holds(Name) /\ CallKnows
    BY <1>4 DEF CallStep, InCall, CInv, IInv, CallKnows
  <2>2. Holds(Name)' /\ Value(Name)' = writes[This].value /\ target'[Name] # 0
    BY <1>1, <1>2, <2>1 DEF Holds, Value, Typed
  <2>3. \A a \in Artifacts \ {Name} : target'[a] = target[a] /\ ~Writes(done, a)
    BY <1>2, <2>1 DEF Writes, Typed
  <2>4. \A a \in Artifacts \ {Name} : Value(a)' = Value(a)
    BY <1>1, <2>3, RecordTypes DEF Value, Kept
  <2>5. Installed(done - 1)
    BY <1>2, <2>1
  <2>6. Installed(done)'
    <3> SUFFICES ASSUME NEW a \in Artifacts
                 PROVE  IF target'[a] = 0
                          THEN \A i \in 1..done : ~Writes(i, a)
                          ELSE \E i \in 1..done :
                                  /\ Writes(i, a) /\ Courses[course][i].value = Value(a)'
                                  /\ \A j \in 1..done : j > i => ~Writes(j, a)
      BY DEF Installed, Writes
    <3>1. CASE a = Name
      <4>1. /\ done \in 1..done /\ \A j \in 1..done : ~(j > done)
            /\ Writes(done, a) /\ Courses[course][done].value = Value(a)' /\ target'[a] # 0
        BY <1>1, <1>2, <2>2, <3>1
      <4> QED BY <4>1
    <3>2. CASE a # Name
      <4>1. target'[a] = target[a] /\ Value(a)' = Value(a) /\ ~Writes(done, a)
        BY <2>3, <2>4, <3>2
      <4>2. \A i \in 1..done : i \in 1..(done - 1) \/ i = done
        BY <1>2
      <4>3. 1..(done - 1) \subseteq 1..done
        BY <1>2
      <4> QED BY <2>5, <4>1, <4>2, <4>3 DEF Installed
    <3> QED BY <3>1, <3>2
  <2> QED BY <1>1, <1>3, <2>1, <2>2, <2>6 DEF OnCourse, InCall
<1>5. CASE pc # "install"
  <2>1. UNCHANGED target /\ (Holds(Name)' <=> Holds(Name)) /\ pc' # "dead"
    BY <1>1, <1>5 DEF CallStep, disk, Holds
  <2>2. Installed(IF Holds(Name) THEN done ELSE done - 1)'
    <3>1. CASE Holds(Name) BY <1>1, <1>2, <2>1, <3>1, InstalledStays
    <3>2. CASE ~Holds(Name)
      <4>1. done - 1 \in Nat /\ Installed(done - 1)
        BY <1>2, <3>2
      <4>2. Installed(done - 1)'
        BY <1>1, <2>1, <4>1, InstalledStays
      <4> QED BY <2>1, <3>2, <4>2
    <3> QED BY <3>1, <3>2
  <2>3. ASSUME pc' = "idle" PROVE Installed(done)'
    <3>1. Holds(Name)
      BY <2>3 DEF CallStep, CInv, IInv, CallKnows, InCall, NothingFails
    <3> QED BY <2>1, <2>2, <3>1
  <2> QED BY <1>1, <1>3, <2>1, <2>2, <2>3 DEF OnCourse
<1> QED BY <1>4, <1>5

\* What WriteRecord does, and that it is a step of ArtifactWrite.
LEMMA WriteSteps ==
    ASSUME CInv, WriteRecord
    PROVE  /\ Next /\ Kept /\ UNCHANGED <<course, log, st, query>>
           /\ \/ CallBegins
              \/ SameWrites /\ CallStep /\ UNCHANGED done
              \/ pc # "dead" /\ pc' = "dead" /\ UNCHANGED <<disk, writes, done>>
<1>1. UNCHANGED <<course, log, st, query>>
  BY DEF WriteRecord, pair
<1>2. CASE Due("write") /\ Begin(Step.artifact, Step.value) /\ done' = done + 1
  <2>1. /\ Step.artifact \in Artifacts /\ Step.value \in Content[Step.artifact]
        /\ CallBegins /\ \A n \in 1..This : writes'[n] = writes[n]
    BY <1>2, BeginSteps
  <2>2. Next
    BY <1>2, <2>1 DEF Next
  <2> QED BY <1>1, <2>1, <2>2 DEF CallBegins, Kept
<1>3. CASE Proceed /\ UNCHANGED <<faults, done>>
  <2>1. SameWrites /\ CallStep /\ UNCHANGED done
    BY <1>3, ProceedSteps
  <2> QED BY <1>1, <1>3, <2>1, CallKept DEF Next
<1>4. CASE Crash /\ UNCHANGED <<faults, done>>
  <2>1. pc # "dead" /\ pc' = "dead" /\ UNCHANGED <<disk, writes, done>>
    BY <1>4 DEF Crash, Goto
  <2> QED BY <1>1, <1>4, <2>1 DEF Next, Kept, This
<1> QED BY <1>2, <1>3, <1>4 DEF WriteRecord

LEMMA WriteKeeps ==
    ASSUME CInv, WriteRecord
    PROVE  CInv'
<1>1. /\ Next /\ Kept /\ UNCHANGED <<course, log, st>>
      /\ IInv /\ NothingFails /\ OnCourse /\ PairTells
      /\ This \in Nat /\ done \in Nat /\ course \in DOMAIN Courses /\ Len(Courses[course]) \in Nat
  BY WriteSteps, RecordTypes DEF CInv
<1>2. IInv'
  BY <1>1, Inductive
<1>3. CASE CallBegins
  <2>1. /\ pc = "idle" /\ pc' = "directory" /\ UNCHANGED <<level, target, temps>> /\ temps = {}
        /\ done' = done + 1 /\ done < Len(Courses[course]) /\ This' = This + 1
    BY <1>1, <1>3 DEF CallBegins, disk, NothingFails
  <2>2. NothingFails'
    BY <1>1, <2>1 DEF NothingFails
  <2>3. PICK k \in Nat : k = done /\ Installed(k)'
    <3>1. Installed(done)
      BY <1>1, <2>1 DEF OnCourse
    <3> QED BY <1>1, <2>1, <3>1, InstalledStays
  <2>4. Writes(done, Name)' /\ Courses[course'][done'].value = writes'[This'].value
    BY <1>1, <1>3 DEF CallBegins, Writes
  <2>5. ~Holds(Name)'
    <3>1. Name' \in Artifacts
      BY <1>1, <2>1, <2>4, Steps DEF Writes
    <3>2. target[Name'] \in 0..This
      BY <3>1, RecordTypes
    <3> QED BY <1>1, <2>1, <3>2 DEF Holds
  <2>6. OnCourse'
    BY <1>1, <2>1, <2>3, <2>4, <2>5 DEF OnCourse, InCall
  <2>7. PairTells'
    <3>1. Courses[course][done + 1].kind = "write"
      BY <1>1, <1>3, <2>1, <2>4 DEF Writes
    <3>2. \A i \in 1..done' : i \in 1..done \/ i = done + 1
      BY <1>1, <2>1
    <3>3. 1..done \subseteq 1..done'
      BY <1>1, <2>1
    <3> QED BY <1>1, <3>1, <3>2, <3>3 DEF PairTells, Asks
  <2> QED BY <1>2, <2>2, <2>6, <2>7 DEF CInv
<1>4. CASE SameWrites /\ CallStep /\ UNCHANGED done
  <2>1. NothingFails' /\ OnCourse'
    BY <1>1, <1>4, NothingFailsStays, OnCourseStays
  <2>2. PairTells'
    BY <1>1, <1>4 DEF PairTells, Asks
  <2> QED BY <1>2, <2>1, <2>2 DEF CInv
<1>5. CASE pc # "dead" /\ pc' = "dead" /\ UNCHANGED <<disk, writes, done>>
  <2>1. NothingFails'
    BY <1>1, <1>5 DEF NothingFails, disk, This
  <2>2. OnCourse'
    <3>1. PICK k \in Nat : Installed(k) /\ (k = done \/ (done > 0 /\ k = done - 1))
      <4>1. CASE InCall
        BY <1>1, <4>1 DEF OnCourse
      <4>2. CASE pc = "idle"
        BY <1>1, <4>2 DEF OnCourse
      <4> QED BY <1>5, <4>1, <4>2 DEF InCall
    <3>2. Installed(k)'
      BY <1>1, <1>5, <3>1, InstalledStays DEF disk
    <3> QED BY <1>1, <1>5, <3>1, <3>2 DEF OnCourse, InCall
  <2>3. PairTells'
    BY <1>1, <1>5 DEF PairTells, Asks
  <2> QED BY <1>2, <2>1, <2>2, <2>3 DEF CInv
<1> QED BY <1>3, <1>4, <1>5, WriteSteps

\* Neither does the reader change anything.
LEMMA ReaderKeeps ==
    ASSUME CInv, UNCHANGED <<vars, course, done, pair>>
    PROVE  CInv'
<1>1. /\ UNCHANGED <<level, target, temps, writes, pc, call, course, done, log, st>>
      /\ UNCHANGED vars
  BY DEF vars, pair
<1>2. IInv'
  BY <1>1, Stuttering DEF CInv
<1> QED BY <1>1, <1>2
        DEF CInv, NothingFails, OnCourse, PairTells, This, InCall, Writes, Name, Installed,
            Holds, Value, Asks

-----------------------------------------------------------------------------
(* The events of the controller *)

\* Whatever is written is an event, and what follows from it is a snapshot.
LEMMA WrittenEvent ==
    ASSUME log \in Seq(Events), st \in States, NEW r \in Requests,
           MayWrite(st, log, log # << >>, r), NEW e, e = NextEvent(st, r)
    PROVE  /\ e \in Events /\ Apply(st, e) \in States
           /\ r.kind = "observe" => e.type = r.type
           /\ r.kind # "observe" => e.type \notin Observations /\ e.reason \in {"none", r.reason}
           /\ r.kind # "transition" => e.reason = "none"
<1>1. CASE r.kind = "initial"
  BY <1>1 DEF NextEvent, Requests, Events, EventTypes, Observations, WorkflowStates, Reasons,
     Apply, States
<1>2. CASE r.kind # "initial"
  <2>1. PairAgrees(st, log)
    BY <1>2 DEF MayWrite, Requests
  <2>2. log # << >> /\ st.run = log[Len(log)].run
    BY <2>1 DEF PairAgrees, ValidHistory
  <2>3. log[Len(log)] \in Events
    BY <2>2
  <2>4. st.run \in Runs
    BY <2>2, <2>3 DEF Events
  <2>5. CASE r.kind = "transition"
    <3>1. Allowed(st.state, r.to) \in EventTypes \ Observations
      BY <2>5 DEF MayWrite, Allowed, EventTypes, Observations
    <3>2. r.to \in WorkflowStates /\ r.reason \in Reasons
      BY <2>5 DEF Requests, WorkflowStates, Terminal, Reasons
    <3>3. e = [type |-> Allowed(st.state, r.to), to |-> r.to, run |-> st.run,
               session |-> None, reason |-> r.reason]
      BY <2>5 DEF NextEvent
    <3>4. e \in Events
      BY <2>4, <3>1, <3>2, <3>3 DEF Events
    <3> QED BY <2>5, <3>1, <3>3, <3>4 DEF Apply, States, Events
  <2>6. CASE r.kind = "observe"
    <3>1. r.type \in EventTypes /\ r.session \in Sessions \cup {None}
      BY <2>6 DEF Requests, EventTypes, Observations
    <3>2. e = [type |-> r.type, to |-> "validating", run |-> st.run,
               session |-> r.session, reason |-> "none"]
      BY <2>6 DEF NextEvent
    <3>3. e \in Events
      BY <2>4, <3>1, <3>2 DEF Events, WorkflowStates, Reasons
    <3> QED BY <2>6, <3>2, <3>3 DEF Apply, States, Events
  <2> QED BY <1>2, <2>5, <2>6 DEF Requests
<1> QED BY <1>1, <1>2

LEMMA AppendKeeps ==
    ASSUME CInv, AppendEvent
    PROVE  CInv'
<1> DEFINE r == Step.request
           e == NextEvent(st, r)
<1>1. /\ UNCHANGED <<level, target, temps, writes, pc, call, course>> /\ UNCHANGED vars
      /\ pc = "idle" /\ done < Len(Courses[course]) /\ done' = done + 1
      /\ log' = Append(log, e) /\ st' = Apply(st, e) /\ MayWrite(st, log, log # << >>, r)
      /\ Courses[course][done + 1].kind = "event" /\ Courses[course][done + 1].request = r
  BY DEF AppendEvent, Due, Step, vars
<1>2. /\ NothingFails /\ OnCourse /\ PairTells
      /\ done \in Nat /\ course \in DOMAIN Courses /\ Len(Courses[course]) \in Nat
  BY RecordTypes DEF CInv
<1>3. IInv'
  BY <1>1, Stuttering DEF CInv
<1>4. NothingFails'
  BY <1>1, <1>2 DEF NothingFails, This
<1>5. OnCourse'
  <2>1. PICK k \in Nat : k = done /\ Installed(k)
    BY <1>1, <1>2 DEF OnCourse
  <2>2. Installed(k + 1)
    BY <1>1, <2>1, InstalledFollows
  <2>3. Installed(k + 1)'
    BY <1>1, <2>2 DEF Installed, Writes, Value
  <2> QED BY <1>1, <1>2, <2>1, <2>3 DEF OnCourse, InCall
<1>6. PairTells'
  <2>1. r \in Requests
    BY <1>1, <1>2, Steps
  <2>2. /\ e \in Events /\ Apply(st, e) \in States
        /\ r.kind = "observe" => e.type = r.type
        /\ r.kind # "observe" => e.type \notin Observations /\ e.reason \in {"none", r.reason}
        /\ r.kind # "transition" => e.reason = "none"
    BY <1>1, <1>2, <2>1, WrittenEvent DEF PairTells
  <2> HIDE DEF e
  <2>3. log' \in Seq(Events) /\ st' \in States
    BY <1>1, <1>2, <2>2 DEF PairTells
  <2>4. /\ \A i \in 1..done' : i \in 1..done \/ i = done + 1
        /\ done + 1 \in 1..done' /\ 1..done \subseteq 1..done'
    BY <1>1, <1>2
  <2>5. ASSUME st'.reason = Placeholder
        PROVE  \E i \in 1..done' :
                   Asks(i, "transition") /\ Courses[course][i].request.reason = Placeholder
    <3>1. st'.reason = IF e.type \in Observations THEN st.reason ELSE e.reason
      BY <1>1 DEF Apply
    <3>2. CASE e.type \in Observations
      BY <1>2, <2>4, <2>5, <3>1, <3>2 DEF PairTells
    <3>3. CASE e.type \notin Observations
      <4>1. e.reason = Placeholder
        BY <2>5, <3>1, <3>3
      <4>2. r.kind = "transition" /\ r.reason = Placeholder
        BY <2>2, <4>1 DEF Placeholder
      <4> QED BY <1>1, <2>4, <4>2 DEF Asks
    <3> QED BY <3>2, <3>3
  <2>6. ASSUME NEW i \in 1..done', Asks(i, "observe"),
               Courses[course][i].request.type = "agent.completed"
        PROVE  Positions(log', {"agent.completed"}) # {}
    <3>1. DOMAIN log' = 1..(Len(log) + 1) /\ log'[Len(log) + 1] = e /\ Len(log) \in Nat
          /\ \A j \in DOMAIN log : j \in DOMAIN log' /\ log'[j] = log[j]
      BY <1>1, <1>2, <2>2 DEF PairTells
    <3>2. CASE i \in 1..done
      <4>1. Positions(log, {"agent.completed"}) # {}
        BY <1>2, <2>6, <3>2 DEF PairTells
      <4> QED BY <3>1, <4>1 DEF Positions
    <3>3. CASE i = done + 1
      <4>1. e.type = "agent.completed"
        BY <1>1, <2>2, <2>6, <3>3 DEF Asks
      <4> QED BY <3>1, <4>1 DEF Positions
    <3> QED BY <2>4, <3>2, <3>3
  <2> QED BY <1>1, <2>3, <2>5, <2>6 DEF PairTells, Asks
<1> QED BY <1>3, <1>4, <1>5, <1>6 DEF CInv

LEMMA ReaderBegins ==
    ASSUME ReaderInit
    PROVE  CInv
<1>1. IInv
  BY Initially DEF ReaderInit
<1>2. Init /\ This = 0 /\ course \in DOMAIN Courses /\ done = 0
  BY DEF ReaderInit, Init, This
<1>3. Len(Courses[course]) \in Nat
  BY <1>2, CourseNames, CompletedCourse, ViolatingCourse, TimingOutCourse, RejectedCourse
<1>4. NothingFails /\ OnCourse
  BY <1>2, <1>3 DEF NothingFails, OnCourse, Init, Installed, InCall
<1>5. PairTells
  <2>1. NoState \in States /\ NoState.reason # Placeholder
    BY DEF NoState, States, Reasons, Placeholder
  <2> QED BY <1>2, <2>1 DEF ReaderInit, PairTells
<1> QED BY <1>1, <1>4, <1>5 DEF CInv

LEMMA RecordStays ==
    ASSUME CInv, [ReaderNext]_readerVars
    PROVE  CInv'
BY WriteKeeps, AppendKeeps, ReaderKeeps DEF ReaderNext, readerVars

-----------------------------------------------------------------------------
(* What the records amount to *)

LEMMA LinksOf ==
    ASSUME CInv, NEW a \in Artifacts, target[a] # 0
    PROVE  Links(target[a]) = IF target[a] \in temps THEN 2 ELSE 1
<1>1. {b \in Artifacts : target[b] = target[a]} = {a}
  BY OneName, RecordTypes
<1>2. Cardinality({a}) = 1
  BY FS_Singleton
<1>3. Cardinality({b \in Artifacts : target[b] = target[a]}) = 1
  BY <1>1, <1>2
<1> QED BY <1>3 DEF Links

\* There is one temporary name at most, that of the last write.
LEMMA LinkedIs ==
    ASSUME CInv
    PROVE  /\ temps = {} => View.linked = {} /\ ~View.stray
           /\ temps # {} => /\ temps = {This} /\ This > 0 /\ Name \in Artifacts /\ level = 2
                            /\ Holds(Name) => View.linked = {Name} /\ ~View.stray
                            /\ ~Holds(Name) => View.stray
<1>1. View.linked = {a \in Artifacts : target[a] \in temps}
      /\ (View.stray <=> \E n \in temps : target[writes[n].artifact] # n)
  BY DEF View
<1>2. CASE temps = {}
  BY <1>1, <1>2
<1>3. CASE temps # {}
  <2>1. temps = {This} /\ This > 0 /\ level = 2 /\ Typed /\ NamesAreGood
    <3>1. temps \subseteq {This} /\ temps \subseteq 1..This /\ This \in Nat
      BY RecordTypes DEF CInv, NothingFails, Typed
    <3>2. level = 2
      BY <1>3, RecordTypes DEF NamesAreGood
    <3>3. PICK n \in temps : n = This /\ n \in 1..This
      BY <1>3, <3>1
    <3>4. temps = {This}
      BY <3>1, <3>3
    <3>5. This > 0
      BY <3>3
    <3> QED BY <3>2, <3>4, <3>5, RecordTypes
  <2>2. Name \in Artifacts
    BY <2>1, ThisWrite
  <2>3. \A a \in Artifacts : Holds(a) => a = Name
    BY <2>1, OtherNames
  <2>4. {a \in Artifacts : target[a] \in temps} = {a \in Artifacts : Holds(a)}
    BY <2>1 DEF Holds
  <2>5. (\E n \in temps : target[writes[n].artifact] # n) <=> ~Holds(Name)
    BY <2>1 DEF Holds, Name
  <2> QED BY <1>1, <1>3, <2>1, <2>2, <2>3, <2>4, <2>5
<1> QED BY <1>2, <1>3

Untouched == Positions(log, {"agent.started"} \cup EndTypes) = {}

\* The answer of an instantaneous reader that does not refuse.
LEMMA AnswerTells ==
    ASSUME CInv, Answer # Refused
    PROVE  IF level = 0 THEN Untouched
           ELSE /\ level = 2 /\ MetadataAgrees(Value("metadata"), st, log)
                /\ target["metadata"] # 0 /\ target["prompt"] # 0
                /\ ArtifactsAgree(Value("metadata"), Value("result"), Value("transcript"), st, log)
                /\ temps # {} => /\ temps = {This} /\ This > 0 /\ Holds(Name)
                                 /\ Name \in Immutable /\ Value("metadata").status = "running"
                                 /\ ProbeActive(st, log)
<1>1. RecordsAccepted(View, st, log)
  BY DEF Answer
<1>2. /\ View.dir <=> level > 0
      /\ View.metadata = Value("metadata") /\ View.prompt = Value("prompt")
      /\ View.result = Value("result") /\ View.transcript = Value("transcript")
  BY DEF View
<1>3. level \in {0, 2}
  BY DEF CInv, NothingFails
<1>4. CASE level = 0
  BY <1>1, <1>2, <1>4 DEF RecordsAccepted, Untouched
<1>5. CASE level = 2
  <2>1. /\ MetadataAgrees(Value("metadata"), st, log) /\ Value("prompt")
        /\ TemporaryNamesAccepted(View, st, log)
        /\ ArtifactsAgree(Value("metadata"), Value("result"), Value("transcript"), st, log)
    BY <1>1, <1>2, <1>5 DEF RecordsAccepted
  <2>2. target["metadata"] # 0
    BY <2>1 DEF MetadataAgrees, Value, NoFiles, NoMetadata
  <2>3. target["prompt"] # 0
    BY <2>1 DEF Value, NoFiles
  <2>4. temps # {} => /\ temps = {This} /\ This > 0 /\ Holds(Name)
                      /\ Name \in Immutable /\ Value("metadata").status = "running"
                      /\ ProbeActive(st, log)
    BY <1>2, <2>1, LinkedIs DEF TemporaryNamesAccepted
  <2> QED BY <1>5, <2>1, <2>2, <2>3, <2>4
<1> QED BY <1>3, <1>4, <1>5

LEMMA AnswerPlain ==
    ASSUME CInv, temps = {},
           IF level = 0 THEN Untouched
                        ELSE target["prompt"] # 0 /\ MetadataAgrees(Value("metadata"), st, log)
    PROVE  Answer = NoPrefix
<1>1. /\ View.dir <=> level > 0
      /\ View.metadata = Value("metadata") /\ View.prompt = Value("prompt")
      /\ View.result = Value("result") /\ View.transcript = Value("transcript")
  BY DEF View
<1>2. View.linked = {} /\ ~View.stray /\ level \in {0, 2} /\ Typed /\ NamesAreGood
  BY LinkedIs, RecordTypes DEF CInv, NothingFails
<1>3. RecordsAccepted(View, st, log)
  <2>1. CASE level = 0
    BY <1>1, <2>1 DEF RecordsAccepted, Untouched
  <2>2. CASE level # 0
    <3>1. target["metadata"] # 0
      BY <2>2 DEF MetadataAgrees, Value, NoFiles, NoMetadata
    <3>2. Value("prompt")
      BY <1>2, <2>2, ValueTypes, ContentTypes DEF Artifacts
    <3>3. ArtifactsAgree(View.metadata, View.result, View.transcript, st, log)
      BY <1>1, <3>1, AlwaysAgree
    <3>4. TemporaryNamesAccepted(View, st, log)
      BY <1>2 DEF TemporaryNamesAccepted
    <3> QED BY <1>1, <1>2, <2>2, <3>2, <3>3, <3>4 DEF RecordsAccepted
  <2> QED BY <2>1, <2>2
<1> QED BY <1>2, <1>3 DEF Answer

LEMMA AnswerLinked ==
    ASSUME CInv, level # 0, temps # {}, Holds(Name), Name \in Immutable, target["prompt"] # 0,
           MetadataAgrees(Value("metadata"), st, log), Value("metadata").status = "running",
           ProbeActive(st, log)
    PROVE  Answer = Name
<1>1. /\ View.dir <=> level > 0
      /\ View.metadata = Value("metadata") /\ View.prompt = Value("prompt")
      /\ View.result = Value("result") /\ View.transcript = Value("transcript")
  BY DEF View
<1>2. View.linked = {Name} /\ ~View.stray /\ level \in {0, 2} /\ Typed /\ NamesAreGood
  BY LinkedIs, RecordTypes DEF CInv, NothingFails
<1>3. target["metadata"] # 0
  BY DEF MetadataAgrees, Value, NoFiles, NoMetadata
<1>4. Value("prompt")
  BY <1>2, ValueTypes, ContentTypes DEF Artifacts
<1>5. ArtifactsAgree(View.metadata, View.result, View.transcript, st, log)
  BY <1>1, <1>3, AlwaysAgree
<1>6. TemporaryNamesAccepted(View, st, log)
  BY <1>1, <1>2, FS_Singleton DEF TemporaryNamesAccepted
<1>7. RecordsAccepted(View, st, log)
  BY <1>1, <1>2, <1>4, <1>5, <1>6 DEF RecordsAccepted
<1>8. \A n : (CHOOSE a \in {n} : TRUE) = n
  OBVIOUS
<1> QED BY <1>2, <1>7, <1>8 DEF Answer

Answers == {Refused, NoPrefix} \cup Immutable

LEMMA AnswerTyped ==
    ASSUME CInv
    PROVE  Answer \in Answers
<1>1. CASE Answer = Refused
  BY <1>1 DEF Answers
<1>2. CASE Answer # Refused
  <2>1. RecordsAccepted(View, st, log)
    BY <1>2 DEF Answer
  <2>2. CASE View.linked = {}
    BY <2>1, <2>2 DEF Answer, Answers
  <2>3. CASE View.linked # {}
    <3>1. temps # {} /\ level # 0
      BY <2>3, LinkedIs
    <3>2. Holds(Name) /\ Name \in Immutable
      BY <1>2, <3>1, AnswerTells
    <3>3. View.linked = {Name}
      BY <3>1, <3>2, LinkedIs
    <3> QED BY <2>1, <3>2, <3>3 DEF Answer, Answers
  <2> QED BY <2>2, <2>3
<1> QED BY <1>1, <1>2

-----------------------------------------------------------------------------
(* What the reader knows *)

Agreeing == {m \in Metadata : MetadataAgrees(m, st, log)}
Active == ProbeActive(st, log)

Recognized == {"result?", "transcript?", "result", "result opened", "transcript",
               "transcript opened", "decide"}
Judged == {"temporary", "target", "temp"} \cup Recognized
MetadataRead == {"prompt", "prompt opened"} \cup Judged
Listed == {"metadata", "metadata opened"} \cup MetadataRead
ReaderSteps == {"idle", "base", "entries", "list", "answered"} \cup Listed

Reading == query.step \notin {"idle", "answered"}

QuerySet ==
    [step: ReaderSteps, pass: 0..2, names: SUBSET Artifacts, temporary: SUBSET Nat,
     metadata: Metadata, inode: Nat, pair: Nat, result: {"none"} \cup Results,
     transcript: BOOLEAN, there: SUBSET Immutable, verdict: {"none"} \cup Answers]

QueryTyped == query \in QuerySet

Opened == [metadata |-> "metadata opened", prompt |-> "prompt opened",
           result |-> "result opened", transcript |-> "transcript opened"]

\* What it holds on to exists: a name that has led to a file always leads to one.
QueryFits ==
    /\ query.step \in {"entries", "list"} => level = 2
    /\ query.step \in Listed => target["metadata"] # 0 /\ target["prompt"] # 0
    /\ query.temporary # {} =>
          /\ query.step \in Listed
          /\ \E n \in 1..This : /\ query.temporary = {n}
                                /\ n = This => pc \notin {"directory", "temporary"}
    /\ query.inode \in 0..This
    /\ \A a \in Artifacts :
          query.step = Opened[a] => query.inode # 0 /\ writes[query.inode].artifact = a
    /\ query.pair \in 0..This /\ (query.pair # 0 => query.step \in {"temp"} \cup Recognized)
    /\ query.result # "none" => query.step \in {"transcript", "transcript opened", "decide"}
    /\ query.transcript => query.step = "decide"
    /\ \A a \in query.there : target[a] # 0

\* What an acceptance rests on: the metadata that is being judged, and a moment
\* at which an instantaneous reader would have accepted it.
Seen ==
    CASE query.step = "metadata" -> Value("metadata")
      [] query.step = "metadata opened" -> writes[query.inode].value
      [] OTHER -> query.metadata

AcceptanceRests ==
    /\ query.step \in Listed =>
          /\ query.temporary = {} => NoPrefix \in answers \/ Seen \notin Agreeing
          /\ query.temporary \cap temps # {} => Seen = Value("metadata")
    /\ query.step \in Judged => query.metadata \in Agreeing
    /\ query.step \in {"target", "temp"} =>
          /\ query.temporary # {} /\ \A n \in query.temporary : writes[n].artifact \in Immutable
          /\ query.metadata.status = "running" /\ Active
    /\ query.step \in Recognized =>
          /\ query.pair = 0 => NoPrefix \in answers
          /\ query.pair # 0 => writes[query.pair].artifact \in answers
    /\ AcceptanceWasTrue

\* As long as the answer has been the same all the time, nothing has changed.
Mixed == Refused \in answers \/ \E a, b \in answers : a # b

Current ==
    /\ query.step \in Listed =>
           query.names = {a \in Artifacts : target[a] # 0} /\ query.temporary = temps
    /\ \A a \in Artifacts : query.step = Opened[a] => query.inode = target[a]
    /\ query.step \in MetadataRead => query.metadata = Value("metadata")
    /\ query.step \in {"temp"} \cup Recognized =>
           IF query.temporary = {} THEN query.pair = 0 ELSE query.pair \in query.temporary
    /\ query.step = "transcript?" => query.there = {a \in {"result"} : target[a] # 0}
    /\ query.step \in Recognized \ {"result?", "transcript?"} =>
           query.there = {a \in Immutable : target[a] # 0}
    /\ query.step \in {"transcript", "transcript opened", "decide"} => query.result = Value("result")
    /\ query.step = "decide" => query.transcript = Value("transcript")

SteadyRests ==
    /\ answers \subseteq Answers
    /\ Reading => Answer \in answers /\ (Mixed \/ Current)
    /\ Answered /\ query.verdict = Refused => Mixed

RInv == QueryTyped /\ QueryFits /\ AcceptanceRests /\ SteadyRests

-----------------------------------------------------------------------------
(* What a write does to what the reader knows *)

\* Facts on the records that are needed after a step as well.
AcceptedTells ==
    Answer # Refused =>
        IF level = 0 THEN Untouched
        ELSE /\ level = 2 /\ Value("metadata") \in Agreeing
             /\ target["metadata"] # 0 /\ target["prompt"] # 0
             /\ temps # {} => /\ temps = {This} /\ This > 0 /\ Holds(Name) /\ Name \in Immutable
                              /\ Value("metadata").status = "running" /\ Active /\ Answer = Name

PlainAccepted ==
    temps = {} =>
        /\ Answer \in {Refused, NoPrefix}
        /\ target["metadata"] # 0 /\ target["prompt"] # 0 /\ Value("metadata") \in Agreeing =>
               Answer = NoPrefix

AnswerFacts == AcceptedTells /\ PlainAccepted /\ Answer \in Answers

LEMMA RecordsTell == CInv => AnswerFacts
<1> SUFFICES ASSUME CInv PROVE AnswerFacts
  OBVIOUS
<1>1. Value("metadata") \in Metadata /\ Typed /\ NamesAreGood /\ level \in {0, 2}
  BY RecordTypes, ValueTypes, ContentTypes, NoFilesTypes DEF Artifacts, CInv, NothingFails
<1>2. Value("metadata") \in Agreeing <=> MetadataAgrees(Value("metadata"), st, log)
  BY <1>1 DEF Agreeing
<1>3. AcceptedTells
  <2> SUFFICES ASSUME Answer # Refused
               PROVE  IF level = 0 THEN Untouched
                      ELSE /\ level = 2 /\ Value("metadata") \in Agreeing
                           /\ target["metadata"] # 0 /\ target["prompt"] # 0
                           /\ temps # {} =>
                                 /\ temps = {This} /\ This > 0 /\ Holds(Name) /\ Name \in Immutable
                                 /\ Value("metadata").status = "running" /\ Active /\ Answer = Name
    BY DEF AcceptedTells
  <2>1. CASE level = 0
    BY <2>1, AnswerTells
  <2>2. CASE level # 0 /\ temps = {}
    BY <1>2, <2>2, AnswerTells
  <2>3. CASE level # 0 /\ temps # {}
    BY <1>2, <2>3, AnswerTells, AnswerLinked DEF Active
  <2> QED BY <2>1, <2>2, <2>3
<1>4. PlainAccepted
  <2>1. ASSUME temps = {} PROVE Answer \in {Refused, NoPrefix}
    BY <2>1, LinkedIs DEF Answer
  <2>2. ASSUME temps = {}, target["metadata"] # 0, target["prompt"] # 0,
               Value("metadata") \in Agreeing
        PROVE  Answer = NoPrefix
    <3>1. level # 0
      BY <1>1, <2>2 DEF NamesAreGood, Artifacts
    <3> QED BY <1>2, <2>2, <3>1, AnswerPlain
  <2> QED BY <2>1, <2>2 DEF PlainAccepted
<1> QED BY <1>3, <1>4, AnswerTyped DEF AnswerFacts

\* How a write changes the directory.
Effect ==
    \/ UNCHANGED disk
    \/ level = 0 /\ level' = 2 /\ UNCHANGED <<target, temps>>
    \/ /\ pc = "temporary" /\ This' = This /\ ~Holds(Name)
       /\ temps = {} /\ temps' = {This} /\ UNCHANGED <<level, target>>
    \/ /\ This' = This /\ ~Holds(Name) /\ Name \in Artifacts /\ (Name = "metadata" \/ target[Name] = 0)
       /\ target' = [target EXCEPT ![Name] = This] /\ UNCHANGED level
       /\ temps = {This} /\ temps' \subseteq temps /\ (target[Name] # 0 => temps' = {})
    \/ temps = {This} /\ temps' = {} /\ Holds(Name) /\ UNCHANGED <<level, target>>

LEMMA WriteEffect ==
    ASSUME CInv, WriteRecord
    PROVE  /\ Effect /\ Kept /\ UNCHANGED <<course, log, st, query>>
           /\ level = 2 => level' = 2
           /\ \A a \in Artifacts : target[a] # 0 => target'[a] # 0
           /\ This' = This /\ pc \notin {"directory", "temporary"} =>
                  pc' \notin {"directory", "temporary"}
<1>1. /\ Typed /\ NothingFails /\ CallKnows /\ SinceBegin /\ NamesAreGood
      /\ This \in Nat /\ level \in {0, 2}
  BY RecordTypes DEF CInv, IInv, NothingFails
<1>2. Kept /\ UNCHANGED <<course, log, st, query>>
  BY WriteSteps
<1>3. CASE CallBegins
  BY <1>1, <1>2, <1>3 DEF CallBegins, Effect, disk
<1>4. CASE pc # "dead" /\ pc' = "dead" /\ UNCHANGED <<disk, writes, done>>
  BY <1>2, <1>4 DEF Effect, disk
<1>5. CASE SameWrites /\ CallStep
  <2>1. InCall /\ This' = This /\ Name \in Artifacts /\ This > 0
    BY <1>5, RecordTypes DEF CallStep, InCall, SameWrites, This
  <2>2. CASE pc = "directory"
    <3>1. pc' = "temporary" /\ level' = 2 /\ UNCHANGED <<target, temps>>
      BY <1>5, <2>2 DEF CallStep
    <3> QED BY <1>1, <1>2, <2>2, <3>1 DEF Effect, disk
  <2>3. CASE pc = "temporary"
    <3>1. temps' = {This} /\ UNCHANGED <<level, target>> /\ temps = {} /\ ~Holds(Name)
      BY <1>1, <1>5, <2>1, <2>3 DEF CallStep, NothingFails, CallKnows
    <3> QED BY <1>2, <2>1, <2>3, <3>1 DEF Effect
  <2>4. CASE pc = "install"
    <3>1. /\ target' = [target EXCEPT ![Name] = This] /\ UNCHANGED level
          /\ temps' = IF call.replace THEN {} ELSE {This}
          /\ pc' \in {"sync", "unlink"}
      BY <1>5, <2>4 DEF CallStep
    <3>2. temps = {This} /\ ~Holds(Name)
      BY <1>1, <2>1, <2>4 DEF NothingFails, CallKnows
    <3>3. IF call.replace THEN Name = "metadata" ELSE target[Name] = 0
      BY <1>1, <2>1, <2>4 DEF CallKnows, SinceBegin
    <3>4. \A a \in Artifacts : target[a] # 0 => target'[a] # 0
      BY <1>1, <2>1, <3>1 DEF Typed
    <3>5. Effect
      BY <2>1, <3>1, <3>2, <3>3 DEF Effect
    <3> QED BY <1>2, <3>1, <3>4, <3>5
  <2>5. CASE pc = "unlink"
    <3>1. temps' = {} /\ UNCHANGED <<level,
                                     target>> /\ temps = {This} /\ Holds(Name) /\ pc' = "sync"
      BY <1>1, <1>5, <2>1, <2>5 DEF CallStep, NothingFails, CallKnows
    <3> QED BY <1>2, <3>1 DEF Effect
  <2>6. CASE pc \in {"fill", "sync", "finish"}
    <3>1. UNCHANGED disk /\ pc' \in {"install", "finish", "idle"}
      BY <1>5, <2>6 DEF CallStep
    <3> QED BY <1>2, <3>1 DEF Effect, disk
  <2> QED BY <1>5, <2>2, <2>3, <2>4, <2>5, <2>6 DEF CallStep
<1> QED BY <1>3, <1>4, <1>5, WriteSteps

\* Whoever saw the directory before and after it changed has seen two answers,
\* or a refusal.
LEMMA ChangesAreSeen ==
    ASSUME CInv, AnswerFacts, AnswerFacts', WriteRecord, ~UNCHANGED disk
    PROVE  Answer = Refused \/ Answer' = Refused \/ Answer' # Answer
<1>1. Effect /\ Kept /\ NamesAreGood /\ Typed /\ This \in Nat
  BY WriteEffect, RecordTypes
<1>2. CASE level = 0 /\ level' = 2 /\ UNCHANGED <<target, temps>>
  <2>1. target["metadata"] = 0
    BY <1>1, <1>2 DEF NamesAreGood, Artifacts
  <2> QED BY <1>2, <2>1 DEF AnswerFacts, AcceptedTells
<1>3. CASE /\ pc = "temporary" /\ This' = This /\ ~Holds(Name)
           /\ temps = {} /\ temps' = {This} /\ UNCHANGED <<level, target>>
  <2>1. InCall /\ level = 2 /\ This \in 1..This
    BY <1>1, <1>3, RecordTypes DEF InCall, CInv, IInv, CallKnows
  <2>2. Name' = Name
    BY <1>1, <1>3, <2>1 DEF Kept, Name
  <2>3. ~Holds(Name)' /\ temps' # {} /\ level' = 2
    BY <1>3, <2>1, <2>2 DEF Holds
  <2> QED BY <2>3 DEF AnswerFacts, AcceptedTells
<1>4. CASE temps = {This} /\ ~Holds(Name)
  BY <1>1, <1>4 DEF NamesAreGood, AnswerFacts, AcceptedTells
<1>5. CASE temps = {This} /\ temps' = {} /\ Holds(Name) /\ UNCHANGED <<level, target>>
  <2>1. Answer = Refused \/ Answer \in Immutable
    BY <1>1, <1>5 DEF NamesAreGood, AnswerFacts, AcceptedTells
  <2>2. Answer' \in {Refused, NoPrefix}
    BY <1>5 DEF AnswerFacts, PlainAccepted
  <2> QED BY <2>1, <2>2 DEF Refused, NoPrefix, Immutable
<1> QED BY <1>1, <1>2, <1>3, <1>4, <1>5 DEF Effect

LEMMA SamePair ==
    ASSUME UNCHANGED <<log, st>>
    PROVE  Agreeing' = Agreeing /\ (Active' <=> Active)
BY DEF Agreeing, Active, MetadataAgrees, ProbeActive, Positions, LifecycleValid

LEMMA WriteWatched ==
    ASSUME CInv, AnswerFacts, AnswerFacts', RInv, WriteRecord, Remember
    PROVE  RInv'
<1>1. /\ Effect /\ Kept /\ query' = query /\ This \in Nat
      /\ level = 2 => level' = 2
      /\ \A a \in Artifacts : target[a] # 0 => target'[a] # 0
      /\ This' = This /\ pc \notin {"directory", "temporary"} =>
             pc' \notin {"directory", "temporary"}
      /\ Agreeing' = Agreeing /\ (Active' <=> Active)
  BY WriteEffect, SamePair, RecordTypes
<1>2. QueryTyped /\ QueryFits /\ AcceptanceRests /\ SteadyRests /\ Typed
  BY RecordTypes DEF RInv
<1>3. /\ query.step \notin {"idle", "answered"} => answers' = answers \cup {Answer'}
      /\ query.step = "answered" => answers' = answers
      /\ query.step = "idle" => answers' = {}
  BY <1>1 DEF Remember
<1>4. QueryTyped'
  BY <1>1, <1>2 DEF QueryTyped
<1>5. \A n \in 1..This : /\ n \in 1..This' /\ (n = This' => This' = This)
                         /\ writes'[n].artifact = writes[n].artifact
                         /\ writes'[n].value = writes[n].value
  BY <1>1 DEF Kept
<1>6. /\ query.inode \in 0..This /\ query.pair \in 0..This
      /\ \A a \in Artifacts :
            query.step = Opened[a] => query.inode # 0 /\ writes[query.inode].artifact = a
      /\ target \in [Artifacts -> Calls]
  BY <1>2 DEF QueryFits, Typed
<1>7. QueryFits'
  <2>1. \A a \in query.there : target'[a] # 0
    BY <1>1, <1>2 DEF QueryFits, QueryTyped, QuerySet, Artifacts
  <2>2. query.temporary # {} =>
            \E n \in 1..This' : /\ query.temporary = {n}
                                /\ n = This' => pc' \notin {"directory", "temporary"}
    BY <1>1, <1>2, <1>5 DEF QueryFits
  <2>3. query.step \in Listed => target'["metadata"] # 0 /\ target'["prompt"] # 0
    BY <1>1, <1>2 DEF QueryFits, Artifacts
  <2>4. query.inode \in 0..This' /\ query.pair \in 0..This'
    BY <1>1, <1>6 DEF Kept
  <2>5. ASSUME NEW a \in Artifacts, query.step = Opened[a]
        PROVE  query.inode # 0 /\ writes'[query.inode].artifact = a
    <3>1. query.inode \in 1..This /\ writes[query.inode].artifact = a
      BY <1>1, <1>6, <2>5
    <3> QED BY <1>5, <3>1
  <2> QED BY <1>1, <1>2, <2>1, <2>2, <2>3, <2>4, <2>5 DEF QueryFits
<1>8. \A a \in Artifacts : target'[a] = target[a] => Value(a)' = Value(a)
  BY <1>5, RecordTypes DEF Value
<1>9. AcceptanceRests'
  <2>1. ASSUME query.step \in Listed
        PROVE  /\ target["metadata"] # 0 /\ target["prompt"] # 0
               /\ answers' = answers \cup {Answer'}
               /\ Value("metadata")' = Value("metadata") \/ temps' = {}
    <3>1. target["metadata"] # 0 /\ target["prompt"] # 0
      BY <1>2, <2>1 DEF QueryFits
    <3>2. answers' = answers \cup {Answer'}
      BY <1>3, <2>1 DEF Listed, MetadataRead, Judged, Recognized
    <3>3. target'["metadata"] = target["metadata"] \/ temps' = {}
      <4> SUFFICES ASSUME target'["metadata"] # target["metadata"] PROVE temps' = {}
        OBVIOUS
      <4>1. /\ Name \in Artifacts /\ target' = [target EXCEPT ![Name] = This]
            /\ target[Name] # 0 => temps' = {}
        BY <1>1 DEF Effect, disk
      <4>2. Name = "metadata"
        BY <1>6, <4>1 DEF Artifacts
      <4> QED BY <3>1, <4>1, <4>2
    <3> QED BY <1>8, <3>1, <3>2, <3>3 DEF Artifacts
  <2>2. ASSUME query.step \in Listed
        PROVE  Seen' = IF query.step = "metadata" THEN Value("metadata")' ELSE Seen
    <3>1. CASE query.step = "metadata"
      BY <1>1, <3>1 DEF Seen
    <3>2. CASE query.step = "metadata opened"
      <4>1. query.inode \in 1..This
        <5>1. "metadata" \in Artifacts /\ Opened["metadata"] = "metadata opened"
          BY DEF Artifacts, Opened
        <5>2. query.inode # 0
          BY <1>6, <3>2, <5>1
        <5> QED BY <1>1, <1>6, <5>2
      <4> QED BY <1>1, <1>5, <3>2, <4>1 DEF Seen
    <3>3. CASE query.step \notin {"metadata", "metadata opened"}
      BY <1>1, <3>3 DEF Seen
    <3> QED BY <3>1, <3>2, <3>3
  <2>3. query.step = "metadata" => Seen = Value("metadata")
    BY DEF Seen
  <2>4. ASSUME query.step \in Listed, query.temporary = {}
        PROVE  NoPrefix \in answers' \/ Seen' \notin Agreeing'
    <3>1. NoPrefix \in answers \/ Seen \notin Agreeing
      BY <1>2, <2>4 DEF AcceptanceRests
    <3>2. CASE Seen' = Seen
      BY <1>1, <2>1, <2>4, <3>1, <3>2
    <3>3. CASE Seen' # Seen
      <4>1. temps' = {} /\ Seen' = Value("metadata")'
        BY <2>1, <2>2, <2>3, <2>4, <3>3
      <4>2. target'["metadata"] # 0 /\ target'["prompt"] # 0
        BY <1>1, <2>1, <2>4 DEF Artifacts
      <4>3. Value("metadata")' \in Agreeing' => Answer' = NoPrefix
        BY <4>1, <4>2 DEF AnswerFacts, PlainAccepted
      <4> QED BY <2>1, <2>4, <4>1, <4>3
    <3> QED BY <3>2, <3>3
  <2>5. ASSUME query.step \in Listed, query.temporary \cap temps' # {}
        PROVE  Seen' = Value("metadata")'
    <3>1. PICK n \in 1..This : query.temporary = {n} /\ n \in temps'
                               /\ (n = This => pc \notin {"directory", "temporary"})
      BY <1>2, <2>5 DEF QueryFits
    <3>2. n \in temps
      BY <1>1, <3>1 DEF Effect, disk
    <3>3. Seen = Value("metadata")
      BY <1>2, <2>5, <3>1, <3>2 DEF AcceptanceRests
    <3>4. Value("metadata")' = Value("metadata")
      BY <2>1, <2>5
    <3> QED BY <2>2, <2>5, <3>3, <3>4
  <2>6. query.step \in Judged => query.metadata \in Agreeing'
    BY <1>1, <1>2 DEF AcceptanceRests
  <2>7. query.step \in {"target", "temp"} =>
            /\ query.temporary # {} /\ \A n \in query.temporary : writes'[n].artifact \in Immutable
            /\ query.metadata.status = "running" /\ Active'
    <3> SUFFICES ASSUME query.step \in {"target", "temp"}
                 PROVE  \A n \in query.temporary : writes'[n].artifact \in Immutable
      BY <1>1, <1>2 DEF AcceptanceRests
    <3>1. \A n \in query.temporary : n \in 1..This
      BY <1>2 DEF QueryFits
    <3> QED BY <1>2, <1>5, <3>1 DEF AcceptanceRests
  <2>8. ASSUME query.step \in Recognized
        PROVE  /\ query.pair = 0 => NoPrefix \in answers'
               /\ query.pair # 0 => writes'[query.pair].artifact \in answers'
    <3>1. answers' = answers \cup {Answer'}
      BY <1>3, <2>8 DEF Recognized
    <3>2. /\ query.pair = 0 => NoPrefix \in answers
          /\ query.pair # 0 => writes[query.pair].artifact \in answers
      BY <1>2, <2>8 DEF AcceptanceRests
    <3>3. query.pair \in 0..This
      BY <1>2 DEF QueryFits
    <3> QED BY <1>1, <1>5, <3>1, <3>2, <3>3
  <2>9. AcceptanceWasTrue'
    BY <1>1, <1>2, <1>3 DEF AcceptanceRests, AcceptanceWasTrue, Answered
  <2> QED BY <1>1, <2>4, <2>5, <2>6, <2>7, <2>8, <2>9 DEF AcceptanceRests
<1>10. SteadyRests'
  <2>1. answers' \subseteq Answers
    BY <1>1, <1>2, <1>3 DEF SteadyRests, AnswerFacts, Answers
  <2>2. ASSUME Reading PROVE Answer' \in answers' /\ (Mixed' \/ Current')
    <3>1. answers' = answers \cup {Answer'} /\ Answer \in answers /\ (Mixed \/ Current)
      BY <1>2, <1>3, <2>2 DEF Reading, SteadyRests
    <3>2. CASE Mixed
      BY <3>1, <3>2 DEF Mixed
    <3>3. CASE ~UNCHANGED disk
      <4>1. Answer = Refused \/ Answer' = Refused \/ Answer' # Answer
        BY <3>3, ChangesAreSeen
      <4> QED BY <3>1, <4>1 DEF Mixed
    <3>4. CASE Current /\ UNCHANGED disk
      <4>1. UNCHANGED <<level, target, temps>> /\ \A a \in Artifacts : Value(a)' = Value(a)
        BY <1>8, <3>4 DEF disk
      <4>2. /\ Value("metadata")' = Value("metadata") /\ Value("result")' = Value("result")
            /\ Value("transcript")' = Value("transcript")
        BY <4>1 DEF Artifacts, Immutable
      <4>3. Current'
        BY <1>1, <3>4, <4>1, <4>2 DEF Current
      <4> QED BY <3>1, <4>3
    <3> QED BY <3>1, <3>2, <3>3, <3>4
  <2>3. Answered /\ query.verdict = Refused => Mixed'
    BY <1>2, <1>3 DEF SteadyRests, Answered, Mixed
  <2> QED BY <1>1, <2>1, <2>2, <2>3 DEF SteadyRests, Reading, Answered
<1> QED BY <1>4, <1>7, <1>9, <1>10 DEF RInv

-----------------------------------------------------------------------------
(* The steps of the reader *)

Quiet == UNCHANGED <<vars, course, done, pair>> /\ Remember

LEMMA QuietFacts ==
    ASSUME CInv, RInv, AnswerFacts, Quiet
    PROVE  /\ UNCHANGED <<level, target, temps, writes, pc>> /\ This' = This
           /\ \A a \in Artifacts : Value(a)' = Value(a)
           /\ Agreeing' = Agreeing /\ (Active' <=> Active) /\ Answer' = Answer
           /\ Reading /\ query'.step # "idle" => answers' = answers /\ Answer \in answers
<1>1. UNCHANGED <<level, target, temps, writes, pc, log, st>>
  BY DEF Quiet, vars, pair
<1>2. This' = This /\ \A a \in Artifacts : Value(a)' = Value(a)
  BY <1>1 DEF This, Value
<1>3. Agreeing' = Agreeing /\ (Active' <=> Active)
  BY <1>1, SamePair
<1>4. Answer' = Answer
  BY <1>1 DEF Answer, View, Value, RecordsAccepted, MetadataAgrees, LifecycleValid,
     TemporaryNamesAccepted, ArtifactsAgree, ProbeActive, Positions
<1>5. Reading /\ query'.step # "idle" => answers' = answers /\ Answer \in answers
  BY <1>4 DEF Quiet, Remember, Reading, RInv, SteadyRests
<1> QED BY <1>1, <1>2, <1>3, <1>4, <1>5

LEMMA NoQueryTyped ==
    /\ NoQuery \in QuerySet
    /\ \A pass \in 0..2 : [NoQuery EXCEPT !.step = "base", !.pass = pass] \in QuerySet
    /\ \A p \in Answers : [NoQuery EXCEPT !.step = "answered", !.verdict = p] \in QuerySet
<1>1. NoMetadata \in Metadata
  BY DEF NoMetadata, Metadata
<1>2. NoQuery \in QuerySet
  BY <1>1 DEF NoQuery, QuerySet, ReaderSteps
<1>3. "base" \in ReaderSteps /\ "answered" \in ReaderSteps
  BY DEF ReaderSteps
<1> QED BY <1>2, <1>3 DEF QuerySet

\* A pass ends with a refusal that has a reason, or with an acceptance.
LEMMA RefuseEnds ==
    ASSUME CInv, RInv, AnswerFacts, Quiet, Reading, Mixed, Refuse
    PROVE  RInv'
<1> DEFINE q == [NoQuery EXCEPT !.step = "answered", !.verdict = Refused]
<1>1. query' = q
  BY DEF Refuse
<1>2. /\ q.step = "answered" /\ q.temporary = {} /\ q.inode = 0 /\ q.pair = 0
      /\ q.result = "none" /\ ~q.transcript /\ q.there = {} /\ q.verdict = Refused
  BY DEF NoQuery
<1>3. QueryTyped'
  <2>1. Refused \in Answers
    BY DEF Answers
  <2> QED BY <1>1, <2>1, NoQueryTyped DEF QueryTyped
<1> HIDE DEF q
<1>4. answers' = answers /\ This' \in Nat
  BY <1>1, <1>2, QuietFacts, RecordTypes
<1>5. QueryFits'
  BY <1>1, <1>2, <1>4
     DEF QueryFits, Listed, MetadataRead, Judged, Recognized, Opened, Artifacts, Immutable
<1>6. AcceptanceRests'
  BY <1>1, <1>2 DEF AcceptanceRests, Listed, MetadataRead, Judged, Recognized, AcceptanceWasTrue
<1>7. SteadyRests'
  BY <1>1, <1>2, <1>4 DEF SteadyRests, Reading, Mixed, RInv
<1> QED BY <1>3, <1>5, <1>6, <1>7 DEF RInv

LEMMA AcceptEnds ==
    ASSUME CInv, RInv, AnswerFacts, Quiet, Reading, NEW p \in answers, Accept(p)
    PROVE  RInv'
<1>1. CASE query.pass = 1
  <2> DEFINE q == [NoQuery EXCEPT !.step = "base", !.pass = 2]
  <2>1. query' = q
    BY <1>1 DEF Accept
  <2>2. /\ q.step = "base" /\ q.temporary = {} /\ q.inode = 0 /\ q.pair = 0
        /\ q.result = "none" /\ ~q.transcript /\ q.there = {}
    BY DEF NoQuery
  <2>3. QueryTyped'
    <3>1. 2 \in 0..2
      OBVIOUS
    <3> QED BY <2>1, <3>1, NoQueryTyped DEF QueryTyped
  <2> HIDE DEF q
  <2>4. answers' = answers /\ This' \in Nat /\ Answer' \in answers'
    BY <2>1, <2>2, QuietFacts, RecordTypes
  <2>5. QueryFits'
    BY <2>1, <2>2, <2>4
       DEF QueryFits, Listed, MetadataRead, Judged, Recognized, Opened, Artifacts, Immutable
  <2>6. AcceptanceRests'
    BY <2>1, <2>2
       DEF AcceptanceRests, Listed, MetadataRead, Judged, Recognized, AcceptanceWasTrue, Answered
  <2>7. Current'
    BY <2>1, <2>2
       DEF Current, Listed, MetadataRead, Judged, Recognized, Opened, Artifacts, Immutable
  <2>8. SteadyRests'
    BY <2>1, <2>2, <2>4, <2>7 DEF SteadyRests, Answered, RInv
  <2> QED BY <2>3, <2>5, <2>6, <2>8 DEF RInv
<1>2. CASE query.pass # 1
  <2> DEFINE q == [NoQuery EXCEPT !.step = "answered", !.verdict = p]
  <2>1. query' = q
    BY <1>2 DEF Accept
  <2>2. /\ q.step = "answered" /\ q.temporary = {} /\ q.inode = 0 /\ q.pair = 0
        /\ q.result = "none" /\ ~q.transcript /\ q.there = {} /\ q.verdict = p
    BY DEF NoQuery
  <2>3. QueryTyped'
    <3>1. p \in Answers
      BY DEF RInv, SteadyRests
    <3> QED BY <2>1, <3>1, NoQueryTyped DEF QueryTyped
  <2> HIDE DEF q
  <2>4. answers' = answers /\ This' \in Nat
    BY <2>1, <2>2, QuietFacts, RecordTypes
  <2>5. QueryFits'
    BY <2>1, <2>2, <2>4
       DEF QueryFits, Listed, MetadataRead, Judged, Recognized, Opened, Artifacts, Immutable
  <2>6. AcceptanceRests'
    BY <2>1, <2>2, <2>4
       DEF AcceptanceRests, Listed, MetadataRead, Judged, Recognized, AcceptanceWasTrue
  <2>7. SteadyRests'
    BY <2>1, <2>2, <2>4 DEF SteadyRests, Reading, Mixed, RInv
  <2> QED BY <2>3, <2>5, <2>6, <2>7 DEF RInv
<1> QED BY <1>1, <1>2

\* Any other step leads to a further one.
LEMMA Onward ==
    ASSUME CInv, RInv, AnswerFacts, Quiet, Reading, query'.step \notin {"idle", "answered"},
           QueryTyped', QueryFits', AcceptanceRests', Mixed \/ Current'
    PROVE  RInv'
<1>1. answers' = answers /\ Answer' = Answer /\ Answer \in answers
  BY QuietFacts
<1>2. SteadyRests'
  BY <1>1 DEF SteadyRests, Answered, Mixed, RInv
<1> QED BY <1>2 DEF RInv

LEMMA OpenBaseStep ==
    ASSUME CInv, RInv, AnswerFacts, Quiet, OpenBase
    PROVE  RInv'
<1>1. Reading /\ query.step = "base" /\ level \in {0, 2} /\ NamesAreGood
  BY RecordTypes DEF OpenBase, Reading, CInv, NothingFails
<1>2. CASE level = 0
  <2>1. IF Untouched THEN Accept(NoPrefix) ELSE Refuse
    BY <1>2 DEF OpenBase, Untouched
  <2>2. Answer \in answers
    BY <1>1 DEF RInv, SteadyRests
  <2>3. CASE Untouched
    <3>1. temps = {}
      BY <1>2, <1>1 DEF NamesAreGood
    <3>2. Answer = NoPrefix
      BY <1>2, <2>3, <3>1, AnswerPlain
    <3> QED BY <1>1, <2>1, <2>2, <2>3, <3>2, AcceptEnds
  <2>4. CASE ~Untouched
    <3>1. Answer = Refused
      BY <1>2, <2>4 DEF AnswerFacts, AcceptedTells
    <3> QED BY <1>1, <2>1, <2>2, <2>4, <3>1, RefuseEnds DEF Mixed
  <2> QED BY <2>3, <2>4
<1>3. CASE level = 2
  <2>1. query' = [query EXCEPT !.step = "entries"]
    BY <1>3 DEF OpenBase, Turn
  <2>2. QueryTyped /\ QueryFits /\ AcceptanceRests /\ level' = 2 /\ This' = This
    BY <1>3, QuietFacts DEF RInv
  <2>3. QueryTyped' /\ query'.step = "entries" /\ query'.temporary = query.temporary
        /\ query'.inode = query.inode /\ query'.pair = query.pair
        /\ query'.result = query.result /\ query'.transcript = query.transcript
        /\ query'.there = query.there
    BY <2>1, <2>2 DEF QueryTyped, QuerySet, ReaderSteps
  <2>4. QueryFits'
    BY <1>1, <2>2, <2>3, QuietFacts
       DEF QueryFits, Opened, Listed, MetadataRead, Judged, Recognized, Artifacts, Immutable
  <2>5. AcceptanceRests' /\ Current'
    BY <2>3 DEF AcceptanceRests, Current, Opened, Listed, MetadataRead, Judged, Recognized,
       AcceptanceWasTrue, Answered, Artifacts, Immutable
  <2> QED BY <1>1, <2>3, <2>4, <2>5, Onward
<1> QED BY <1>1, <1>2, <1>3

LEMMA ListBaseStep ==
    ASSUME CInv, RInv, AnswerFacts, Quiet, ListBase
    PROVE  RInv'
<1>1. /\ Reading /\ query.step = "entries" /\ level = 2
      /\ QueryTyped /\ QueryFits /\ AcceptanceRests
  BY DEF ListBase, Reading, RInv, QueryFits
<1>2. query' = [query EXCEPT !.step = "list"]
  BY <1>1 DEF ListBase, IfElseRefuse
<1>3. QueryTyped' /\ query'.step = "list" /\ query'.temporary = query.temporary
      /\ query'.inode = query.inode /\ query'.pair = query.pair
      /\ query'.result = query.result /\ query'.transcript = query.transcript
      /\ query'.there = query.there
  BY <1>1, <1>2 DEF QueryTyped, QuerySet, ReaderSteps
<1>4. QueryFits'
  BY <1>1, <1>3, QuietFacts
     DEF QueryFits, Opened, Listed, MetadataRead, Judged, Recognized, Artifacts, Immutable
<1>5. AcceptanceRests' /\ Current'
  BY <1>3 DEF AcceptanceRests, Current, Opened, Listed, MetadataRead, Judged, Recognized,
     AcceptanceWasTrue, Answered, Artifacts, Immutable
<1> QED BY <1>1, <1>3, <1>4, <1>5, Onward

LEMMA ListNamesStep ==
    ASSUME CInv, RInv, AnswerFacts, Quiet, ListNames
    PROVE  RInv'
<1> DEFINE names == {a \in Artifacts : target[a] # 0}
<1>1. /\ Reading /\ query.step = "list" /\ level = 2 /\ Answer \in answers
      /\ QueryTyped /\ QueryFits /\ AcceptanceRests
  BY DEF ListNames, Reading, RInv, QueryFits, SteadyRests
<1>2. IfElseRefuse({"metadata", "prompt"} \subseteq names,
                   [query EXCEPT !.step = "metadata", !.names = names, !.temporary = temps])
  BY DEF ListNames
<1>3. CASE ~({"metadata", "prompt"} \subseteq names)
  <2>1. Refuse
    BY <1>2, <1>3 DEF IfElseRefuse
  <2>2. Answer = Refused
    BY <1>1, <1>3 DEF AnswerFacts, AcceptedTells, Artifacts
  <2> QED BY <1>1, <2>1, <2>2, RefuseEnds DEF Mixed
<1>4. CASE {"metadata", "prompt"} \subseteq names
  <2>1. query' = [query EXCEPT !.step = "metadata", !.names = names, !.temporary = temps]
    BY <1>2, <1>4 DEF IfElseRefuse
  <2>2. temps \subseteq {This} /\ temps \subseteq 1..This /\ This \in Nat
        /\ (temps # {} => pc \notin {"directory", "temporary"})
    BY RecordTypes DEF CInv, NothingFails, Typed
  <2>3. names \in SUBSET Artifacts /\ temps \in SUBSET Nat
    BY <2>2
  <2>4. target["metadata"] # 0 /\ target["prompt"] # 0
    BY <1>4
  <2> HIDE DEF names
  <2>5. /\ QueryTyped' /\ query'.step = "metadata" /\ query'.temporary = temps
        /\ query'.names = names
        /\ query'.inode = query.inode /\ query'.pair = query.pair
        /\ query'.result = query.result /\ query'.transcript = query.transcript
        /\ query'.there = query.there
    BY <1>1, <2>1, <2>3 DEF QueryTyped, QuerySet, ReaderSteps, Listed
  <2>6. QueryFits'
    <3>1. query'.temporary # {} =>
              \E n \in 1..This' : /\ query'.temporary = {n}
                                  /\ n = This' => pc' \notin {"directory", "temporary"}
      BY <2>2, <2>5, QuietFacts
    <3> QED BY <1>1, <2>4, <2>5, <3>1, QuietFacts
       DEF QueryFits, Opened, Listed, MetadataRead, Judged, Recognized, Artifacts, Immutable
  <2>7. AcceptanceRests'
    <3>1. Seen' = Value("metadata")'
      BY <2>5 DEF Seen
    <3>2. answers' = answers /\ Answer \in answers /\ Value("metadata")' = Value("metadata")
          /\ Agreeing' = Agreeing
      BY <1>1, <2>5, QuietFacts DEF Artifacts
    <3>3. temps = {} => NoPrefix \in answers \/ Value("metadata") \notin Agreeing
      BY <1>1, <2>4 DEF AnswerFacts, PlainAccepted
    <3> QED BY <2>5, <3>1, <3>2, <3>3
            DEF AcceptanceRests, Judged, Recognized, AcceptanceWasTrue, Answered
  <2>8. Current'
    BY <2>5, QuietFacts DEF names, Current, Opened, Listed, MetadataRead, Judged, Recognized,
       Artifacts, Immutable
  <2> QED BY <1>1, <2>5, <2>6, <2>7, <2>8, Onward
<1> QED BY <1>3, <1>4

\* What holds when the reader has seen one answer only, and it is no refusal.
LEMMA SteadyFacts ==
    ASSUME CInv, RInv, AnswerFacts, query.step \in Listed, ~Mixed
    PROVE  /\ Current /\ level = 2 /\ Value("metadata") \in Agreeing
           /\ temps # {} => /\ temps = {This} /\ This > 0 /\ Holds(Name) /\ Name \in Immutable
                            /\ Value("metadata").status = "running" /\ Active
           /\ \A a \in Artifacts :
                 target[a] # 0 => Links(target[a]) = IF temps # {} /\ a = Name THEN 2 ELSE 1
<1>1. Reading /\ target["metadata"] # 0 /\ NamesAreGood /\ Typed
  BY RecordTypes DEF Reading, Listed, MetadataRead, Judged, Recognized, RInv, QueryFits
<1>2. Current /\ Answer # Refused
  BY <1>1 DEF RInv, SteadyRests, Mixed
<1>3. level = 2 /\ level # 0
  BY <1>1 DEF NamesAreGood, Artifacts
<1>4. /\ Value("metadata") \in Agreeing
      /\ temps # {} => /\ temps = {This} /\ This > 0 /\ Holds(Name) /\ Name \in Immutable
                       /\ Value("metadata").status = "running" /\ Active
  BY <1>2, <1>3 DEF AnswerFacts, AcceptedTells
<1>5. ASSUME NEW a \in Artifacts, target[a] # 0
      PROVE  Links(target[a]) = IF temps # {} /\ a = Name THEN 2 ELSE 1
  <2>1. temps # {} => (target[a] \in temps <=> a = Name)
    BY <1>1, <1>4, OtherNames DEF Holds
  <2> QED BY <1>5, <2>1, LinksOf
<1> QED BY <1>2, <1>3, <1>4, <1>5

\* What a further step q of the reader must have, once it has listed the names:
\* what it holds on to, what it rests on, and what is current in it.
HoldsOn(q) ==
    /\ q.inode \in 0..This
    /\ \A a \in Artifacts : q.step = Opened[a] => q.inode # 0 /\ writes[q.inode].artifact = a
    /\ q.pair \in 0..This /\ (q.pair # 0 => q.step \in {"temp"} \cup Recognized)
    /\ q.result # "none" => q.step \in {"transcript", "transcript opened", "decide"}
    /\ q.transcript => q.step = "decide"
    /\ \A a \in q.there : target[a] # 0

RestsOn(q) ==
    /\ q.step \in Judged => q.metadata \in Agreeing
    /\ q.step \in {"target", "temp"} =>
          /\ query.temporary # {} /\ \A n \in query.temporary : writes[n].artifact \in Immutable
          /\ q.metadata.status = "running" /\ Active
    /\ q.step \in Recognized =>
          /\ q.pair = 0 => NoPrefix \in answers
          /\ q.pair # 0 => writes[q.pair].artifact \in answers

UpToDate(q) ==
    /\ \A a \in Artifacts : q.step = Opened[a] => q.inode = target[a]
    /\ q.step \in MetadataRead => q.metadata = Value("metadata")
    /\ q.step \in {"temp"} \cup Recognized =>
           IF query.temporary = {} THEN q.pair = 0 ELSE q.pair \in query.temporary
    /\ q.step = "transcript?" => q.there = {a \in {"result"} : target[a] # 0}
    /\ q.step \in Recognized \ {"result?", "transcript?"} =>
           q.there = {a \in Immutable : target[a] # 0}
    /\ q.step \in {"transcript", "transcript opened", "decide"} => q.result = Value("result")
    /\ q.step = "decide" => q.transcript = Value("transcript")

SeenBy(q) ==
    CASE q.step = "metadata" -> Value("metadata")
      [] q.step = "metadata opened" -> writes[q.inode].value
      [] OTHER -> q.metadata

\* Until then it holds what it held.
LEMMA HasListed ==
    ASSUME CInv, RInv, query.step \in Listed
    PROVE  /\ QueryTyped /\ Reading /\ HoldsOn(query) /\ RestsOn(query) /\ Seen = SeenBy(query)
           /\ target["metadata"] # 0 /\ target["prompt"] # 0 /\ This \in Nat
<1>1. QueryTyped /\ Reading /\ This \in Nat
  BY RecordTypes DEF RInv, Reading, Listed, MetadataRead, Judged, Recognized
<1>2. HoldsOn(query) /\ target["metadata"] # 0 /\ target["prompt"] # 0
  BY DEF RInv, QueryFits, HoldsOn
<1>3. RestsOn(query)
  BY DEF RInv, AcceptanceRests, RestsOn
<1>4. Seen = SeenBy(query)
  BY DEF Seen, SeenBy
<1> QED BY <1>1, <1>2, <1>3, <1>4

LEMMA StillCurrent ==
    ASSUME CInv, RInv, query.step \in Listed, ~Mixed
    PROVE  UpToDate(query)
<1>1. Current
  BY HasListed DEF RInv, SteadyRests
<1>2. query.temporary = temps
  BY <1>1 DEF Current
<1> QED BY <1>1, <1>2 DEF Current, UpToDate

LEMMA ReadsOn ==
    ASSUME CInv, RInv, AnswerFacts, Quiet, query.step \in Listed,
           NEW q \in QuerySet, query' = q, q.step \in Listed,
           q.names = query.names, q.temporary = query.temporary, SeenBy(q) = SeenBy(query),
           HoldsOn(q), RestsOn(q), Mixed \/ UpToDate(q)
    PROVE  RInv'
<1>1. /\ Reading /\ query'.step \notin {"idle", "answered", "entries", "list"}
      /\ QueryTyped' /\ query'.step \in Listed
  BY DEF Reading, Listed, MetadataRead, Judged, Recognized, QueryTyped
<1>2. /\ UNCHANGED <<level, target, temps, writes, pc>> /\ This' = This
      /\ Agreeing' = Agreeing /\ (Active' <=> Active) /\ answers' = answers
  BY <1>1, QuietFacts
<1>3. Value("metadata")' = Value("metadata") /\ Value("result")' = Value("result")
      /\ Value("transcript")' = Value("transcript")
  BY QuietFacts DEF Artifacts, Immutable
<1>4. QueryFits'
  <2>1. /\ target["metadata"] # 0 /\ target["prompt"] # 0
        /\ query.temporary # {} =>
              \E n \in 1..This : /\ query.temporary = {n}
                                 /\ n = This => pc \notin {"directory", "temporary"}
    BY DEF RInv, QueryFits
  <2> QED BY <1>1, <1>2, <2>1 DEF QueryFits, HoldsOn
<1>5. AcceptanceRests'
  <2>1. /\ query.temporary = {} => NoPrefix \in answers \/ Seen \notin Agreeing
        /\ query.temporary \cap temps # {} => Seen = Value("metadata")
    BY DEF RInv, AcceptanceRests
  <2>2. Seen' = Seen
    BY <1>2, <1>3, HasListed DEF Seen, SeenBy
  <2>3. query'.temporary = {} => NoPrefix \in answers' \/ Seen' \notin Agreeing'
    BY <1>2, <2>1, <2>2
  <2>4. query'.temporary \cap temps' # {} => Seen' = Value("metadata")'
    BY <1>2, <1>3, <2>1, <2>2
  <2>5. AcceptanceWasTrue'
    BY <1>1 DEF AcceptanceWasTrue, Answered
  <2> QED BY <1>2, <2>3, <2>4, <2>5 DEF AcceptanceRests, RestsOn
<1>6. ASSUME ~Mixed PROVE Current'
  <2>1. query.names = {a \in Artifacts : target[a] # 0} /\ query.temporary = temps
    BY <1>1, <1>6 DEF RInv, SteadyRests, Current
  <2>2. /\ {a \in Artifacts : target[a] # 0}' = {a \in Artifacts : target[a] # 0}
        /\ {a \in {"result"} : target[a] # 0}' = {a \in {"result"} : target[a] # 0}
        /\ {a \in Immutable : target[a] # 0}' = {a \in Immutable : target[a] # 0}
    BY <1>2
  <2>3. UpToDate(q)
    BY <1>6
  <2>4. /\ query'.step \in Listed =>
               query'.names = {a \in Artifacts : target[a] # 0}' /\ query'.temporary = temps'
        /\ \A a \in Artifacts : query'.step = Opened[a] => query'.inode = target'[a]
    BY <1>2, <2>1, <2>2, <2>3 DEF UpToDate
  <2>5. /\ query'.step \in MetadataRead => query'.metadata = Value("metadata")'
        /\ query'.step \in {"temp"} \cup Recognized =>
               IF query'.temporary = {} THEN query'.pair = 0 ELSE query'.pair \in query'.temporary
    BY <1>3, <2>3 DEF UpToDate
  <2>6. /\ query'.step = "transcript?" => query'.there = {a \in {"result"} : target[a] # 0}'
        /\ query'.step \in Recognized \ {"result?", "transcript?"} =>
               query'.there = {a \in Immutable : target[a] # 0}'
    BY <2>2, <2>3 DEF UpToDate
  <2>7. /\ query'.step \in {"transcript", "transcript opened", "decide"} =>
               query'.result = Value("result")'
        /\ query'.step = "decide" => query'.transcript = Value("transcript")'
    BY <1>3, <2>3 DEF UpToDate
  <2> QED BY <2>4, <2>5, <2>6, <2>7 DEF Current
<1> QED BY <1>1, <1>4, <1>5, <1>6, Onward

LEMMA OpenedAre ==
    /\ Opened["metadata"] = "metadata opened" /\ Opened["prompt"] = "prompt opened"
    /\ Opened["result"] = "result opened" /\ Opened["transcript"] = "transcript opened"
    /\ \A a \in Artifacts : a = "metadata" \/ a = "prompt" \/ a = "result" \/ a = "transcript"
    /\ "metadata" \in Artifacts /\ "prompt" \in Artifacts
    /\ "result" \in Artifacts /\ "transcript" \in Artifacts
    /\ "result" \in Immutable /\ "transcript" \in Immutable
    /\ "metadata" \notin Immutable /\ "prompt" \notin Immutable
<1>1. /\ Opened["metadata"] = "metadata opened" /\ Opened["prompt"] = "prompt opened"
      /\ Opened["result"] = "result opened" /\ Opened["transcript"] = "transcript opened"
  BY DEF Opened
<1>2. \A a \in Artifacts : a = "metadata" \/ a = "prompt" \/ a = "result" \/ a = "transcript"
  BY DEF Artifacts, Immutable
<1> QED BY <1>1, <1>2 DEF Artifacts, Immutable

\* What an open file is, and what is known of it as long as nothing has changed.
LEMMA OpenedIs ==
    ASSUME CInv, RInv, AnswerFacts, NEW a \in Artifacts, query.step = Opened[a],
           query.step \in Listed
    PROVE  /\ query.inode \in 1..This /\ writes[query.inode].artifact = a
           /\ writes[query.inode].value \in Content[a]
           /\ ~Mixed => /\ target[a] # 0 /\ query.inode = target[a]
                        /\ writes[query.inode].value = Value(a)
<1>1. HoldsOn(query) /\ This \in Nat /\ Typed
  BY HasListed, RecordTypes
<1>2. query.inode \in 0..This /\ query.inode # 0 /\ writes[query.inode].artifact = a
  BY <1>1 DEF HoldsOn
<1>3. query.inode \in 1..This
  BY <1>1, <1>2
<1>4. writes[query.inode].value \in Content[a]
  BY <1>1, <1>2, <1>3, EntryTypes
<1>5. ASSUME ~Mixed PROVE query.inode = target[a]
  BY <1>5, StillCurrent DEF UpToDate
<1>6. target[a] # 0 => Value(a) = writes[target[a]].value
  BY DEF Value
<1> QED BY <1>2, <1>3, <1>4, <1>5, <1>6

LEMMA OpenMetadataStep ==
    ASSUME CInv, RInv, AnswerFacts, Quiet, OpenMetadata
    PROVE  RInv'
<1> DEFINE q == [query EXCEPT !.step = "metadata opened", !.inode = target["metadata"]]
<1>1. query.step = "metadata" /\ query' = q
  BY DEF OpenMetadata, Open
<1>2. query.step \in Listed
  BY <1>1 DEF Listed
<1>3. /\ "metadata opened" \in ReaderSteps /\ "metadata opened" \in Listed
      /\ "metadata opened" \notin MetadataRead /\ "metadata opened" \notin Judged
      /\ "metadata opened" \notin Recognized /\ query.step \notin Recognized
  BY <1>1 DEF ReaderSteps, Listed, MetadataRead, Judged, Recognized
<1>4. HoldsOn(query) /\ QueryTyped /\ target["metadata"] # 0 /\ This \in Nat
  BY <1>2, HasListed
<1>5. /\ target["metadata"] \in 0..This /\ target["metadata"] \in Nat
      /\ writes[target["metadata"]].artifact = "metadata"
      /\ Value("metadata") = writes[target["metadata"]].value
  <2>1. /\ target["metadata"] \in 0..This /\ writes[target["metadata"]].artifact = "metadata"
        /\ Value("metadata") = writes[target["metadata"]].value
    BY <1>4, ValueTypes, RecordTypes, OpenedAre
  <2> QED BY <1>4, <2>1
<1>6. /\ q \in QuerySet /\ q.step = "metadata opened" /\ q.inode = target["metadata"]
      /\ q.temporary = query.temporary /\ q.names = query.names /\ q.metadata = query.metadata
      /\ q.pair = query.pair /\ q.result = query.result
      /\ q.transcript = query.transcript /\ q.there = query.there
  BY <1>3, <1>4, <1>5 DEF QueryTyped, QuerySet
<1> HIDE DEF q
<1>7. SeenBy(q) = SeenBy(query)
  BY <1>1, <1>5, <1>6 DEF SeenBy
<1>8. HoldsOn(q)
  <2>1. \A a \in Artifacts : q.step = Opened[a] => a = "metadata"
    BY <1>6, OpenedAre
  <2> QED BY <1>1, <1>3, <1>4, <1>5, <1>6, <2>1 DEF HoldsOn
<1>9. RestsOn(q) /\ UpToDate(q)
  <2>1. \A a \in Artifacts : q.step = Opened[a] => a = "metadata"
    BY <1>6, OpenedAre
  <2> QED BY <1>3, <1>6, <2>1 DEF RestsOn, UpToDate
<1> QED BY <1>1, <1>2, <1>3, <1>6, <1>7, <1>8, <1>9, ReadsOn

LEMMA ReadMetadataStep ==
    ASSUME CInv, RInv, AnswerFacts, Quiet, ReadMetadata
    PROVE  RInv'
<1> DEFINE m == writes[query.inode].value
           condition == Links(query.inode) \in {0, 1} /\ LifecycleValid(m)
           q == [query EXCEPT !.step = "prompt", !.metadata = m]
<1>1. query.step = "metadata opened" /\ IfElseRefuse(condition, q)
  BY DEF ReadMetadata
<1>2. query.step \in Listed /\ query.step = Opened["metadata"]
  BY <1>1, OpenedAre DEF Listed
<1>3. /\ "prompt" \in ReaderSteps /\ "prompt" \in Listed /\ "prompt" \notin Judged
      /\ "prompt" \notin Recognized /\ query.step \notin Recognized
  BY <1>1 DEF ReaderSteps, Listed, MetadataRead, Judged, Recognized
<1>4. HoldsOn(query) /\ QueryTyped /\ target["metadata"] # 0 /\ Reading
  BY <1>2, HasListed
<1>5. m \in Metadata /\ LifecycleValid(m)
  BY <1>2, OpenedIs, OpenedAre, ContentTypes
<1>6. ASSUME ~Mixed PROVE m = Value("metadata") /\ condition
  <2>1. query.inode = target["metadata"] /\ m = Value("metadata")
    BY <1>2, <1>4, <1>6, OpenedIs, OpenedAre
  <2>2. Links(target["metadata"]) = 1
    BY <1>2, <1>4, <1>6, SteadyFacts, OpenedAre
  <2> QED BY <1>5, <2>1, <2>2
<1>7. CASE ~condition
  BY <1>1, <1>4, <1>6, <1>7, RefuseEnds DEF IfElseRefuse
<1>8. CASE condition
  <2>1. query' = q
    BY <1>1, <1>8 DEF IfElseRefuse
  <2>2. SeenBy(query) = m
    BY <1>1 DEF SeenBy
  <2>3. /\ q \in QuerySet /\ q.step = "prompt" /\ q.metadata = m
        /\ q.temporary = query.temporary /\ q.names = query.names
        /\ q.inode = query.inode /\ q.pair = query.pair /\ q.result = query.result
        /\ q.transcript = query.transcript /\ q.there = query.there
    <3> HIDE DEF m
    <3> QED BY <1>3, <1>4, <1>5 DEF QueryTyped, QuerySet
  <2> HIDE DEF condition, m, q
  <2>4. SeenBy(q) = SeenBy(query)
    BY <2>2, <2>3 DEF SeenBy
  <2>5. \A a \in Artifacts : q.step # Opened[a]
    BY <2>3, OpenedAre
  <2>6. HoldsOn(q)
    BY <1>1, <1>3, <1>4, <2>3, <2>5 DEF HoldsOn
  <2>7. RestsOn(q)
    BY <1>3, <2>3 DEF RestsOn
  <2>8. Mixed \/ UpToDate(q)
    BY <1>3, <1>6, <2>3, <2>5 DEF UpToDate
  <2> QED BY <1>2, <1>3, <2>1, <2>3, <2>4, <2>6, <2>7, <2>8, ReadsOn
<1> QED BY <1>7, <1>8

LEMMA OpenPromptStep ==
    ASSUME CInv, RInv, AnswerFacts, Quiet, OpenPrompt
    PROVE  RInv'
<1> DEFINE q == [query EXCEPT !.step = "prompt opened", !.inode = target["prompt"]]
<1>1. query.step = "prompt" /\ query' = q
  BY DEF OpenPrompt, Open
<1>2. query.step \in Listed /\ query.step \in MetadataRead
  BY <1>1 DEF Listed, MetadataRead
<1>3. /\ "prompt opened" \in ReaderSteps /\ "prompt opened" \in Listed
      /\ "prompt opened" \in MetadataRead /\ "prompt opened" \notin Judged
      /\ "prompt opened" \notin Recognized /\ query.step \notin Recognized
  BY <1>1 DEF ReaderSteps, Listed, MetadataRead, Judged, Recognized
<1>4. HoldsOn(query) /\ QueryTyped /\ target["prompt"] # 0 /\ This \in Nat
  BY <1>2, HasListed
<1>5. /\ target["prompt"] \in 0..This /\ target["prompt"] \in Nat
      /\ writes[target["prompt"]].artifact = "prompt"
  <2>1. target["prompt"] \in 0..This /\ writes[target["prompt"]].artifact = "prompt"
    BY <1>4, ValueTypes, RecordTypes, OpenedAre
  <2> QED BY <1>4, <2>1
<1>6. /\ q \in QuerySet /\ q.step = "prompt opened" /\ q.inode = target["prompt"]
      /\ q.temporary = query.temporary /\ q.names = query.names /\ q.metadata = query.metadata
      /\ q.pair = query.pair /\ q.result = query.result
      /\ q.transcript = query.transcript /\ q.there = query.there
  BY <1>3, <1>4, <1>5 DEF QueryTyped, QuerySet
<1> HIDE DEF q
<1>7. SeenBy(q) = SeenBy(query)
  BY <1>1, <1>6 DEF SeenBy
<1>8. \A a \in Artifacts : q.step = Opened[a] => a = "prompt"
  BY <1>6, OpenedAre
<1>9. HoldsOn(q) /\ RestsOn(q)
  BY <1>1, <1>3, <1>4, <1>5, <1>6, <1>8 DEF HoldsOn, RestsOn
<1>10. Mixed \/ UpToDate(q)
  <2>1. ~Mixed => query.metadata = Value("metadata")
    BY <1>2, StillCurrent DEF UpToDate
  <2> QED BY <1>3, <1>6, <1>8, <2>1 DEF UpToDate
<1> QED BY <1>1, <1>2, <1>3, <1>6, <1>7, <1>9, <1>10, ReadsOn

LEMMA ReadPromptStep ==
    ASSUME CInv, RInv, AnswerFacts, Quiet, ReadPrompt
    PROVE  RInv'
<1> DEFINE condition == /\ Links(query.inode) \in {0, 1}
                        /\ MetadataAgrees(query.metadata, st, log)
           q == [query EXCEPT !.step = "temporary"]
<1>1. query.step = "prompt opened" /\ IfElseRefuse(condition, q)
  BY DEF ReadPrompt
<1>2. query.step \in Listed /\ query.step \in MetadataRead /\ query.step = Opened["prompt"]
  BY <1>1, OpenedAre DEF Listed, MetadataRead
<1>3. /\ "temporary" \in ReaderSteps /\ "temporary" \in Listed /\ "temporary" \in MetadataRead
      /\ "temporary" \notin Recognized /\ query.step \notin Recognized
  BY <1>1 DEF ReaderSteps, Listed, MetadataRead, Judged, Recognized
<1>4. HoldsOn(query) /\ QueryTyped /\ target["prompt"] # 0 /\ Reading
  BY <1>2, HasListed
<1>5. query.metadata \in Metadata
  BY <1>4 DEF QueryTyped, QuerySet
<1>6. ASSUME ~Mixed PROVE query.metadata = Value("metadata") /\ condition
  <2>1. query.inode = target["prompt"]
    BY <1>2, <1>4, <1>6, OpenedIs, OpenedAre
  <2>2. Value("metadata") \in Agreeing /\ (temps # {} => Name \in Immutable)
    BY <1>2, <1>6, SteadyFacts
  <2>3. Links(target["prompt"]) = IF temps # {} /\ "prompt" = Name THEN 2 ELSE 1
    BY <1>2, <1>4, <1>6, SteadyFacts, OpenedAre
  <2>4. Links(target["prompt"]) = 1
    BY <2>2, <2>3, OpenedAre
  <2>5. query.metadata = Value("metadata")
    BY <1>2, <1>6, StillCurrent DEF UpToDate
  <2> QED BY <2>1, <2>2, <2>4, <2>5 DEF Agreeing
<1>7. CASE ~condition
  BY <1>1, <1>4, <1>6, <1>7, RefuseEnds DEF IfElseRefuse
<1>8. CASE condition
  <2>1. query' = q
    BY <1>1, <1>8 DEF IfElseRefuse
  <2>2. query.metadata \in Agreeing
    BY <1>5, <1>8 DEF Agreeing
  <2>3. /\ q \in QuerySet /\ q.step = "temporary" /\ q.metadata = query.metadata
        /\ q.temporary = query.temporary /\ q.names = query.names
        /\ q.inode = query.inode /\ q.pair = query.pair /\ q.result = query.result
        /\ q.transcript = query.transcript /\ q.there = query.there
    BY <1>3, <1>4 DEF QueryTyped, QuerySet
  <2> HIDE DEF condition, q
  <2>4. SeenBy(q) = SeenBy(query)
    BY <1>1, <2>3 DEF SeenBy
  <2>5. \A a \in Artifacts : q.step # Opened[a]
    BY <2>3, OpenedAre
  <2>6. HoldsOn(q)
    BY <1>1, <1>3, <1>4, <2>3, <2>5 DEF HoldsOn
  <2>7. RestsOn(q)
    BY <1>3, <2>2, <2>3 DEF RestsOn
  <2>8. Mixed \/ UpToDate(q)
    BY <1>3, <1>6, <2>3, <2>5 DEF UpToDate
  <2> QED BY <1>2, <1>3, <2>1, <2>3, <2>4, <2>6, <2>7, <2>8, ReadsOn
<1> QED BY <1>7, <1>8

LEMMA RecognizePrefixStep ==
    ASSUME CInv, RInv, AnswerFacts, Quiet, RecognizePrefix
    PROVE  RInv'
<1> DEFINE condition == /\ Cardinality(query.temporary) = 1
                        /\ \A n \in query.temporary : /\ writes[n].artifact \in Immutable
                                                      /\ writes[n].artifact \in query.names
                        /\ query.metadata.status = "running"
                        /\ ProbeActive(st, log)
           plain == [query EXCEPT !.step = "result?"]
           q == [query EXCEPT !.step = "target"]
<1>1. /\ query.step = "temporary"
      /\ IF query.temporary = {} THEN query' = plain ELSE IfElseRefuse(condition, q)
  BY DEF RecognizePrefix, Turn
<1>2. query.step \in Listed /\ query.step \in MetadataRead /\ query.step \in Judged
  BY <1>1 DEF Listed, MetadataRead, Judged
<1>3. query.step \notin Recognized /\ query.step # "temp"
  BY <1>1 DEF Recognized
<1>4. HoldsOn(query) /\ RestsOn(query) /\ Seen = SeenBy(query) /\ QueryTyped /\ Reading
  BY <1>2, HasListed
<1>5. query.pair = 0 /\ query.metadata \in Agreeing /\ Seen = query.metadata
  BY <1>1, <1>2, <1>3, <1>4 DEF HoldsOn, RestsOn, SeenBy
<1>6. ASSUME ~Mixed PROVE query.metadata = Value("metadata")
  BY <1>2, <1>6, StillCurrent DEF UpToDate
<1>7. CASE query.temporary = {}
  <2>1. query' = plain
    BY <1>1, <1>7
  <2>2. "result?" \in ReaderSteps /\ "result?" \in Listed /\ "result?" \in Recognized
    BY DEF ReaderSteps, Listed, MetadataRead, Judged, Recognized
  <2>3. /\ plain \in QuerySet /\ plain.step = "result?" /\ plain.metadata = query.metadata
        /\ plain.temporary = query.temporary /\ plain.names = query.names
        /\ plain.inode = query.inode /\ plain.pair = query.pair /\ plain.result = query.result
        /\ plain.transcript = query.transcript /\ plain.there = query.there
    BY <2>2, <1>4 DEF QueryTyped, QuerySet
  <2> HIDE DEF plain
  <2>4. SeenBy(plain) = SeenBy(query)
    BY <1>1, <2>3 DEF SeenBy
  <2>5. \A a \in Artifacts : plain.step # Opened[a]
    BY <2>3, OpenedAre
  <2>6. HoldsOn(plain)
    BY <1>1, <1>3, <1>4, <1>5, <2>3, <2>5 DEF HoldsOn
  <2>7. NoPrefix \in answers
    BY <1>2, <1>5, <1>7 DEF RInv, AcceptanceRests
  <2>8. RestsOn(plain)
    BY <1>5, <2>3, <2>7 DEF RestsOn
  <2>9. Mixed \/ UpToDate(plain)
    BY <1>5, <1>6, <1>7, <2>3, <2>5 DEF UpToDate
  <2> QED BY <1>2, <2>1, <2>2, <2>3, <2>4, <2>6, <2>8, <2>9, ReadsOn
<1>8. CASE query.temporary # {}
  <2>1. IfElseRefuse(condition, q)
    BY <1>1, <1>8
  <2>2. ASSUME ~Mixed PROVE condition
    <3>1. /\ query.temporary = temps /\ query.names = {a \in Artifacts : target[a] # 0}
          /\ temps = {This} /\ This > 0 /\ Holds(Name) /\ Name \in Immutable
          /\ Value("metadata").status = "running" /\ Active
      BY <1>2, <1>8, <2>2, SteadyFacts DEF Current
    <3>2. Name \in query.names
      BY <3>1 DEF Holds, Artifacts
    <3>3. Cardinality(query.temporary) = 1
      BY <3>1, FS_Singleton
    <3> QED BY <1>6, <2>2, <3>1, <3>2, <3>3 DEF Active, Name
  <2>3. CASE ~condition
    BY <1>4, <2>1, <2>2, <2>3, RefuseEnds DEF IfElseRefuse
  <2>4. CASE condition
    <3>1. query' = q
      BY <2>1, <2>4 DEF IfElseRefuse
    <3>2. /\ "target" \in ReaderSteps /\ "target" \in Listed /\ "target" \in Judged
          /\ "target" \notin Recognized
      BY DEF ReaderSteps, Listed, MetadataRead, Judged, Recognized
    <3>3. /\ q \in QuerySet /\ q.step = "target" /\ q.metadata = query.metadata
          /\ q.temporary = query.temporary /\ q.names = query.names
          /\ q.inode = query.inode /\ q.pair = query.pair /\ q.result = query.result
          /\ q.transcript = query.transcript /\ q.there = query.there
      BY <3>2, <1>4 DEF QueryTyped, QuerySet
    <3>4. /\ \A n \in query.temporary : writes[n].artifact \in Immutable
          /\ query.metadata.status = "running" /\ Active
      BY <2>4 DEF Active
    <3> HIDE DEF q, condition
    <3>5. SeenBy(q) = SeenBy(query)
      BY <1>1, <3>3 DEF SeenBy
    <3>6. \A a \in Artifacts : q.step # Opened[a]
      BY <3>3, OpenedAre
    <3>7. HoldsOn(q)
      BY <1>1, <1>3, <1>4, <1>5, <3>3, <3>6 DEF HoldsOn
    <3>8. RestsOn(q)
      BY <1>5, <1>8, <3>2, <3>3, <3>4 DEF RestsOn
    <3>9. Mixed \/ UpToDate(q)
      BY <1>6, <3>2, <3>3, <3>6 DEF UpToDate
    <3> QED BY <1>2, <3>1, <3>2, <3>3, <3>5, <3>7, <3>8, <3>9, ReadsOn
  <2> QED BY <2>3, <2>4
<1> QED BY <1>7, <1>8

LEMMA TemporaryIs ==
    ASSUME CInv, RInv, query.step \in {"target", "temp"}
    PROVE  /\ query.step \in Judged /\ query.step \in MetadataRead /\ query.step \in Listed
           /\ query.step \notin Recognized
           /\ query.temporary = {Temporary} /\ Temporary \in 1..This
           /\ writes[Temporary].artifact \in Immutable
           /\ writes[Temporary].artifact \in Artifacts
           /\ query.metadata.status = "running" /\ Active /\ query.metadata \in Agreeing
<1>1. /\ query.step \in Judged /\ query.step \in MetadataRead /\ query.step \in Listed
      /\ query.step \notin Recognized
  BY DEF Judged, MetadataRead, Listed, Recognized
<1>2. RestsOn(query)
  BY <1>1, HasListed
<1>3. /\ query.temporary # {} /\ \A n \in query.temporary : writes[n].artifact \in Immutable
      /\ query.metadata.status = "running" /\ Active /\ query.metadata \in Agreeing
  BY <1>1, <1>2 DEF RestsOn
<1>4. PICK x \in 1..This : query.temporary = {x}
  BY <1>3 DEF RInv, QueryFits
<1>5. Temporary = x
  BY <1>4 DEF Temporary
<1>6. Immutable \subseteq Artifacts
  BY DEF Artifacts
<1> QED BY <1>1, <1>3, <1>4, <1>5, <1>6

\* What the two stats find as long as nothing has changed.
LEMMA PairIs ==
    ASSUME CInv, RInv, AnswerFacts, query.step \in {"target", "temp"}, ~Mixed
    PROVE  /\ Temporary = This /\ Temporary \in temps /\ target[writes[Temporary].artifact] = This
           /\ This > 0 /\ Links(This) = 2 /\ query.metadata = Value("metadata")
<1>1. query.step \in Listed /\ query.step \in MetadataRead /\ query.temporary = {Temporary}
  BY TemporaryIs
<1>2. Current
  BY <1>1, SteadyFacts
<1>3. query.temporary = temps /\ query.metadata = Value("metadata")
  BY <1>1, <1>2 DEF Current
<1>4. temps = {This} /\ This > 0 /\ Holds(Name) /\ Name \in Immutable
  BY <1>1, <1>3, SteadyFacts
<1>5. Temporary = This /\ target[Name] = This /\ Name \in Artifacts
  BY <1>1, <1>3, <1>4 DEF Holds, Artifacts
<1>6. Links(target[Name]) = 2
  BY <1>1, <1>4, <1>5, SteadyFacts
<1> QED BY <1>3, <1>4, <1>5, <1>6 DEF Name

LEMMA StatTargetStep ==
    ASSUME CInv, RInv, AnswerFacts, Quiet, StatTarget
    PROVE  RInv'
<1> DEFINE n == target[writes[Temporary].artifact]
           condition == n # 0 /\ Links(n) = 2
           q == [query EXCEPT !.step = "temp", !.pair = n]
<1>1. query.step = "target" /\ IfElseRefuse(condition, q)
  BY DEF StatTarget
<1>2. /\ query.step \in Judged /\ query.step \in MetadataRead /\ query.step \in Listed
      /\ query.step \notin Recognized /\ query.temporary = {Temporary}
      /\ \A x \in query.temporary : writes[x].artifact \in Immutable
      /\ writes[Temporary].artifact \in Artifacts
      /\ query.metadata.status = "running" /\ Active /\ query.metadata \in Agreeing
  BY <1>1, TemporaryIs
<1>3. HoldsOn(query) /\ QueryTyped /\ Reading /\ This \in Nat
  BY <1>2, HasListed
<1>4. n \in 0..This /\ n \in Nat
  <2>1. n \in 0..This
    BY <1>2, RecordTypes
  <2> QED BY <1>3, <2>1
<1>5. ASSUME ~Mixed PROVE condition /\ n \in query.temporary /\ query.metadata = Value("metadata")
  <2>1. n = This /\ This > 0 /\ Links(This) = 2 /\ Temporary = This
        /\ query.metadata = Value("metadata")
    BY <1>1, <1>5, PairIs
  <2> QED BY <1>2, <1>3, <2>1
<1>6. CASE ~condition
  BY <1>1, <1>3, <1>5, <1>6, RefuseEnds DEF IfElseRefuse
<1>7. CASE condition
  <2>1. query' = q
    BY <1>1, <1>7 DEF IfElseRefuse
  <2>2. /\ "temp" \in ReaderSteps /\ "temp" \in Listed /\ "temp" \in Judged
        /\ "temp" \notin Recognized
    BY DEF ReaderSteps, Listed, MetadataRead, Judged, Recognized
  <2> HIDE DEF n
  <2>3. /\ q \in QuerySet /\ q.step = "temp" /\ q.metadata = query.metadata
        /\ q.temporary = query.temporary /\ q.names = query.names
        /\ q.inode = query.inode /\ q.pair = n /\ q.result = query.result
        /\ q.transcript = query.transcript /\ q.there = query.there
    BY <2>2, <1>3, <1>4 DEF QueryTyped, QuerySet
  <2> HIDE DEF q, condition
  <2>4. SeenBy(q) = SeenBy(query)
    BY <1>1, <2>3 DEF SeenBy
  <2>5. \A a \in Artifacts : q.step # Opened[a]
    BY <2>3, OpenedAre
  <2>6. HoldsOn(q)
    BY <1>1, <1>3, <1>4, <2>3, <2>5 DEF HoldsOn
  <2>7. RestsOn(q)
    BY <1>2, <2>2, <2>3 DEF RestsOn
  <2>8. Mixed \/ UpToDate(q)
    <3>1. query.temporary # {}
      BY <1>2
    <3> QED BY <1>5, <2>2, <2>3, <2>5, <3>1 DEF UpToDate
  <2> QED BY <1>2, <2>1, <2>2, <2>3, <2>4, <2>6, <2>7, <2>8, ReadsOn
<1> QED BY <1>6, <1>7

LEMMA StatTemporaryStep ==
    ASSUME CInv, RInv, AnswerFacts, Quiet, StatTemporary
    PROVE  RInv'
<1> DEFINE condition == Temporary \in temps /\ Links(Temporary) = 2 /\ query.pair = Temporary
           q == [query EXCEPT !.step = "result?"]
<1>1. query.step = "temp" /\ IfElseRefuse(condition, q)
  BY DEF StatTemporary
<1>2. /\ query.step \in Judged /\ query.step \in Listed
      /\ query.step \notin Recognized /\ query.temporary = {Temporary} /\ Temporary \in 1..This
      /\ writes[Temporary].artifact \in Immutable
      /\ query.metadata.status = "running" /\ Active /\ query.metadata \in Agreeing
  BY <1>1, TemporaryIs
<1>3. /\ HoldsOn(query) /\ QueryTyped /\ Reading /\ Seen = SeenBy(query) /\ This \in Nat
      /\ target["prompt"] # 0
  BY <1>2, HasListed
<1>4. ASSUME ~Mixed
      PROVE  condition /\ query.metadata = Value("metadata") /\ query.pair \in query.temporary
  <2>1. Temporary = This /\ Temporary \in temps /\ Links(This) = 2
        /\ query.metadata = Value("metadata")
    BY <1>1, <1>4, PairIs
  <2>2. query.pair \in query.temporary
    BY <1>1, <1>2, <1>4, StillCurrent DEF UpToDate
  <2> QED BY <1>2, <2>1, <2>2
<1>5. CASE ~condition
  BY <1>1, <1>3, <1>4, <1>5, RefuseEnds DEF IfElseRefuse
<1>6. CASE condition
  <2>1. query' = q
    BY <1>1, <1>6 DEF IfElseRefuse
  <2>2. "result?" \in ReaderSteps /\ "result?" \in Listed /\ "result?" \in Recognized
    BY DEF ReaderSteps, Listed, MetadataRead, Judged, Recognized
  <2>3. /\ q \in QuerySet /\ q.step = "result?" /\ q.metadata = query.metadata
        /\ q.temporary = query.temporary /\ q.names = query.names
        /\ q.inode = query.inode /\ q.pair = query.pair /\ q.result = query.result
        /\ q.transcript = query.transcript /\ q.there = query.there
    BY <2>2, <1>3 DEF QueryTyped, QuerySet
  <2>4. writes[query.pair].artifact \in answers /\ query.pair # 0
    <3>1. Temporary = This /\ This \in temps /\ temps # {} /\ Links(This) = 2 /\ This > 0
      BY <1>2, <1>3, <1>6 DEF CInv, NothingFails
    <3>2. Holds(Name)
      <4>1. Links(This) = 1 + Cardinality({a \in Artifacts : target[a] = This})
        BY <3>1 DEF Links
      <4>2. {a \in Artifacts : target[a] = This} # {}
        BY <3>1, <4>1, FS_EmptySet
      <4>3. PICK b \in Artifacts : target[b] = This
        BY <4>2
      <4> QED BY <3>1, <4>3, OtherNames, RecordTypes DEF Holds
    <3>3. Seen = Value("metadata")
      BY <1>2, <3>1 DEF RInv, AcceptanceRests
    <3>4. Value("metadata") = query.metadata
      BY <1>1, <1>3, <3>3 DEF SeenBy
    <3>5. level # 0
      <4>1. NamesAreGood /\ "prompt" \in Artifacts
        BY RecordTypes, OpenedAre
      <4> QED BY <1>3, <4>1 DEF NamesAreGood
    <3>6. Name \in Immutable
      BY <1>2, <3>1 DEF Name
    <3>7. MetadataAgrees(Value("metadata"), st, log) /\ Value("metadata").status = "running"
          /\ ProbeActive(st, log)
      BY <1>2, <3>4 DEF Agreeing, Active
    <3>8. Answer = Name
      BY <1>3, <3>1, <3>2, <3>5, <3>6, <3>7, AnswerLinked
    <3>9. Answer \in answers
      BY <1>3 DEF RInv, SteadyRests
    <3> QED BY <1>6, <3>1, <3>8, <3>9 DEF Name
  <2> HIDE DEF condition, q
  <2>5. SeenBy(q) = SeenBy(query)
    BY <1>1, <2>3 DEF SeenBy
  <2>6. \A a \in Artifacts : q.step # Opened[a]
    BY <2>3, OpenedAre
  <2>7. HoldsOn(q)
    BY <1>1, <1>3, <2>2, <2>3, <2>6 DEF HoldsOn
  <2>8. RestsOn(q)
    BY <1>2, <2>3, <2>4 DEF RestsOn
  <2>9. Mixed \/ UpToDate(q)
    <3>1. query.temporary # {}
      BY <1>2
    <3> QED BY <1>4, <2>3, <2>6, <3>1 DEF UpToDate
  <2> QED BY <1>2, <2>1, <2>2, <2>3, <2>5, <2>7, <2>8, <2>9, ReadsOn
<1> QED BY <1>5, <1>6

\* Once the prefix has been judged, the rest of the records is read.
LEMMA RecognizedOn ==
    ASSUME CInv, RInv, AnswerFacts, Quiet, query.step \in Recognized,
           NEW q \in QuerySet, query' = q, q.step \in Recognized,
           q.names = query.names, q.temporary = query.temporary, q.metadata = query.metadata,
           q.pair = query.pair, HoldsOn(q),
           ~Mixed =>
               /\ \A a \in Artifacts : q.step = Opened[a] => q.inode = target[a]
               /\ q.step = "transcript?" => q.there = {a \in {"result"} : target[a] # 0}
               /\ q.step \in Recognized \ {"result?", "transcript?"} =>
                      q.there = {a \in Immutable : target[a] # 0}
               /\ q.step \in {"transcript", "transcript opened", "decide"} =>
                      q.result = Value("result")
               /\ q.step = "decide" => q.transcript = Value("transcript")
    PROVE  RInv'
<1>1. /\ Recognized \subseteq Listed /\ Recognized \subseteq Judged /\ Recognized \subseteq MetadataRead
      /\ \A s \in Recognized : s \notin {"metadata", "metadata opened", "target", "temp"}
  BY DEF Listed, MetadataRead, Judged, Recognized
<1>2. query.step \in Listed /\ query.step \in Judged /\ query.step \in MetadataRead
      /\ q.step \in Listed /\ q.step \in Judged /\ q.step \in MetadataRead
      /\ q.step \notin {"metadata", "metadata opened", "target", "temp"}
      /\ query.step \notin {"metadata", "metadata opened", "target", "temp"}
  BY <1>1
<1>3. SeenBy(q) = SeenBy(query)
  BY <1>2 DEF SeenBy
<1>4. RestsOn(q)
  <2>1. RestsOn(query)
    BY <1>2, HasListed
  <2> QED BY <1>2, <2>1 DEF RestsOn
<1>5. ASSUME ~Mixed PROVE UpToDate(q)
  <2>1. UpToDate(query)
    BY <1>2, <1>5, StillCurrent
  <2>2. /\ query.metadata = Value("metadata")
        /\ IF query.temporary = {} THEN query.pair = 0 ELSE query.pair \in query.temporary
    BY <1>2, <2>1 DEF UpToDate
  <2> QED BY <1>5, <2>2 DEF UpToDate
<1> QED BY <1>2, <1>3, <1>4, <1>5, ReadsOn

LEMMA RecognizedHas ==
    ASSUME CInv, RInv, query.step \in Recognized
    PROVE  /\ query.step \in Listed /\ query.step \in MetadataRead /\ Reading
           /\ HoldsOn(query) /\ RestsOn(query) /\ QueryTyped /\ This \in Nat
           /\ ~Mixed => UpToDate(query)
<1>1. query.step \in Listed /\ query.step \in MetadataRead
  BY DEF Listed, MetadataRead, Judged
<1> QED BY <1>1, HasListed, StillCurrent

LEMMA LookForResultStep ==
    ASSUME CInv, RInv, AnswerFacts, Quiet, LookForResult
    PROVE  RInv'
<1> DEFINE found == {a \in {"result"} : target[a] # 0}
           q == [query EXCEPT !.step = "transcript?", !.there = found]
<1>1. query.step = "result?" /\ query' = q
  BY DEF LookForResult
<1>2. query.step \in Recognized /\ "transcript?" \in Recognized /\ "transcript?" \in ReaderSteps
  BY <1>1 DEF Recognized, ReaderSteps, Listed, MetadataRead, Judged
<1>3. HoldsOn(query) /\ QueryTyped
  BY <1>2, RecognizedHas
<1>4. found \in SUBSET Immutable /\ \A a \in found : target[a] # 0
  BY OpenedAre
<1>5. /\ q \in QuerySet /\ q.step = "transcript?" /\ q.there = found
      /\ q.temporary = query.temporary /\ q.names = query.names /\ q.metadata = query.metadata
      /\ q.inode = query.inode /\ q.pair = query.pair
      /\ q.result = query.result /\ q.transcript = query.transcript
  <2> HIDE DEF found
  <2> QED BY <1>2, <1>3, <1>4 DEF QueryTyped, QuerySet
<1> HIDE DEF q
<1>6. \A a \in Artifacts : q.step # Opened[a]
  BY <1>5, OpenedAre
<1>7. HoldsOn(q)
  BY <1>1, <1>2, <1>3, <1>4, <1>5, <1>6 DEF HoldsOn
<1>8. q.step \notin {"result?", "transcript", "transcript opened", "decide"}
      /\ q.step \notin Recognized \ {"result?", "transcript?"}
  BY <1>5
<1> QED BY <1>1, <1>2, <1>5, <1>6, <1>7, <1>8, RecognizedOn

LEMMA LookForTranscriptStep ==
    ASSUME CInv, RInv, AnswerFacts, Quiet, LookForTranscript
    PROVE  RInv'
<1> DEFINE found == query.there \cup {a \in {"transcript"} : target[a] # 0}
           q == [query EXCEPT !.step = "result", !.there = found]
<1>1. query.step = "transcript?" /\ query' = q
  BY DEF LookForTranscript
<1>2. query.step \in Recognized /\ "result" \in Recognized /\ "result" \in ReaderSteps
  BY <1>1 DEF Recognized, ReaderSteps, Listed, MetadataRead, Judged
<1>3. HoldsOn(query) /\ QueryTyped /\ (~Mixed => UpToDate(query))
  BY <1>2, RecognizedHas
<1>4. found \in SUBSET Immutable /\ \A a \in found : target[a] # 0
  BY <1>3, OpenedAre DEF HoldsOn, QueryTyped, QuerySet
<1>5. ASSUME ~Mixed PROVE found = {a \in Immutable : target[a] # 0}
  BY <1>1, <1>3, <1>5 DEF UpToDate, Immutable
<1>6. /\ q \in QuerySet /\ q.step = "result" /\ q.there = found
      /\ q.temporary = query.temporary /\ q.names = query.names /\ q.metadata = query.metadata
      /\ q.inode = query.inode /\ q.pair = query.pair
      /\ q.result = query.result /\ q.transcript = query.transcript
  <2> HIDE DEF found
  <2> QED BY <1>2, <1>3, <1>4 DEF QueryTyped, QuerySet
<1> HIDE DEF q, found
<1>7. \A a \in Artifacts : q.step # Opened[a]
  BY <1>6, OpenedAre
<1>8. HoldsOn(q)
  BY <1>1, <1>2, <1>3, <1>4, <1>6, <1>7 DEF HoldsOn
<1>9. q.step \notin {"transcript?", "transcript", "transcript opened", "decide"}
  BY <1>6
<1> QED BY <1>1, <1>2, <1>5, <1>6, <1>7, <1>8, <1>9, RecognizedOn

\* What the name of a result or a transcript leads to, if it leads anywhere.
LEMMA FoundIs ==
    ASSUME CInv, RInv, query.step \in Recognized, NEW a \in Immutable, a \in Artifacts
    PROVE  /\ a \in query.there => /\ target[a] \in 0..This /\ target[a] \in Nat
                                   /\ target[a] # 0 /\ writes[target[a]].artifact = a
           /\ a \notin query.there /\ ~Mixed /\ query.step \notin {"result?", "transcript?"} =>
                  Value(a) = NoFiles[a]
<1>1. HoldsOn(query) /\ This \in Nat /\ (~Mixed => UpToDate(query))
  BY RecognizedHas
<1>2. /\ target[a] \in 0..This
      /\ target[a] # 0 => writes[target[a]].artifact = a
      /\ target[a] = 0 => Value(a) = NoFiles[a]
  BY RecordTypes, ValueTypes
<1>3. a \in query.there => target[a] # 0
  BY <1>1 DEF HoldsOn
<1>4. ASSUME a \notin query.there, ~Mixed, query.step \notin {"result?", "transcript?"}
      PROVE  target[a] = 0
  BY <1>1, <1>4 DEF UpToDate
<1> QED BY <1>1, <1>2, <1>3, <1>4

LEMMA OpenResultStep ==
    ASSUME CInv, RInv, AnswerFacts, Quiet, OpenResult
    PROVE  RInv'
<1> DEFINE q == [query EXCEPT !.step = "result opened", !.inode = target["result"]]
           without == [query EXCEPT !.step = "transcript"]
<1>1. /\ query.step = "result"
      /\ IF "result" \in query.there THEN query' = q ELSE query' = without
  BY DEF OpenResult, Turn
<1>2. /\ query.step \in Recognized /\ query.step \notin {"result?", "transcript?"}
      /\ "result opened" \in Recognized /\ "result opened" \in ReaderSteps
      /\ "transcript" \in Recognized /\ "transcript" \in ReaderSteps
  BY <1>1 DEF Recognized, ReaderSteps, Listed, MetadataRead, Judged
<1>3. HoldsOn(query) /\ QueryTyped /\ (~Mixed => UpToDate(query)) /\ query.result = "none"
  <2>1. HoldsOn(query) /\ QueryTyped /\ (~Mixed => UpToDate(query))
    BY <1>2, RecognizedHas
  <2> QED BY <1>1, <2>1 DEF HoldsOn
<1>4. ~Mixed => query.there = {a \in Immutable : target[a] # 0}
  BY <1>2, <1>3 DEF UpToDate
<1>5. CASE "result" \in query.there
  <2>1. /\ target["result"] \in 0..This /\ target["result"] \in Nat /\ target["result"] # 0
        /\ writes[target["result"]].artifact = "result"
    BY <1>2, <1>5, FoundIs, OpenedAre
  <2>2. query' = q
    BY <1>1, <1>5
  <2>3. /\ q \in QuerySet /\ q.step = "result opened" /\ q.inode = target["result"]
        /\ q.temporary = query.temporary /\ q.names = query.names /\ q.metadata = query.metadata
        /\ q.there = query.there /\ q.pair = query.pair
        /\ q.result = query.result /\ q.transcript = query.transcript
    BY <1>2, <1>3, <2>1 DEF QueryTyped, QuerySet
  <2> HIDE DEF q
  <2>4. \A a \in Artifacts : q.step = Opened[a] => a = "result"
    BY <2>3, OpenedAre
  <2>5. HoldsOn(q)
    BY <1>1, <1>2, <1>3, <2>1, <2>3, <2>4 DEF HoldsOn
  <2>6. q.step \notin {"transcript?", "transcript", "transcript opened", "decide"}
    BY <2>3
  <2> QED BY <1>2, <1>4, <2>2, <2>3, <2>4, <2>5, <2>6, RecognizedOn
<1>6. CASE "result" \notin query.there
  <2>1. ~Mixed => query.result = Value("result")
    BY <1>2, <1>3, <1>6, FoundIs, OpenedAre, NoFilesTypes
  <2>2. query' = without
    BY <1>1, <1>6
  <2>3. /\ without \in QuerySet /\ without.step = "transcript"
        /\ without.temporary = query.temporary /\ without.names = query.names
        /\ without.metadata = query.metadata /\ without.inode = query.inode
        /\ without.there = query.there /\ without.pair = query.pair
        /\ without.result = query.result /\ without.transcript = query.transcript
    BY <1>2, <1>3 DEF QueryTyped, QuerySet
  <2> HIDE DEF without
  <2>4. \A a \in Artifacts : without.step # Opened[a]
    BY <2>3, OpenedAre
  <2>5. HoldsOn(without)
    BY <1>1, <1>2, <1>3, <2>3, <2>4 DEF HoldsOn
  <2>6. without.step \notin {"transcript?", "decide"}
    BY <2>3
  <2> QED BY <1>2, <1>4, <2>1, <2>2, <2>3, <2>4, <2>5, <2>6, RecognizedOn
<1> QED BY <1>5, <1>6

\* A file of an artifact has the links that the reader expects of it as long as
\* nothing has changed.
LEMMA ReadableIs ==
    ASSUME CInv, RInv, AnswerFacts, NEW a \in Artifacts, query.step = Opened[a],
           query.step \in Recognized, ~Mixed
    PROVE  Readable(a)
<1>1. query.step \in Listed /\ UpToDate(query)
  BY RecognizedHas
<1>2. query.inode = target[a] /\ target[a] # 0
  BY <1>1, OpenedIs
<1>3. query.temporary = temps
  BY <1>1, SteadyFacts DEF Current
<1>4. Links(query.inode) = IF temps # {} /\ a = Name THEN 2 ELSE 1
  BY <1>1, <1>2, SteadyFacts
<1>5. IF temps = {} THEN query.pair = 0 ELSE query.pair \in temps
  BY <1>1, <1>3 DEF UpToDate
<1>6. CASE temps = {}
  BY <1>4, <1>5, <1>6 DEF Readable
<1>7. CASE temps # {}
  <2>1. temps = {This} /\ This > 0 /\ Holds(Name)
    BY <1>1, <1>7, SteadyFacts
  <2>2. query.pair = This /\ writes[query.pair].artifact = Name /\ target[Name] = This
    BY <1>5, <1>7, <2>1 DEF Holds, Name
  <2> QED BY <1>2, <1>4, <1>7, <2>2 DEF Readable
<1> QED BY <1>6, <1>7

LEMMA ReadResultStep ==
    ASSUME CInv, RInv, AnswerFacts, Quiet, ReadResult
    PROVE  RInv'
<1> DEFINE value == writes[query.inode].value
           q == [query EXCEPT !.step = "transcript", !.result = value]
<1>1. query.step = "result opened" /\ IfElseRefuse(Readable("result"), q)
  BY DEF ReadResult
<1>2. /\ query.step \in Recognized /\ query.step \notin {"result?", "transcript?"}
      /\ query.step = Opened["result"]
      /\ "transcript" \in Recognized /\ "transcript" \in ReaderSteps
  BY <1>1, OpenedAre DEF Recognized, ReaderSteps, Listed, MetadataRead, Judged
<1>3. /\ HoldsOn(query) /\ QueryTyped /\ Reading /\ (~Mixed => UpToDate(query))
      /\ query.step \in Listed
  BY <1>2, RecognizedHas
<1>4. value \in Results /\ (~Mixed => value = Value("result"))
  BY <1>2, <1>3, OpenedIs, OpenedAre, ContentTypes
<1>5. CASE ~Readable("result")
  <2>1. Mixed
    BY <1>2, <1>5, ReadableIs, OpenedAre
  <2> QED BY <1>1, <1>3, <1>5, <2>1, RefuseEnds DEF IfElseRefuse
<1>6. CASE Readable("result")
  <2>1. query' = q
    BY <1>1, <1>6 DEF IfElseRefuse
  <2> HIDE DEF value
  <2>2. /\ q \in QuerySet /\ q.step = "transcript" /\ q.result = value
        /\ q.temporary = query.temporary /\ q.names = query.names /\ q.metadata = query.metadata
        /\ q.there = query.there /\ q.pair = query.pair /\ q.inode = query.inode
        /\ q.transcript = query.transcript
    BY <1>2, <1>3, <1>4 DEF QueryTyped, QuerySet
  <2> HIDE DEF q
  <2>3. \A a \in Artifacts : q.step # Opened[a]
    BY <2>2, OpenedAre
  <2>4. HoldsOn(q)
    BY <1>1, <1>2, <1>3, <2>2, <2>3 DEF HoldsOn
  <2>5. ~Mixed => query.there = {a \in Immutable : target[a] # 0}
    BY <1>2, <1>3 DEF UpToDate
  <2>6. q.step \notin {"transcript?", "decide"}
    BY <2>2
  <2> QED BY <1>2, <1>4, <2>1, <2>2, <2>3, <2>4, <2>5, <2>6, RecognizedOn
<1> QED BY <1>5, <1>6

LEMMA OpenTranscriptStep ==
    ASSUME CInv, RInv, AnswerFacts, Quiet, OpenTranscript
    PROVE  RInv'
<1> DEFINE q == [query EXCEPT !.step = "transcript opened", !.inode = target["transcript"]]
           without == [query EXCEPT !.step = "decide"]
<1>1. /\ query.step = "transcript"
      /\ IF "transcript" \in query.there THEN query' = q ELSE query' = without
  BY DEF OpenTranscript, Turn
<1>2. /\ query.step \in Recognized /\ query.step \notin {"result?", "transcript?"}
      /\ "transcript opened" \in Recognized /\ "transcript opened" \in ReaderSteps
      /\ "decide" \in Recognized /\ "decide" \in ReaderSteps
  BY <1>1 DEF Recognized, ReaderSteps, Listed, MetadataRead, Judged
<1>3. HoldsOn(query) /\ QueryTyped /\ (~Mixed => UpToDate(query))
  BY <1>2, RecognizedHas
<1>4. query.transcript = FALSE
  <2>1. ~query.transcript
    BY <1>1, <1>3 DEF HoldsOn
  <2>2. query.transcript \in BOOLEAN
    BY <1>3 DEF QueryTyped, QuerySet
  <2> QED BY <2>1, <2>2
<1>5. ~Mixed => /\ query.there = {a \in Immutable : target[a] # 0}
                /\ query.result = Value("result")
  BY <1>1, <1>2, <1>3 DEF UpToDate
<1>6. CASE "transcript" \in query.there
  <2>1. /\ target["transcript"] \in 0..This /\ target["transcript"] \in Nat
        /\ target["transcript"] # 0 /\ writes[target["transcript"]].artifact = "transcript"
    BY <1>2, <1>6, FoundIs, OpenedAre
  <2>2. query' = q
    BY <1>1, <1>6
  <2>3. /\ q \in QuerySet /\ q.step = "transcript opened" /\ q.inode = target["transcript"]
        /\ q.temporary = query.temporary /\ q.names = query.names /\ q.metadata = query.metadata
        /\ q.there = query.there /\ q.pair = query.pair
        /\ q.result = query.result /\ q.transcript = query.transcript
    BY <1>2, <1>3, <2>1 DEF QueryTyped, QuerySet
  <2> HIDE DEF q
  <2>4. \A a \in Artifacts : q.step = Opened[a] => a = "transcript"
    BY <2>3, OpenedAre
  <2>5. HoldsOn(q)
    BY <1>1, <1>2, <1>3, <1>4, <2>1, <2>3, <2>4 DEF HoldsOn
  <2>6. q.step \notin {"transcript?", "decide"}
    BY <2>3
  <2> QED BY <1>2, <1>5, <2>2, <2>3, <2>4, <2>5, <2>6, RecognizedOn
<1>7. CASE "transcript" \notin query.there
  <2>1. ~Mixed => Value("transcript") = FALSE
    BY <1>2, <1>7, FoundIs, OpenedAre, NoFilesTypes
  <2>2. query' = without
    BY <1>1, <1>7
  <2>3. /\ without \in QuerySet /\ without.step = "decide"
        /\ without.temporary = query.temporary /\ without.names = query.names
        /\ without.metadata = query.metadata /\ without.inode = query.inode
        /\ without.there = query.there /\ without.pair = query.pair
        /\ without.result = query.result /\ without.transcript = FALSE
    BY <1>2, <1>3, <1>4 DEF QueryTyped, QuerySet
  <2> HIDE DEF without
  <2>4. \A a \in Artifacts : without.step # Opened[a]
    BY <2>3, OpenedAre
  <2>5. HoldsOn(without)
    BY <1>1, <1>2, <1>3, <2>3, <2>4 DEF HoldsOn
  <2>6. ~Mixed => without.transcript = Value("transcript")
    BY <2>1, <2>3
  <2>7. without.step # "transcript?"
    BY <2>3
  <2> QED BY <1>2, <1>5, <2>2, <2>3, <2>4, <2>5, <2>6, <2>7, RecognizedOn
<1> QED BY <1>6, <1>7

LEMMA ReadTranscriptStep ==
    ASSUME CInv, RInv, AnswerFacts, Quiet, ReadTranscript
    PROVE  RInv'
<1> DEFINE q == [query EXCEPT !.step = "decide", !.transcript = TRUE]
<1>1. query.step = "transcript opened" /\ IfElseRefuse(Readable("transcript"), q)
  BY DEF ReadTranscript
<1>2. /\ query.step \in Recognized /\ query.step \notin {"result?", "transcript?"}
      /\ query.step = Opened["transcript"]
      /\ "decide" \in Recognized /\ "decide" \in ReaderSteps
  BY <1>1, OpenedAre DEF Recognized, ReaderSteps, Listed, MetadataRead, Judged
<1>3. /\ HoldsOn(query) /\ QueryTyped /\ Reading /\ (~Mixed => UpToDate(query))
      /\ query.step \in Listed
  BY <1>2, RecognizedHas
<1>4. ASSUME ~Mixed PROVE Value("transcript") = TRUE
  <2>1. target["transcript"] # 0
    BY <1>2, <1>3, <1>4, OpenedIs, OpenedAre
  <2> QED BY <2>1, ValueTypes, RecordTypes, OpenedAre, ContentTypes
<1>5. CASE ~Readable("transcript")
  <2>1. Mixed
    BY <1>2, <1>5, ReadableIs, OpenedAre
  <2> QED BY <1>1, <1>3, <1>5, <2>1, RefuseEnds DEF IfElseRefuse
<1>6. CASE Readable("transcript")
  <2>1. query' = q
    BY <1>1, <1>6 DEF IfElseRefuse
  <2>2. /\ q \in QuerySet /\ q.step = "decide" /\ q.result = query.result
        /\ q.temporary = query.temporary /\ q.names = query.names /\ q.metadata = query.metadata
        /\ q.there = query.there /\ q.pair = query.pair /\ q.inode = query.inode
        /\ q.transcript = TRUE
    BY <1>2, <1>3 DEF QueryTyped, QuerySet
  <2> HIDE DEF q
  <2>3. \A a \in Artifacts : q.step # Opened[a]
    BY <2>2, OpenedAre
  <2>4. HoldsOn(q)
    BY <1>1, <1>2, <1>3, <2>2, <2>3 DEF HoldsOn
  <2>5. ~Mixed => /\ query.there = {a \in Immutable : target[a] # 0}
                  /\ query.result = Value("result")
    BY <1>1, <1>2, <1>3 DEF UpToDate
  <2>6. ~Mixed => q.transcript = Value("transcript")
    BY <1>4, <2>2
  <2>7. q.step # "transcript?"
    BY <2>2
  <2> QED BY <1>2, <2>1, <2>2, <2>3, <2>4, <2>5, <2>6, <2>7, RecognizedOn
<1> QED BY <1>5, <1>6

LEMMA DecideStep ==
    ASSUME CInv, RInv, AnswerFacts, Quiet, Decide
    PROVE  RInv'
<1> DEFINE p == IF query.pair = 0 THEN NoPrefix ELSE writes[query.pair].artifact
           condition == ArtifactsAgree(query.metadata, query.result, query.transcript, st, log)
<1>1. query.step = "decide" /\ (IF condition THEN Accept(p) ELSE Refuse)
  BY DEF Decide
<1>2. query.step \in Recognized
  BY <1>1 DEF Recognized
<1>3. /\ RestsOn(query) /\ Reading /\ (~Mixed => UpToDate(query))
      /\ query.step \in MetadataRead /\ query.step \in Listed
  BY <1>2, RecognizedHas
<1>4. CASE condition
  <2>1. p \in answers
    BY <1>2, <1>3 DEF RestsOn
  <2> QED BY <1>1, <1>3, <1>4, <2>1, AcceptEnds
<1>5. CASE ~condition
  <2>1. ASSUME ~Mixed PROVE condition
    <3>1. /\ query.metadata = Value("metadata") /\ query.result = Value("result")
          /\ query.transcript = Value("transcript")
      BY <1>1, <1>3, <2>1 DEF UpToDate
    <3>2. target["metadata"] # 0
      BY <1>3, HasListed
    <3> QED BY <3>1, <3>2, AlwaysAgree
  <2> QED BY <1>1, <1>3, <1>5, <2>1, RefuseEnds
<1> QED BY <1>4, <1>5

\* Nothing that the reader knows has changed when nothing has.
LEMMA NothingNew ==
    ASSUME CInv, RInv, UNCHANGED readerVars
    PROVE  RInv'
<1>1. /\ UNCHANGED <<level, target, temps, writes, pc, log, st>>
      /\ UNCHANGED <<query, answers>> /\ This' = This
  BY DEF readerVars, vars, pair, This
<1>2. /\ \A a \in Artifacts : Value(a)' = Value(a)
      /\ Agreeing' = Agreeing /\ (Active' <=> Active)
  BY <1>1, SamePair DEF Value
<1>3. Answer' = Answer
  BY <1>1 DEF Answer, View, Value, RecordsAccepted, MetadataAgrees, LifecycleValid,
     TemporaryNamesAccepted, ArtifactsAgree, ProbeActive, Positions
<1>4. QueryTyped' /\ QueryFits'
  BY <1>1 DEF RInv, QueryTyped, QueryFits
<1>5. AcceptanceRests'
  <2>1. Value("metadata")' = Value("metadata")
    BY <1>2, OpenedAre
  <2>2. Seen' = Seen
    BY <1>1, <2>1 DEF Seen
  <2> QED BY <1>1, <1>2, <2>1, <2>2 DEF RInv, AcceptanceRests, AcceptanceWasTrue, Answered
<1>6. Current' <=> Current
  <2>1. /\ Value("metadata")' = Value("metadata") /\ Value("result")' = Value("result")
        /\ Value("transcript")' = Value("transcript")
    BY <1>2, OpenedAre
  <2>2. /\ {a \in Artifacts : target[a] # 0}' = {a \in Artifacts : target[a] # 0}
        /\ {a \in {"result"} : target[a] # 0}' = {a \in {"result"} : target[a] # 0}
        /\ {a \in Immutable : target[a] # 0}' = {a \in Immutable : target[a] # 0}
    BY <1>1
  <2> QED BY <1>1, <2>1, <2>2 DEF Current
<1>7. SteadyRests'
  BY <1>1, <1>3, <1>6 DEF RInv, SteadyRests, Reading, Answered, Mixed
<1> QED BY <1>4, <1>5, <1>7 DEF RInv

\* No query is under way before the first one and after each one.
NoQueryYet == QueryTyped /\ query = NoQuery /\ answers = {} /\ This \in Nat

LEMMA NoQueryRests == NoQueryYet => RInv
<1> SUFFICES ASSUME NoQueryYet PROVE RInv
  OBVIOUS
<1>1. /\ query.step = "idle" /\ query.inode = 0 /\ query.pair = 0 /\ query.temporary = {}
      /\ query.there = {} /\ query.result = "none" /\ ~query.transcript
  BY DEF NoQueryYet, NoQuery
<1>2. query.step \notin Listed /\ query.step \notin Judged /\ query.step \notin Recognized
  BY <1>1 DEF Listed, MetadataRead, Judged, Recognized
<1>3. \A a \in Artifacts : query.step # Opened[a]
  BY <1>1, OpenedAre
<1>4. QueryFits
  BY <1>1, <1>2, <1>3 DEF QueryFits, NoQueryYet
<1>5. AcceptanceRests /\ SteadyRests
  BY <1>1, <1>2
     DEF AcceptanceRests, AcceptanceWasTrue, Answered, SteadyRests, Reading, NoQueryYet
<1> QED BY <1>4, <1>5 DEF RInv, NoQueryYet

LEMMA LeaveStep ==
    ASSUME CInv, Quiet, Leave
    PROVE  RInv'
<1>1. query' = NoQuery /\ answers' = {}
  BY DEF Leave, Quiet, Remember, NoQuery
<1>2. This' \in Nat
  BY RecordTypes DEF Quiet, vars, This
<1>3. NoQueryYet'
  BY <1>1, <1>2, NoQueryTyped DEF NoQueryYet, QueryTyped
<1> QED BY <1>3, NoQueryRests, PTL

LEMMA AppendStep ==
    ASSUME CInv, RInv, AppendEvent, Remember
    PROVE  RInv'
<1>1. query.step = "idle" /\ query' = query /\ answers' = {} /\ UNCHANGED vars
  BY DEF AppendEvent, Remember
<1>2. UNCHANGED <<level, target, temps, writes, pc>> /\ This' = This
  BY <1>1 DEF vars, This
<1>3. query'.step \notin Listed /\ query'.step \notin Judged /\ query'.step \notin Recognized
  BY <1>1 DEF Listed, MetadataRead, Judged, Recognized
<1>4. QueryTyped' /\ QueryFits'
  BY <1>1, <1>2 DEF RInv, QueryTyped, QueryFits
<1>5. AcceptanceRests' /\ SteadyRests'
  BY <1>1, <1>3 DEF AcceptanceRests, AcceptanceWasTrue, Answered, SteadyRests, Reading
<1> QED BY <1>4, <1>5 DEF RInv

LEMMA AskStep ==
    ASSUME CInv, RInv, AnswerFacts, Quiet, Ask
    PROVE  RInv'
<1> DEFINE q == [NoQuery EXCEPT !.step = "base", !.pass = 1]
<1>1. query.step = "idle" /\ query' = q
  BY DEF Ask
<1>2. /\ q.step = "base" /\ q.temporary = {} /\ q.inode = 0 /\ q.pair = 0
      /\ q.result = "none" /\ ~q.transcript /\ q.there = {}
  BY DEF NoQuery
<1>3. QueryTyped'
  <2>1. 1 \in 0..2
    OBVIOUS
  <2> QED BY <1>1, <2>1, NoQueryTyped DEF QueryTyped
<1> HIDE DEF q
<1>4. answers' = answers \cup {Answer'} /\ Answer' \in Answers /\ This' \in Nat
  BY <1>1, <1>2, QuietFacts, RecordTypes DEF Quiet, Remember, AnswerFacts
<1>5. query'.step \notin Listed /\ query'.step \notin Judged /\ query'.step \notin Recognized
  BY <1>1, <1>2 DEF Listed, MetadataRead, Judged, Recognized
<1>6. \A a \in Artifacts : query'.step # Opened[a]
  BY <1>1, <1>2, OpenedAre
<1>7. QueryFits'
  BY <1>1, <1>2, <1>4, <1>5, <1>6 DEF QueryFits
<1>8. AcceptanceRests' /\ Current'
  <2>1. query'.step \notin {"idle", "answered"} /\ query'.step \notin MetadataRead
    BY <1>1, <1>2 DEF MetadataRead, Judged, Recognized
  <2> QED BY <1>1, <1>2, <1>5, <1>6, <2>1
          DEF AcceptanceRests, AcceptanceWasTrue, Answered, Current
<1>9. SteadyRests'
  BY <1>1, <1>2, <1>4, <1>8 DEF SteadyRests, Answered, RInv
<1> QED BY <1>3, <1>7, <1>8, <1>9 DEF RInv

LEMMA QueryStays ==
    ASSUME CInv, AnswerFacts, AnswerFacts', RInv, [ReaderNext]_readerVars
    PROVE  RInv'
<1>1. CASE WriteRecord /\ Remember
  BY <1>1, WriteWatched
<1>2. CASE AppendEvent /\ Remember
  BY <1>2, AppendStep
<1>3. CASE Quiet /\ Ask
  BY <1>3, AskStep
<1>4. CASE Quiet /\ Leave
  BY <1>4, LeaveStep
<1>5. CASE Quiet /\ Look
  BY <1>5, OpenBaseStep, ListBaseStep, ListNamesStep, OpenMetadataStep, ReadMetadataStep,
     OpenPromptStep, ReadPromptStep, RecognizePrefixStep, StatTargetStep, StatTemporaryStep,
     LookForResultStep, LookForTranscriptStep, OpenResultStep, ReadResultStep,
     OpenTranscriptStep, ReadTranscriptStep, DecideStep
     DEF Look
<1>6. CASE UNCHANGED readerVars
  BY <1>6, NothingNew
<1> QED BY <1>1, <1>2, <1>3, <1>4, <1>5, <1>6 DEF ReaderNext, Quiet

LEMMA QueryBegins == ReaderInit => RInv
<1> SUFFICES ASSUME ReaderInit PROVE RInv
  OBVIOUS
<1>1. This \in Nat
  BY DEF ReaderInit, Init, This
<1>2. NoQueryYet
  BY <1>1, NoQueryTyped DEF ReaderInit, NoQueryYet, QueryTyped
<1> QED BY <1>2, NoQueryRests

-----------------------------------------------------------------------------
(* What is proved of the reader *)

LEMMA ReaderInvariant == ReaderSpec => [](CInv /\ RInv)
<1>1. ReaderInit => CInv
  BY ReaderBegins
<1>2. CInv /\ [ReaderNext]_readerVars => CInv'
  BY RecordStays
<1>3. CInv /\ AnswerFacts /\ AnswerFacts' /\ RInv /\ [ReaderNext]_readerVars => RInv'
  BY QueryStays
<1> QED BY <1>1, <1>2, <1>3, RecordsTell, QueryBegins, PTL DEF ReaderSpec

\* The controller that the reader watches is one of those that ArtifactWrite
\* describes, so that what is proved of them is true of it: nothing that
\* _atomic_write has reported is lost, and its errors are true.
THEOREM ReaderWatchesWrites == ReaderSpec => Spec
<1>1. ReaderInit => Init
  BY DEF ReaderInit
<1>2. CInv /\ [ReaderNext]_readerVars => [Next]_vars
  <2> SUFFICES ASSUME CInv, [ReaderNext]_readerVars PROVE [Next]_vars
    OBVIOUS
  <2>1. CASE WriteRecord
    BY <2>1, WriteSteps
  <2>2. CASE AppendEvent
    BY <2>2 DEF AppendEvent
  <2> QED BY <2>1, <2>2 DEF ReaderNext, readerVars
<1> QED BY <1>1, <1>2, ReaderInvariant, PTL DEF Spec, ReaderSpec

\* The local variables of the reader have their types, and what it holds on to
\* are inodes that exist.
THEOREM ReaderTyping == ReaderSpec => []ReaderTypeOK
<1>1. CInv /\ RInv => ReaderTypeOK
  <2> SUFFICES ASSUME CInv, RInv PROVE ReaderTypeOK
    OBVIOUS
  <2>1. DOMAIN writes = 1..This /\ This \in Nat
    BY RecordTypes DEF Typed, This
  <2>2. /\ course \in DOMAIN Courses /\ done \in 0..Len(Courses[course])
        /\ log \in Seq(Events) /\ st \in States
    BY DEF CInv, OnCourse, PairTells
  <2>3. /\ query.pass \in 0..2 /\ query.names \subseteq Artifacts
        /\ query.metadata \in Metadata /\ query.result \in {"none"} \cup Results
        /\ query.transcript \in BOOLEAN
        /\ query.verdict \in {"none", Refused, NoPrefix} \cup Immutable
    BY DEF RInv, QueryTyped, QuerySet, Answers
  <2>4. query.temporary \subseteq 1..This
    BY DEF RInv, QueryFits
  <2>5. query.inode \in {0} \cup 1..This /\ query.pair \in {0} \cup 1..This
    <3>1. query.inode \in 0..This /\ query.pair \in 0..This
      BY DEF RInv, QueryFits
    <3> QED BY <2>1, <3>1
  <2>6. answers \subseteq {Refused, NoPrefix} \cup Immutable
    BY DEF RInv, SteadyRests, Answers
  <2> QED BY <2>1, <2>2, <2>3, <2>4, <2>5, <2>6 DEF ReaderTypeOK
<1> QED BY <1>1, ReaderInvariant, PTL

\* validate_invocation_records accepts only what has been acceptable, with the
\* prefix that it reports, at one moment of the query at least, whatever the
\* controller wrote, linked and removed between its system calls.
THEOREM AcceptancesAreTrue == ReaderSpec => []AcceptanceWasTrue
<1>1. RInv => AcceptanceWasTrue
  BY DEF RInv, AcceptanceRests
<1> QED BY <1>1, ReaderInvariant, PTL

\* When one answer has been the right one all through the query, that is what
\* validate_invocation_records answers: it refuses nothing that was acceptable
\* throughout, and reports no prefix but the one that was there.
THEOREM SteadyAnswersAreGiven == ReaderSpec => []SteadyAnswerIsGiven
<1>1. RInv => SteadyAnswerIsGiven
  <2> SUFFICES ASSUME RInv, Answered, NEW a \in answers, answers = {a}
               PROVE  query.verdict = a
    BY DEF SteadyAnswerIsGiven
  <2>1. ~Mixed \/ a = Refused
    BY DEF Mixed
  <2>2. CASE query.verdict = Refused
    BY <2>1, <2>2 DEF RInv, SteadyRests
  <2>3. CASE query.verdict # Refused
    BY <2>3 DEF RInv, AcceptanceRests, AcceptanceWasTrue
  <2> QED BY <2>2, <2>3
<1> QED BY <1>1, ReaderInvariant, PTL
=============================================================================
