---------------------------- MODULE Build_proofs ----------------------------
(***************************************************************************)
(* A build implements OutputDir, whatever the sources are, whenever they   *)
(* are edited and however often it is killed, and what a command says it   *)
(* has written is of one version.                                          *)
(***************************************************************************)
EXTENDS Build, SequenceLemmas

Complete == phase = "idle" /\ result = "ok" /\ command # "typecheck"

(* A file is gathered once, and a single file with nothing but the library.*)
OnceEach(s) == \A i, j \in 1..Len(s) : s[i] = s[j] => i = j
GatheredOnce ==
  /\ OnceEach(files)
  /\ command = "typed" =>
       phase # "gather" /\ \A i \in 1..Len(files) : files[i] \in Library \cup {target}

(* The loop has read the files before its index; what is written was read  *)
(* in full and accepted.                                                   *)
ReadInOrder ==
  /\ phase = "gather" => k = 1 /\ DOMAIN src = {}
  /\ phase = "read" => DOMAIN src = {files[i] : i \in 1..k-1}
Checked ==
  phase = "write" \/ Complete => DOMAIN src = {files[i] : i \in 1..Len(files)} /\ O!Fits(src)
ReadFromDisk == edited \/ \A m \in DOMAIN src : src[m] = disk[m]

(* The loop has written the files before its index, and at the end all.    *)
Wrote(i) == IsEmitted(files[i]) => out[files[i]] = O!Entry(src, files[i])
WrittenInOrder ==
  /\ phase = "write" => \A i \in 1..k-1 : Wrote(i)
  /\ Complete => \A i \in 1..Len(files) : Wrote(i)

Inv == TypeOK /\ GatheredOnce /\ ReadInOrder /\ Checked /\ ReadFromDisk /\ WrittenInOrder
-----------------------------------------------------------------------------
LEMMA ListedOnce ==
  ASSUME NEW S \in SUBSET Modules, NEW s \in SetToSeqs(S)
  PROVE  s \in Seq(S) /\ s \in Seq(Modules) /\ OnceEach(s)
<1>1. Cardinality(S) \in Nat
  BY KindsAssumption, FS_Subset, FS_CardinalityType
<1>2. s \in [1..Cardinality(S) -> S] /\ \A i, j \in 1..Cardinality(S) : i # j => s[i] # s[j]
  BY DEF SetToSeqs
<1> QED
  BY <1>1, <1>2 DEF OnceEach

LEMMA Joined ==
  ASSUME NEW s \in Seq(Modules), NEW t \in Seq(Modules), OnceEach(s), OnceEach(t),
         \A i \in 1..Len(s), j \in 1..Len(t) : s[i] # t[j]
  PROVE  s \o t \in Seq(Modules) /\ OnceEach(s \o t)
BY DEF OnceEach

LEMMA QueuedFile ==
  ASSUME TypeOK, queue # <<>>
  PROVE  Last(queue) \in Modules /\ Front(queue) \in Seq(Modules)
BY DEF TypeOK, Last, Front

(* What Follow finds is of Modules, and none of it was gathered before.    *)
LEMMA WantedFiles ==
  ASSUME TypeOK, NEW m \in Modules, Exists(m)
  PROVE  Wanted(m) \in SUBSET Modules /\ \A i \in 1..Len(files) : files[i] \notin Wanted(m)
<1>1. disk[m] \in Texts
  BY DEF TypeOK, Exists
<1>2. ToSet(files) = {files[i] : i \in 1..Len(files)}
  BY DEF ToSet, TypeOK
<1> QED
  BY <1>1, <1>2, TextsAssumption DEF Wanted

LEMMA CurrentFile == TypeOK /\ More => Current \in Modules /\ k \in 1..Len(files)
BY DEF TypeOK, More, Current

LEMMA ListedFiles ==
  ASSUME NEW kind \in SUBSET Modules, NEW s \in Listed(kind)
  PROVE  s \in Seq(Modules) /\ OnceEach(s) /\ \A i \in 1..Len(s) : s[i] \in kind
<1> DEFINE S == {m \in kind : Exists(m)}
<1>1. S \in SUBSET Modules /\ s \in SetToSeqs(S)
  BY DEF Listed
<1>2. s \in Seq(S) /\ s \in Seq(Modules) /\ OnceEach(s)
  BY <1>1, ListedOnce
<1> QED
  BY <1>2

(* The files a command starts with.                                        *)
LEMMA StartFiles ==
  ASSUME Start
  PROVE  /\ files' \in Seq(Modules) /\ queue' \in Seq(Modules) /\ OnceEach(files')
         /\ target' \in Modules \cup {None}
         /\ command' = "typed" => \A i \in 1..Len(files') : files'[i] \in Library \cup {target'}
<1> USE KindsAssumption
<1>1. PICK lib \in Listed(Library), own \in Listed(Project) :
        IF command' = "typed"
          THEN target' \in Project /\ files' = Append(lib, target') /\ queue' = <<>>
          ELSE target' = None /\ files' = lib \o own /\ queue' = files'
  BY DEF Start
<1>2. lib \in Seq(Modules) /\ OnceEach(lib) /\ \A i \in 1..Len(lib) : lib[i] \in Library
  BY <1>1, ListedFiles
<1>3. own \in Seq(Modules) /\ OnceEach(own) /\ \A i \in 1..Len(own) : own[i] \in Project
  BY <1>1, ListedFiles
<1>4. CASE command' = "typed"
  BY <1>1, <1>2, <1>4 DEF OnceEach
<1>5. CASE command' # "typed"
  <2>1. lib \o own \in Seq(Modules) /\ OnceEach(lib \o own)
    BY <1>2, <1>3, Joined
  <2> QED
    BY <1>1, <1>5, <2>1
<1> QED
  BY <1>4, <1>5

-----------------------------------------------------------------------------
LEMMA InitType == Init => TypeOK
BY DEF Init, TypeOK

LEMMA StepType == TypeOK /\ [Next]_vars => TypeOK'
<1> SUFFICES ASSUME TypeOK, [Next]_vars PROVE TypeOK'
  OBVIOUS
<1> USE DEF TypeOK, user, gathering, call, Ends
<1>1. CASE Start
  <2>1. phase' \in {"gather", "read"} /\ k' = 1 /\ src' = [m \in {} |-> None]
    BY <1>1 DEF Start
  <2>2. src' \in [DOMAIN src' -> Texts] /\ DOMAIN src' \subseteq Modules
    BY <2>1
  <2>3. disk' = disk /\ out' = out /\ command' \in {"build", "typecheck", "typed"}
    BY <1>1 DEF Start
  <2>4. files' \in Seq(Modules) /\ queue' \in Seq(Modules) /\ target' \in Modules \cup {None}
    BY <1>1, StartFiles
  <2> QED
    BY <2>1, <2>2, <2>3, <2>4
<1>2. CASE Follow
  <2> DEFINE m == Last(queue)
  <2>1. m \in Modules /\ Front(queue) \in Seq(Modules) /\ Exists(m)
    BY <1>2, QueuedFile DEF Follow, Queued
  <2>2. PICK new \in SetToSeqs(Wanted(m)) : files' = files \o new /\ queue' = Front(queue) \o new
    BY <1>2 DEF Follow
  <2>3. new \in Seq(Modules)
    BY <2>1, <2>2, WantedFiles, ListedOnce
  <2> QED
    BY <1>2, <2>1, <2>2, <2>3 DEF Follow
<1>3. CASE GatherPanic
  BY <1>3 DEF GatherPanic
<1>4. CASE EndGather
  BY <1>4 DEF EndGather
<1>5. CASE Read
  <2>1. Current \in Modules /\ k + 1 \in 1..Len(files)+1 /\ disk[Current] \in Texts
    BY <1>5, CurrentFile DEF Read, Exists
  <2> QED
    BY <1>5, <2>1 DEF Read
<1>6. CASE ReadPanic
  BY <1>6 DEF ReadPanic
<1>7. CASE Analyze
  BY <1>7 DEF Analyze
<1>8. CASE Reject
  BY <1>8 DEF Reject
<1>9. CASE Skip
  BY <1>9, CurrentFile DEF Skip
<1>10. CASE WriteModule
  BY <1>10, CurrentFile DEF WriteModule, Emits
<1>11. CASE EmitPanic
  BY <1>11 DEF EmitPanic
<1>12. CASE Finish
  BY <1>12 DEF Finish
<1>13. CASE Kill
  BY <1>13 DEF Kill
<1>14. CASE Edit
  BY <1>14, TextsAssumption DEF Edit
<1>15. CASE Idle \/ UNCHANGED vars
  BY <1>15 DEF Idle, vars
<1> QED
  BY <1>1, <1>2, <1>3, <1>4, <1>5, <1>6, <1>7, <1>8, <1>9, <1>10, <1>11, <1>12, <1>13, <1>14, <1>15
     DEF Next, Running

(* Every local keeps the range main.rs gives it, whatever is edited.       *)
THEOREM TypeCorrect == Spec => []TypeOK
<1>1. Init => TypeOK
  BY InitType
<1>2. TypeOK /\ [Next]_vars => TypeOK'
  BY StepType
<1> QED
  BY <1>1, <1>2, PTL DEF Spec

-----------------------------------------------------------------------------
(* What changes neither the files nor the sources nor the output, and does *)
(* not begin to gather, read or write.                                     *)
Quiet ==
  /\ UNCHANGED <<files, src, out, k, command, target>>
  /\ \/ UNCHANGED <<disk, edited, phase, result>>
     \/ UNCHANGED <<disk, edited>> /\ phase' = "idle" /\ result' # "ok"
     \/ UNCHANGED <<phase, result>> /\ edited' = TRUE

LEMMA QuietSteps ==
  ASSUME GatherPanic \/ ReadPanic \/ Reject \/ EmitPanic \/ Edit \/ Idle \/ UNCHANGED vars
  PROVE  Quiet
BY DEF GatherPanic, ReadPanic, Reject, EmitPanic, Edit, Idle, vars, Quiet,
       Ends, user, gathering, call

LEMMA StepGathered == TypeOK /\ GatheredOnce /\ [Next]_vars => GatheredOnce'
<1> SUFFICES ASSUME TypeOK, GatheredOnce, [Next]_vars PROVE GatheredOnce'
  OBVIOUS
<1> USE DEF GatheredOnce, gathering, call, Ends
<1>1. CASE Start
  <2>1. command' = "typed" => phase' = "read"
    BY <1>1 DEF Start
  <2> QED
    BY <1>1, <2>1, StartFiles
<1>2. CASE Follow
  <2> DEFINE m == Last(queue)
  <2>1. m \in Modules /\ Exists(m)
    BY <1>2, QueuedFile DEF Follow, Queued
  <2>2. PICK new \in SetToSeqs(Wanted(m)) : files' = files \o new
    BY <1>2 DEF Follow
  <2>3. Wanted(m) \in SUBSET Modules /\ \A i \in 1..Len(files) : files[i] \notin Wanted(m)
    BY <2>1, WantedFiles
  <2>4. new \in Seq(Wanted(m)) /\ new \in Seq(Modules) /\ OnceEach(new)
    BY <2>2, <2>3, ListedOnce
  <2>5. \A i \in 1..Len(files), j \in 1..Len(new) : files[i] # new[j]
    BY <2>3, <2>4
  <2>6. OnceEach(files \o new)
    BY <2>4, <2>5, Joined DEF TypeOK
  <2> QED
    BY <1>2, <2>2, <2>6 DEF Follow, Queued
<1>3. CASE Quiet
  BY <1>3 DEF Quiet, OnceEach
<1>4. CASE EndGather
  BY <1>4 DEF EndGather, OnceEach
<1>5. CASE Read
  BY <1>5 DEF Read, OnceEach
<1>6. CASE Analyze
  BY <1>6 DEF Analyze, OnceEach
<1>7. CASE Skip \/ WriteModule \/ Finish
  BY <1>7 DEF Skip, WriteModule, Finish, OnceEach
<1>8. CASE Kill
  BY <1>8 DEF Kill, OnceEach
<1> QED
  BY <1>1, <1>2, <1>3, <1>4, <1>5, <1>6, <1>7, <1>8, QuietSteps DEF Next, Running

LEMMA StepRead == TypeOK /\ ReadInOrder /\ [Next]_vars => ReadInOrder'
<1> SUFFICES ASSUME TypeOK, ReadInOrder, [Next]_vars PROVE ReadInOrder'
  OBVIOUS
<1> USE DEF ReadInOrder, gathering, Ends
<1>1. CASE Start
  BY <1>1 DEF Start
<1>2. CASE Follow
  BY <1>2 DEF Follow, Queued
<1>3. CASE Quiet
  BY <1>3 DEF Quiet
<1>4. CASE EndGather
  BY <1>4 DEF EndGather
<1>5. CASE Read
  <2>1. DOMAIN src' = DOMAIN src \cup {files[k]} /\ k' = k + 1 /\ phase' = "read" /\ files' = files
    BY <1>5 DEF Read, Current
  <2>2. DOMAIN src = {files[i] : i \in 1..k-1} /\ k \in Nat \ {0}
    BY <1>5 DEF Read, TypeOK
  <2>3. {files[i] : i \in 1..k} = {files[i] : i \in 1..k-1} \cup {files[k]}
    BY <2>2
  <2> QED
    BY <2>1, <2>2, <2>3
<1>6. CASE Analyze
  BY <1>6 DEF Analyze
<1>7. CASE Skip \/ WriteModule \/ Finish
  BY <1>7 DEF Skip, WriteModule, Emits, Writing, Finish
<1>8. CASE Kill
  BY <1>8 DEF Kill
<1> QED
  BY <1>1, <1>2, <1>3, <1>4, <1>5, <1>6, <1>7, <1>8, QuietSteps DEF Next, Running

LEMMA StepFromDisk == TypeOK /\ ReadFromDisk /\ [Next]_vars => ReadFromDisk'
<1> SUFFICES ASSUME TypeOK, ReadFromDisk, [Next]_vars PROVE ReadFromDisk'
  OBVIOUS
<1> USE DEF ReadFromDisk, user
<1>1. CASE Start
  BY <1>1 DEF Start
<1>2. CASE Follow \/ EndGather
  BY <1>2 DEF Follow, EndGather
<1>3. CASE Quiet
  BY <1>3 DEF Quiet
<1>4. CASE Read
  BY <1>4 DEF Read
<1>5. CASE Analyze
  BY <1>5 DEF Analyze
<1>6. CASE Skip \/ WriteModule \/ Finish
  BY <1>6 DEF Skip, WriteModule, Finish
<1>7. CASE Kill
  BY <1>7 DEF Kill
<1> QED
  BY <1>1, <1>2, <1>3, <1>4, <1>5, <1>6, <1>7, QuietSteps DEF Next, Running

-----------------------------------------------------------------------------
(* Where the sort found an order there is no ring: of the modules of a     *)
(* ring the first in the order would import one before it.                 *)
LEMMA SortedHasNoRing ==
  ASSUME NEW s, Sorted(s), NEW S \in SUBSET DOMAIN s, S # {}
  PROVE  \E m \in S : s[m].imports \cap S = {}
<1>1. PICK rank \in [DOMAIN s -> 1..Cardinality(DOMAIN s)] :
        \A m \in DOMAIN s : \A d \in s[m].imports \cap DOMAIN s : rank[d] < rank[m]
  BY DEF Sorted
<1> DEFINE T == {n \in Nat : \E m \in S : rank[m] = n}
<1>2. T \subseteq Nat /\ T # {}
  <2>1. \A m \in S : rank[m] \in Nat
    BY <1>1
  <2> QED
    BY <2>1
<1>3. PICK n \in T : \A l \in T : n <= l
  <2> HIDE DEF T
  <2> QED
    BY <1>2, LeastIndex
<1>4. \A l \in T : ~(l < n)
  BY <1>3
<1>5. PICK m \in S : rank[m] = n
  OBVIOUS
<1>6. ASSUME NEW d \in s[m].imports \cap S
      PROVE  FALSE
  <2>1. rank[d] < rank[m] /\ rank[d] \in Nat
    BY <1>1, <1>6
  <2>2. rank[d] \in T
    BY <1>6, <2>1
  <2> QED
    BY <1>4, <1>5, <2>1, <2>2
<1> QED
  BY <1>6

LEMMA AcceptedFits ==
  ASSUME NEW s, Accepted(s)
  PROVE  O!Fits(s)
<1>1. Typed(s) /\ Sorted(s) /\ Resolved(s)
  BY DEF Accepted
<1>2. \A S \in SUBSET DOMAIN s : S # {} => \E m \in S : s[m].imports \cap S = {}
  BY <1>1, SortedHasNoRing
<1> QED
  BY <1>1, <1>2 DEF O!Fits, Typed, Resolved

LEMMA StepChecked == TypeOK /\ ReadInOrder /\ Checked /\ [Next]_vars => Checked'
<1> SUFFICES ASSUME TypeOK, ReadInOrder, Checked, [Next]_vars PROVE Checked'
  OBVIOUS
<1> USE DEF Checked, Complete, gathering, call, Ends
<1>1. CASE Start
  BY <1>1 DEF Start
<1>2. CASE Follow \/ EndGather \/ Read
  BY <1>2 DEF Follow, Queued, EndGather, Read
<1>3. CASE Quiet
  BY <1>3 DEF Quiet
<1>4. CASE Analyze
  <2>1. DOMAIN src = {files[i] : i \in 1..k-1} /\ k = Len(files) + 1
    BY <1>4 DEF Analyze, More, ReadInOrder, TypeOK
  <2>2. DOMAIN src = {files[i] : i \in 1..Len(files)} /\ O!Fits(src)
    BY <1>4, <2>1, AcceptedFits DEF Analyze, TypeOK
  <2>3. UNCHANGED <<files, src, command>>
    BY <1>4 DEF Analyze
  <2> QED
    BY <2>2, <2>3
<1>5. CASE Skip \/ WriteModule
  BY <1>5 DEF Skip, WriteModule, Emits, Writing
<1>6. CASE Finish
  BY <1>6 DEF Finish, Writing
<1>7. CASE Kill
  BY <1>7 DEF Kill
<1> QED
  BY <1>1, <1>2, <1>3, <1>4, <1>5, <1>6, <1>7, QuietSteps DEF Next, Running

LEMMA StepWritten ==
  TypeOK /\ GatheredOnce /\ WrittenInOrder /\ [Next]_vars => WrittenInOrder'
<1> SUFFICES ASSUME TypeOK, GatheredOnce, WrittenInOrder, [Next]_vars PROVE WrittenInOrder'
  OBVIOUS
<1> USE DEF WrittenInOrder, Wrote, IsEmitted, Complete, gathering, call, Ends
<1>1. CASE Start
  BY <1>1 DEF Start
<1>2. CASE Follow \/ EndGather \/ Read
  BY <1>2 DEF Follow, Queued, EndGather, Read
<1>3. CASE Quiet
  BY <1>3 DEF Quiet
<1>4. CASE Analyze
  BY <1>4 DEF Analyze
<1>5. CASE Skip
  <2>1. k \in Nat \ {0} /\ k' = k + 1 /\ phase = "write" /\ phase' = "write"
    BY <1>5 DEF Skip, Writing, TypeOK
  <2>2. UNCHANGED <<files, src, out, command, target>> /\ ~IsEmitted(files[k])
    BY <1>5 DEF Skip, Current
  <2>3. \A i \in 1..k : Wrote(i)
    BY <2>1, <2>2
  <2> QED
    BY <2>1, <2>2, <2>3
<1>6. CASE WriteModule
  <2>1. k \in 1..Len(files) /\ k' = k + 1 /\ phase = "write" /\ phase' = "write"
    BY <1>6, CurrentFile DEF WriteModule, Emits, Writing
  <2>2. UNCHANGED <<files, src, command, target>>
        /\ out' = [out EXCEPT ![files[k]] = O!Entry(src, files[k])]
    BY <1>6 DEF WriteModule, Current
  <2>3. \A i \in 1..Len(files) : files[i] \in DOMAIN out
    BY DEF TypeOK
  <2>4. out'[files[k]] = O!Entry(src, files[k])
    BY <2>1, <2>2, <2>3
  <2>5. \A i \in 1..k-1 : files[i] # files[k] /\ out'[files[i]] = out[files[i]]
    BY <2>1, <2>2, <2>3 DEF GatheredOnce, OnceEach
  <2>6. \A i \in 1..k : IsEmitted(files[i]) => out'[files[i]] = O!Entry(src, files[i])
    BY <2>1, <2>4, <2>5
  <2> QED
    BY <2>1, <2>2, <2>6 DEF O!Entry
<1>7. CASE Finish
  BY <1>7 DEF Finish, Writing, More, TypeOK
<1>8. CASE Kill
  BY <1>8 DEF Kill
<1> QED
  BY <1>1, <1>2, <1>3, <1>4, <1>5, <1>6, <1>7, <1>8, QuietSteps DEF Next, Running

LEMMA Invariance == Spec => []Inv
<1>1. Init => Inv
  BY InitType DEF Init, Inv, GatheredOnce, OnceEach, ReadInOrder, Checked, ReadFromDisk,
                  WrittenInOrder, Complete
<1>2. Inv /\ [Next]_vars => Inv'
  BY StepType, StepGathered, StepRead, StepChecked, StepFromDisk, StepWritten DEF Inv
<1> QED
  BY <1>1, <1>2, PTL DEF Spec

(* What a command says it has written is there, was typed against the very *)
(* texts of its imports that are there, and is what is on disk unless that *)
(* changed meanwhile; whatever earlier commands left in the directory.     *)
THEOREM WrittenVersion == Spec => []OutputIsOneVersion
<1>1. Inv => OutputIsOneVersion
  <2> SUFFICES ASSUME Inv, Complete, NEW m \in DOMAIN src, IsEmitted(m)
               PROVE  /\ out[m] = O!Entry(src, m)
                      /\ \A d \in out[m].text.imports \ Library : out[d].text = out[m].against[d]
                      /\ edited \/ out[m].text = disk[m]
    BY DEF OutputIsOneVersion, Complete
  <2>1. DOMAIN src = {files[i] : i \in 1..Len(files)} /\ O!Fits(src)
    BY DEF Inv, Checked
  <2>2. ASSUME NEW d \in DOMAIN src, IsEmitted(d)
        PROVE  out[d] = O!Entry(src, d)
    BY <2>1, <2>2 DEF Inv, WrittenInOrder, Wrote
  <2>3. out[m] = O!Entry(src, m)
    BY <2>2
  <2>4. out[m].text = src[m] /\ out[m].against = [d \in src[m].imports |-> src[d]]
    BY <2>3 DEF O!Entry
  <2>5. ASSUME NEW d \in src[m].imports \ Library
        PROVE  out[d].text = src[d]
    <3>1. d \in DOMAIN src
      BY <2>1, <2>5 DEF O!Fits
    <3>2. IsEmitted(d)
      BY <2>1, <2>5, <3>1 DEF IsEmitted, Inv, GatheredOnce
    <3>3. out[d] = O!Entry(src, d)
      BY <2>2, <3>1, <3>2
    <3> QED
      BY <3>3 DEF O!Entry
  <2>6. edited \/ out[m].text = disk[m]
    BY <2>4 DEF Inv, ReadFromDisk
  <2> QED
    BY <2>3, <2>4, <2>5, <2>6
<1> QED
  BY <1>1, Invariance, PTL

-----------------------------------------------------------------------------
(* A command that is not writing and does not begin to is not seen.        *)
LEMMA NotWriting ==
  ASSUME ~Writing, ~Writing', out' = out
  PROVE  UNCHANGED O!vars
BY DEF O!vars

LEMMA SameJob ==
  ASSUME UNCHANGED <<out, phase, files, src, k, command, target>>
  PROVE  UNCHANGED O!vars
BY DEF O!vars, Writing, Pending, IsEmitted

LEMMA JobEnds ==
  ASSUME ~Writing'
  PROVE  O!End
BY DEF O!End

(* What the loop has still before it once it has gone past one file.       *)
LEMMA PendingNext ==
  ASSUME TypeOK, GatheredOnce, More, k' = k + 1, UNCHANGED <<files, command, target>>
  PROVE  Pending' = Pending \ {Current} /\ (IsEmitted(Current) <=> Current \in Pending)
<1>1. k \in 1..Len(files)
  BY CurrentFile
<1>2. \A i \in k+1..Len(files) : files[i] # files[k]
  BY <1>1 DEF GatheredOnce, OnceEach
<1>3. {files[i] : i \in k..Len(files)} = {files[i] : i \in k+1..Len(files)} \cup {files[k]}
  BY <1>1
<1> QED
  BY <1>1, <1>2, <1>3 DEF Pending, IsEmitted, Current

LEMMA StepRefines == Inv /\ [Next]_vars => [O!Next]_(O!vars)
<1> SUFFICES ASSUME Inv, [Next]_vars PROVE [O!Next]_(O!vars)
  OBVIOUS
<1> USE DEF Inv, gathering, call, Ends
<1>1. CASE Start
  BY <1>1, NotWriting DEF Start, Writing
<1>2. CASE Follow \/ GatherPanic \/ EndGather \/ Read \/ ReadPanic \/ Reject
  BY <1>2, NotWriting DEF Follow, Queued, GatherPanic, EndGather, Read, ReadPanic, Reject, Writing
<1>3. CASE Analyze
  <2>1. ~Writing /\ out' = out /\ UNCHANGED <<files, src, command, target>>
    BY <1>3 DEF Analyze, Writing
  <2>2. CASE ~Writing'
    BY <2>1, <2>2, NotWriting
  <2>3. CASE Writing'
    <3>1. O!Fits(src)
      BY <1>3, AcceptedFits DEF Analyze
    <3>2. k' = 1 /\ DOMAIN src = {files[i] : i \in 1..Len(files)}
      <4>1. k' = 1
        BY <1>3, <2>3 DEF Analyze, Writing
      <4>2. k = Len(files) + 1 /\ DOMAIN src = {files[i] : i \in 1..k-1}
        BY <1>3 DEF Analyze, More, ReadInOrder, TypeOK
      <4> QED
        BY <4>1, <4>2 DEF TypeOK
    <3>3. Pending' \in SUBSET DOMAIN src
      BY <2>1, <3>2 DEF Pending
    <3>4. DOMAIN src \in SUBSET Modules /\ src \in [DOMAIN src -> Texts]
      BY DEF TypeOK
    <3>5. O!Accept
      BY <2>1, <2>3, <3>1, <3>3, <3>4 DEF O!Accept, O!Fits
    <3> QED
      BY <3>5 DEF O!Next
  <2> QED
    BY <2>2, <2>3
<1>4. CASE Skip
  <2>1. Pending' = Pending
    BY <1>4, PendingNext DEF Skip
  <2> QED
    BY <1>4, <2>1 DEF Skip, Writing, O!vars
<1>5. CASE WriteModule
  <2>1. Pending' = Pending \ {Current} /\ Current \in Pending /\ Current \in Modules
    BY <1>5, PendingNext, CurrentFile DEF WriteModule, Emits
  <2>2. O!Write(Current)
    BY <1>5, <2>1 DEF WriteModule, Emits, Writing, O!Write
  <2> QED
    BY <2>1, <2>2 DEF O!Next
<1>6. CASE EmitPanic \/ Finish
  <2>1. O!End /\ out' = out
    BY <1>6, JobEnds DEF EmitPanic, Finish, Writing
  <2> QED
    BY <2>1 DEF O!Next, O!Leave
<1>7. CASE Kill
  <2>1. O!End
    BY <1>7, JobEnds DEF Kill, Writing
  <2>2. CASE out' = out
    BY <2>1, <2>2 DEF O!Next, O!Leave
  <2>3. CASE Emits /\ out' = [out EXCEPT ![Current] = Torn]
    <3>1. Current \in Pending /\ Current \in Modules
      BY <2>3, CurrentFile DEF Emits, Pending, Current
    <3>2. O!Tear(Current)
      BY <2>1, <2>3, <3>1 DEF O!Tear, Emits
    <3> QED
      BY <3>1, <3>2 DEF O!Next
  <2> QED
    BY <1>7, <2>2, <2>3 DEF Kill
<1>8. CASE Edit \/ Idle \/ UNCHANGED vars
  BY <1>8, SameJob DEF Edit, Idle, vars
<1> QED
  BY <1>1, <1>2, <1>3, <1>4, <1>5, <1>6, <1>7, <1>8 DEF Next, Running

(* Builds implement OutputDir: whatever is edited, killed or panics, the   *)
(* directory only changes to modules of one set of sources that fit        *)
(* together, each of them written once.                                    *)
THEOREM BuildImplementsOutputDir == Spec => WritesAccepted
<1>1. Init => O!Init
  BY DEF Init, O!Init, Writing
<1>2. Inv /\ [Next]_vars => [O!Next]_(O!vars)
  BY StepRefines
<1> QED
  BY <1>1, <1>2, Invariance, PTL DEF Spec, WritesAccepted, O!Spec

-----------------------------------------------------------------------------
(* Where there is no ring the sort finds an order: a module that imports   *)
(* none of those left can go next, so the longest order has all of them.   *)
LEMMA NoRingIsSorted ==
  ASSUME NEW s, IsFiniteSet(DOMAIN s),
         \A S \in SUBSET DOMAIN s : S # {} => \E m \in S : s[m].imports \cap S = {}
  PROVE  Sorted(s)
<1> DEFINE D == DOMAIN s
           Ranks(T, rank) ==
             /\ rank \in [T -> 1..Cardinality(T)]
             /\ \A m \in T : \A d \in s[m].imports \cap D : d \in T /\ rank[d] < rank[m]
           Left == {n \in Nat : \E T \in SUBSET D : \E rank : Ranks(T, rank) /\ n = Cardinality(D) - Cardinality(T)}
<1>1. IsFiniteSet(D) /\ Cardinality(D) \in Nat
  BY FS_CardinalityType
<1>2. ASSUME NEW T \in SUBSET D
      PROVE  IsFiniteSet(T) /\ Cardinality(T) \in Nat /\ Cardinality(T) <= Cardinality(D)
  BY <1>1, FS_Subset, FS_CardinalityType
<1>3. Left # {}
  <2>1. Cardinality({}) = 0
    BY FS_EmptySet
  <2>2. Ranks({}, [x \in {} |-> 1])
    BY <2>1
  <2>3. {} \in SUBSET D /\ Cardinality(D) = Cardinality(D) - Cardinality({})
    BY <1>1, <2>1
  <2> HIDE DEF Ranks, D
  <2>4. Cardinality(D) \in Left
    BY <1>1, <2>2, <2>3
  <2> QED
    BY <2>4
<1>4. PICK n \in Left : \A l \in Left : n <= l
  <2>1. Left \in SUBSET Nat
    OBVIOUS
  <2> HIDE DEF Left
  <2> QED
    BY <1>3, <2>1, LeastIndex
<1>5a. PICK T \in SUBSET D : \E rank : Ranks(T, rank) /\ n = Cardinality(D) - Cardinality(T)
  OBVIOUS
<1>5. PICK rank : Ranks(T, rank) /\ n = Cardinality(D) - Cardinality(T)
  BY <1>5a
<1>6. CASE T # D
  <2>1. PICK m \in D \ T : s[m].imports \cap (D \ T) = {}
    BY <1>6
  <2> DEFINE more == T \cup {m}
             next == [x \in more |-> IF x = m THEN Cardinality(T) + 1 ELSE rank[x]]
  <2>2. Cardinality(more) = Cardinality(T) + 1 /\ more \in SUBSET D
    BY <1>2, <2>1, FS_AddElement
  <2>3. Cardinality(T) \in Nat /\ \A x \in T : rank[x] \in 1..Cardinality(T)
    BY <1>2, <1>5
  <2>4. next \in [more -> 1..Cardinality(more)]
    BY <2>2, <2>3
  <2>5. ASSUME NEW x \in more, NEW d \in s[x].imports \cap D
        PROVE  d \in more /\ next[d] < next[x]
    <3>1. CASE x = m
      <4>1. d \in T /\ d # m
        BY <2>1, <2>5, <3>1
      <4> QED
        BY <2>3, <3>1, <4>1
    <3>2. CASE x # m
      <4>1. x \in T /\ d \in T /\ d # m /\ rank[d] < rank[x]
        BY <1>5, <2>1, <2>5, <3>2
      <4> QED
        BY <3>2, <4>1
    <3> QED
      BY <3>1, <3>2
  <2>6. Ranks(more, next)
    BY <2>4, <2>5
  <2>7. Cardinality(D) - Cardinality(more) \in Nat
    BY <1>1, <1>2, <2>2, <2>3
  <2> HIDE DEF more, next, Ranks, D
  <2>8. Cardinality(D) - Cardinality(more) \in Left
    BY <2>2, <2>6, <2>7
  <2> HIDE DEF Left
  <2> QED
    BY <1>1, <1>4, <1>5, <2>2, <2>3, <2>8
<1> QED
  BY <1>5, <1>6 DEF Sorted

-----------------------------------------------------------------------------
(* The files a command starts with, and the sets of files that give it no  *)
(* cause to fail.                                                          *)
Started ==
  {m \in Library : Exists(m)} \cup
    (IF command = "typed" THEN {target} ELSE {m \in Project : Exists(m)})
Sound(S) ==
  /\ S \in SUBSET {m \in Modules : Exists(m)}
  /\ Started \subseteq S /\ S \subseteq Started \cup (IF command = "typed" THEN {} ELSE Modules)
  /\ Fine(S)

(* While nothing is saved, what was gathered is in every sound set, for a  *)
(* file in it has its imports in it; and no import of a file that was      *)
(* followed is left out.                                                   *)
Gathered ==
  phase # "idle" /\ ~edited =>
    /\ Started \subseteq Elements(files) /\ Elements(queue) \subseteq Elements(files)
    /\ \A S \in SUBSET Modules : Sound(S) => Elements(files) \subseteq S
    /\ phase # "gather" => queue = <<>>
    /\ phase = "write" => command # "typecheck"
    /\ command # "typed" =>
         \A m \in Elements(files) \ Elements(queue) :
           disk[m].flaw = "malformed" \/ disk[m].imports \subseteq Elements(files)

LEMMA SameCause ==
  ASSUME UNCHANGED <<disk, externals, command, target>>
  PROVE  /\ Started' = Started
         /\ \A S : Sound(S)' <=> Sound(S)
<1>1. Started' = Started
  BY DEF Started, Exists
<1>2. \A S : Fine(S)' <=> Fine(S)
  BY DEF Fine, O!Fits, IsEmitted, Panics
<1>3. \A S : Sound(S)' <=> Sound(S)
  BY <1>1, <1>2 DEF Sound, Exists
<1> QED
  BY <1>1, <1>3

(* The listings have every file there is.                                  *)
LEMMA StartListed ==
  ASSUME Start
  PROVE  /\ Elements(files') = Started'
         /\ Elements(queue') \subseteq Elements(files')
         /\ phase' # "gather" => queue' = <<>>
         /\ command' # "typed" => queue' = files'
<1> USE KindsAssumption
<1>1. PICK lib \in Listed(Library), own \in Listed(Project) :
        IF command' = "typed"
          THEN target' \in Project /\ files' = Append(lib, target') /\ phase' = "read" /\ queue' = <<>>
          ELSE target' = None /\ files' = lib \o own /\ phase' = "gather" /\ queue' = files'
  BY DEF Start
<1>2. ASSUME NEW kind \in SUBSET Modules, NEW s \in Listed(kind)
      PROVE  s \in Seq(Modules) /\ Elements(s) = {m \in kind : Exists(m)}
  <2> DEFINE S == {m \in kind : Exists(m)}
  <2>1. S \in SUBSET Modules /\ s \in SetToSeqs(S)
    BY <1>2 DEF Listed
  <2>2. IsFiniteSet(S)
    BY <2>1, FS_Subset
  <2>3. s \in Seq(Modules)
    BY <1>2, ListedFiles
  <2> HIDE DEF S
  <2>4. S = {s[j] : j \in 1..Len(s)}
    BY <2>1, <2>2, SeqsOfSet
  <2> QED
    BY <2>3, <2>4 DEF Elements, S
<1>3. lib \in Seq(Modules) /\ Elements(lib) = {m \in Library : Exists(m)}
  BY <1>1, <1>2
<1>4. own \in Seq(Modules) /\ Elements(own) = {m \in Project : Exists(m)}
  BY <1>1, <1>2
<1>5. \A m : Exists(m)' <=> Exists(m)
  BY DEF Start, Exists, user
<1>6. CASE command' = "typed"
  <2>1. files' = Append(lib, target') /\ target' \in Modules /\ queue' = <<>>
    BY <1>1, <1>6
  <2>2. Elements(files') = Elements(lib) \cup {target'}
    BY <1>3, <2>1, PushElements
  <2>3. Elements(<<>>) = {}
    BY DEF Elements
  <2> QED
    BY <1>3, <1>5, <1>6, <2>1, <2>2, <2>3 DEF Started
<1>7. CASE command' # "typed"
  <2>1. files' = lib \o own /\ queue' = files' /\ phase' = "gather"
    BY <1>1, <1>7
  <2>2. Elements(files') = Elements(lib) \cup Elements(own)
    BY <1>3, <1>4, <2>1, AppendElements
  <2> QED
    BY <1>3, <1>4, <1>5, <1>7, <2>1, <2>2 DEF Started
<1> QED
  BY <1>6, <1>7

(* Of a file in a sound set, what it wants is in the set.                  *)
LEMMA SoundImports ==
  ASSUME NEW S \in SUBSET Modules, Sound(S), NEW m \in S
  PROVE  /\ Exists(m) /\ disk[m].flaw \notin {"malformed", "ill-typed"}
         /\ disk[m].imports \subseteq S /\ Wanted(m) \subseteq S
<1>1. Exists(m)
  BY DEF Sound
<1>2. O!Fits([d \in S |-> disk[d]])
  BY DEF Sound, Fine
<1>3. disk[m].flaw \notin {"malformed", "ill-typed"} /\ disk[m].imports \subseteq S
  BY <1>2 DEF O!Fits
<1> QED
  BY <1>1, <1>3 DEF Wanted

LEMMA FollowGathered ==
  ASSUME TypeOK, GatheredOnce, Gathered, Follow
  PROVE  Gathered'
<1> SUFFICES ASSUME ~edited PROVE Gathered'
  BY DEF Gathered, Follow
<1> DEFINE m == Last(queue)
<1>1. m \in Modules /\ queue # <<>> /\ Exists(m) /\ phase = "gather" /\ command # "typed"
  BY QueuedFile DEF Follow, Queued, GatheredOnce
<1>2. PICK new \in SetToSeqs(Wanted(m)) : files' = files \o new /\ queue' = Front(queue) \o new
  BY DEF Follow
<1>3. Wanted(m) \in SUBSET Modules /\ new \in Seq(Modules)
  BY <1>1, <1>2, WantedFiles, ListedOnce
<1>4. Elements(new) = Wanted(m)
  <2>1. IsFiniteSet(Wanted(m))
    BY <1>3, KindsAssumption, FS_Subset
  <2> QED
    BY <1>2, <2>1, SeqsOfSet DEF Elements
<1>5. /\ files \in Seq(Modules) /\ queue \in Seq(Modules)
      /\ m \in Modules /\ Front(queue) \in Seq(Modules)
  BY <1>1, QueuedFile DEF TypeOK
<1>6. /\ Elements(files') = Elements(files) \cup Wanted(m)
      /\ Elements(queue') = Elements(Front(queue)) \cup Wanted(m)
      /\ Elements(queue) = Elements(Front(queue)) \cup {m}
  <2>1. Elements(files \o new) = Elements(files) \cup Elements(new)
    BY <1>3, <1>5, AppendElements
  <2>2. Elements(Front(queue) \o new) = Elements(Front(queue)) \cup Elements(new)
    BY <1>3, <1>5, AppendElements
  <2>3. Elements(queue) = Elements(Front(queue)) \cup {m}
    BY <1>1, <1>5, PopElements
  <2> QED
    BY <1>2, <1>4, <2>1, <2>2, <2>3
<1>7. UNCHANGED <<disk, externals, command, target, phase, edited>>
  BY DEF Follow, user, call
<1>8. Started' = Started /\ \A S : Sound(S)' <=> Sound(S)
  BY <1>7, SameCause
<1>9. disk[m].flaw = "malformed" \/ disk[m].imports \subseteq Elements(files')
  <2>1. ToSet(files) = Elements(files)
    BY <1>5 DEF ToSet, Elements
  <2> QED
    BY <1>6, <2>1 DEF Wanted
<1> HIDE DEF m
<1>10. /\ Started \subseteq Elements(files) /\ Elements(queue) \subseteq Elements(files)
       /\ \A S \in SUBSET Modules : Sound(S) => Elements(files) \subseteq S
       /\ \A d \in Elements(files) \ Elements(queue) :
            disk[d].flaw = "malformed" \/ disk[d].imports \subseteq Elements(files)
  BY <1>1 DEF Gathered
<1>11. \A S \in SUBSET Modules : Sound(S) => Elements(files') \subseteq S
  <2> SUFFICES ASSUME NEW S \in SUBSET Modules, Sound(S)
               PROVE  Elements(files') \subseteq S
    OBVIOUS
  <2>1. m \in S
    BY <1>6, <1>10
  <2> QED
    BY <1>6, <1>10, <2>1, SoundImports
<1>12. \A d \in Elements(files') \ Elements(queue') :
         disk[d].flaw = "malformed" \/ disk[d].imports \subseteq Elements(files')
  BY <1>6, <1>9, <1>10
<1> QED
  BY <1>1, <1>6, <1>7, <1>8, <1>10, <1>11, <1>12 DEF Gathered

LEMMA GatheredStep ==
  ASSUME TypeOK, GatheredOnce, Gathered, [Next]_vars
  PROVE  Gathered'
<1> USE DEF user, gathering, call, Ends
<1>1. CASE Start
  <2>1. /\ Elements(files') = Started' /\ Elements(queue') \subseteq Elements(files')
        /\ phase' # "gather" => queue' = <<>>
        /\ command' # "typed" => queue' = files'
    BY <1>1, StartListed
  <2>2. \A S : Sound(S)' => Started' \subseteq S
    BY DEF Sound
  <2>3. phase' # "write"
    BY <1>1 DEF Start
  <2> QED
    BY <2>1, <2>2, <2>3 DEF Gathered
<1>2. CASE Follow
  BY <1>2, FollowGathered
<1>3. ASSUME phase' = "idle" \/ edited' = TRUE
      PROVE  Gathered'
  BY <1>3 DEF Gathered
<1>4. ASSUME UNCHANGED <<disk, externals, command, target, files, queue, edited>>, phase # "idle",
             phase' # "gather" => phase # "gather" \/ queue = <<>>,
             phase' = "write" => phase = "write" \/ command # "typecheck"
      PROVE  Gathered'
  <2>1. Started' = Started /\ \A S : Sound(S)' <=> Sound(S)
    BY <1>4, SameCause
  <2> QED
    BY <1>4, <2>1 DEF Gathered
<1>5. CASE EndGather
  BY <1>4, <1>5 DEF EndGather
<1>6. CASE Read \/ Skip \/ WriteModule
  BY <1>4, <1>6 DEF Read, Skip, WriteModule, Emits, Writing
<1>7. CASE Analyze
  BY <1>3, <1>4, <1>7 DEF Analyze
<1>8. CASE GatherPanic \/ ReadPanic \/ Reject \/ EmitPanic \/ Finish \/ Kill \/ Edit
  BY <1>3, <1>8 DEF GatherPanic, ReadPanic, Reject, EmitPanic, Finish, Kill, Edit
<1>9. CASE Idle \/ UNCHANGED vars
  <2>1. CASE phase = "idle"
    BY <1>3, <1>9, <2>1 DEF Idle, vars
  <2>2. CASE phase # "idle"
    BY <1>4, <1>9, <2>2 DEF Idle, vars
  <2> QED
    BY <2>1, <2>2
<1> QED
  BY <1>1, <1>2, <1>5, <1>6, <1>7, <1>8, <1>9 DEF Next, Running

(* With a sound set of files no step fails but for the externals.          *)
LEMMA SoundPasses ==
  ASSUME Inv, Gathered, ~edited, NEW S \in SUBSET Modules, Sound(S)
  PROVE  ~GatherPanic /\ ~ReadPanic /\ ~Reject /\ ~EmitPanic
<1> USE DEF Inv
<1>1. files \in Seq(Modules) /\ queue \in Seq(Modules)
  BY DEF TypeOK
<1>2. ASSUME phase # "idle"
      PROVE  /\ Elements(files) \subseteq S /\ Started \subseteq Elements(files)
             /\ Elements(queue) \subseteq Elements(files)
             /\ phase # "gather" => queue = <<>>
             /\ phase = "write" => command # "typecheck"
             /\ command # "typed" =>
                  \A m \in Elements(files) \ Elements(queue) :
                    disk[m].flaw = "malformed" \/ disk[m].imports \subseteq Elements(files)
  BY <1>2 DEF Gathered
<1>3. ASSUME GatherPanic
      PROVE  FALSE
  <2> DEFINE m == Last(queue)
  <2>1. /\ phase = "gather" /\ queue # <<>>
        /\ Exists(m) => \E d \in Wanted(m) : ~Found(d)
    BY <1>3 DEF GatherPanic, Queued
  <2>2. m \in S
    BY <1>1, <1>2, <2>1, PopElements
  <2>3. PICK d \in Wanted(m) : ~Found(d)
    BY <2>1, <2>2, SoundImports
  <2>4. d \in S /\ d \notin Elements(files)
    <3>1. ToSet(files) = Elements(files)
      BY <1>1 DEF ToSet, Elements
    <3> QED
      BY <2>2, <2>3, <3>1, SoundImports DEF Wanted
  <2>5. Exists(d) /\ d \in Library \cup Project
    BY <2>3, <2>4, SoundImports DEF Found
  <2>6. command # "typed"
    BY <2>1 DEF GatheredOnce
  <2>7. d \in Started
    BY <2>5, <2>6 DEF Started
  <2> QED
    BY <1>2, <2>1, <2>4, <2>7
<1>4. ASSUME More, phase # "idle"
      PROVE  Current \in S
  BY <1>2, <1>4, CurrentFile DEF Elements, Current
<1>5. ASSUME ReadPanic
      PROVE  FALSE
  BY <1>4, <1>5, SoundImports DEF ReadPanic
<1>6. \A m \in DOMAIN src : src[m] = disk[m]
  BY DEF ReadFromDisk
<1>7. ASSUME EmitPanic
      PROVE  FALSE
  <2>1. phase = "write" /\ More /\ IsEmitted(Current) /\ Panics(src[Current])
    BY <1>7 DEF EmitPanic, Writing
  <2>2. Current \in S /\ Current \in DOMAIN src
    BY <1>4, <2>1, CurrentFile DEF Checked, Current
  <2>3. ~Panics(disk[Current])
    BY <1>2, <2>1, <2>2 DEF Sound, Fine
  <2> QED
    BY <1>6, <2>1, <2>2, <2>3
<1>8. ASSUME phase = "read", ~More
      PROVE  Accepted(src)
  <2>1. DOMAIN src = Elements(files) /\ Elements(files) \subseteq S
    <3>1. k = Len(files) + 1
      BY <1>8 DEF More, TypeOK
    <3>2. {files[i] : i \in 1..k-1} = {files[i] : i \in 1..Len(files)}
      BY <1>1, <3>1
    <3> QED
      BY <1>2, <1>8, <3>2 DEF ReadInOrder, Elements
  <2>2. Typed(src)
    BY <1>6, <2>1, SoundImports DEF Typed
  <2>3. Sorted(src)
    <3>1. IsFiniteSet(DOMAIN src)
      BY <2>1, KindsAssumption, FS_Subset
    <3>2. ASSUME NEW T \in SUBSET DOMAIN src, T # {}
          PROVE  \E m \in T : src[m].imports \cap T = {}
      <4>1. O!Fits([m \in S |-> disk[m]]) /\ T \in SUBSET S
        BY <2>1 DEF Sound, Fine
      <4>2. PICK m \in T : disk[m].imports \cap T = {}
        BY <3>2, <4>1 DEF O!Fits
      <4> QED
        BY <1>6, <4>2
    <3> QED
      BY <3>1, <3>2, NoRingIsSorted
  <2>4. ASSUME NEW m \in DOMAIN src
        PROVE  src[m].imports \subseteq DOMAIN src
    <3>1. m \in S /\ disk[m].flaw # "malformed" /\ disk[m].imports \subseteq S
      BY <2>1, SoundImports
    <3>2. CASE command = "typed"
      <4>1. S \subseteq Elements(files)
        BY <1>2, <1>8, <3>2 DEF Sound
      <4> QED
        BY <1>6, <2>1, <3>1, <4>1
    <3>3. CASE command # "typed"
      <4>1. Elements(queue) = {}
        BY <1>2, <1>8 DEF Elements
      <4> QED
        BY <1>2, <1>6, <1>8, <2>1, <3>1, <3>3, <4>1
    <3> QED
      BY <3>2, <3>3
  <2> QED
    BY <2>2, <2>3, <2>4 DEF Accepted, Resolved
<1> QED
  BY <1>3, <1>5, <1>7, <1>8 DEF Reject

(* A command that fails, with nothing saved meanwhile and not for the      *)
(* externals, had no sound set of files.                                   *)
Blamed ==
  phase = "idle" /\ result \in {"rejected", "panic"} /\ ~edited =>
    (command = "build" /\ externals = "malformed") \/ ~\E S \in SUBSET Modules : Sound(S)

LEMMA BlamedStep ==
  ASSUME Inv, Gathered, Blamed, [Next]_vars
  PROVE  Blamed'
<1> USE DEF user, gathering, call, Ends
<1>1. CASE GatherPanic \/ ReadPanic \/ Reject \/ EmitPanic
  <2>1. UNCHANGED <<disk, externals, command, target, edited>>
    BY <1>1 DEF GatherPanic, ReadPanic, Reject, EmitPanic
  <2>2. \A S \in SUBSET Modules : ~edited => ~Sound(S)
    BY <1>1, SoundPasses
  <2> QED
    BY <2>1, <2>2, SameCause DEF Blamed
<1>2. CASE Analyze
  <2>1. phase' = "idle" => result' = "ok" \/ (command' = "build" /\ externals' = "malformed")
    BY <1>2 DEF Analyze
  <2> QED
    BY <2>1 DEF Blamed
<1>3. CASE Start \/ Follow \/ EndGather \/ Read \/ Skip \/ WriteModule \/ Finish \/ Kill \/ Edit
  <2>1. phase' # "idle" \/ result' \notin {"rejected", "panic"} \/ edited' = TRUE
    BY <1>3 DEF Start, Follow, Queued, EndGather, Read, Skip, WriteModule, Emits, Writing,
                Finish, Kill, Edit
  <2> QED
    BY <2>1 DEF Blamed
<1>4. CASE Idle \/ UNCHANGED vars
  <2>1. UNCHANGED <<disk, externals, command, target, edited, phase, result>>
    BY <1>4 DEF Idle, vars
  <2> QED
    BY <2>1, SameCause DEF Blamed
<1> QED
  BY <1>1, <1>2, <1>3, <1>4 DEF Next, Running

(* A command that nobody kills and no save disturbs fails only for what is *)
(* wrong with the files: the list it gathers is never missing one, and the *)
(* sort finds an order whenever there is one.                              *)
THEOREM FailureHasACause == Spec => []FailsForACause
<1>1. Init => Gathered /\ Blamed
  BY DEF Init, Gathered, Blamed
<1>2. Inv /\ Gathered /\ Blamed /\ [Next]_vars => Gathered' /\ Blamed'
  BY GatheredStep, BlamedStep DEF Inv
<1>3. Blamed => FailsForACause
  BY DEF Blamed, FailsForACause, Sound, Started
<1> QED
  BY <1>1, <1>2, <1>3, Invariance, PTL DEF Spec
-----------------------------------------------------------------------------
(* What a command has left to do, in lexicographic order: its stages, the  *)
(* modules not gathered and the files queued, the files its loop has ahead.*)
Stage ==
  CASE phase = "gather" -> 3 [] phase = "read" -> 2 [] phase = "write" -> 1 [] OTHER -> 0
ToGather == Cardinality(Modules \ Elements(files)) + Len(queue)
Ahead == Len(files) + 1 - k
Remaining == [i \in 1..3 |-> CASE i = 1 -> Stage [] i = 2 -> ToGather [] i = 3 -> Ahead]
RemainingTyped ==
  Stage \in Nat /\ ToGather \in Nat /\ Ahead \in Nat /\ Remaining \in [1..3 -> Nat]

LEMMA TypedRemaining ==
  ASSUME TypeOK
  PROVE  RemainingTyped
<1>1. Stage \in Nat
  BY DEF Stage
<1>2. ToGather \in Nat
  <2>1. IsFiniteSet(Modules \ Elements(files))
    BY KindsAssumption, FS_Difference
  <2>2. Cardinality(Modules \ Elements(files)) \in Nat
    BY <2>1, FS_CardinalityType
  <2> QED
    BY <2>2 DEF ToGather, TypeOK
<1>3. Ahead \in Nat
  BY DEF Ahead, TypeOK
<1> QED
  BY <1>1, <1>2, <1>3 DEF RemainingTyped, Remaining

LEMMA RemainingLower ==
  ASSUME RemainingTyped, RemainingTyped',
         \/ Stage' < Stage
         \/ Stage' = Stage /\ ToGather' < ToGather
         \/ Stage' = Stage /\ ToGather' = ToGather /\ Ahead' < Ahead
  PROVE  Lower(3, Remaining', Remaining)
<1> DEFINE a == Remaining'
           b == Remaining
<1>1. a \in [1..3 -> Nat] /\ b \in [1..3 -> Nat]
  BY DEF RemainingTyped
<1>2. /\ b[1] = Stage /\ b[2] = ToGather /\ b[3] = Ahead
      /\ a[1] = Stage' /\ a[2] = ToGather' /\ a[3] = Ahead'
  BY DEF Remaining
<1> HIDE DEF a, b
<1>3. PICK i \in 1..3 : a[i] < b[i] /\ \A j \in 1..i-1 : a[j] = b[j]
  <2>1. \/ a[1] < b[1]
        \/ a[1] = b[1] /\ a[2] < b[2]
        \/ a[1] = b[1] /\ a[2] = b[2] /\ a[3] < b[3]
    BY <1>2
  <2> QED
    BY <2>1
<1> QED
  BY <1>1, <1>3, LowerAt DEF a, b

LEMMA FollowLower ==
  ASSUME TypeOK, Follow
  PROVE  Stage' = Stage /\ ToGather' < ToGather
<1> DEFINE m == Last(queue)
           W == Wanted(m)
<1>1. m \in Modules /\ Front(queue) \in Seq(Modules) /\ Exists(m) /\ queue \in Seq(Modules)
      /\ queue # <<>> /\ files \in Seq(Modules)
  BY QueuedFile DEF Follow, Queued, TypeOK
<1>2. W \in SUBSET Modules /\ \A i \in 1..Len(files) : files[i] \notin W
  BY <1>1, WantedFiles
<1>3. PICK new \in SetToSeqs(W) : files' = files \o new /\ queue' = Front(queue) \o new
  BY DEF Follow
<1>4. IsFiniteSet(W)
  BY <1>2, KindsAssumption, FS_Subset
<1>5. W \in SUBSET (Modules \ Elements(files)) /\ new \in SetToSeqs(W)
  BY <1>2, <1>3 DEF Elements
<1> DEFINE front == Front(queue)
<1>16. /\ files' = files \o new /\ queue' = front \o new /\ front \in Seq(Modules)
       /\ Len(front) = Len(queue) - 1 /\ Len(queue) \in Nat
  BY <1>1, <1>3, FrontAndLast
<1> HIDE DEF W, m, front
<1>6. /\ new \in Seq(W) /\ Len(new) \in Nat /\ W = {new[i] : i \in 1..Len(new)}
      /\ \A i, j \in 1..Len(new) : new[i] = new[j] => i = j
  BY <1>4, <1>5, SeqsOfSet
<1>7. Cardinality(W) = Len(new)
  BY <1>6, ListingLength
<1>8. new \in Seq(Modules)
  BY <1>2, <1>5, ListedOnce
<1>9. Elements(files') = Elements(files) \cup W
  <2>1. Elements(files \o new) = Elements(files) \cup Elements(new)
    BY <1>1, <1>8, AppendElements
  <2>2. Elements(new) = W
    BY <1>6 DEF Elements
  <2> QED
    BY <1>16, <2>1, <2>2
<1>10. Cardinality(Modules \ Elements(files')) = Cardinality(Modules \ Elements(files)) - Len(new)
       /\ Cardinality(Modules \ Elements(files)) \in Nat
  <2> DEFINE M == Modules \ Elements(files)
  <2>1. IsFiniteSet(M)
    BY KindsAssumption, FS_Difference
  <2>2. Modules \ Elements(files') = M \ W /\ W \in SUBSET M
    BY <1>5, <1>9
  <2> HIDE DEF M
  <2>3. Cardinality(M \ W) = Cardinality(M) - Cardinality(W) /\ Cardinality(M) \in Nat
    BY <2>1, <2>2, TakenAway
  <2> QED
    BY <1>7, <2>2, <2>3 DEF M
<1>11. Len(queue') = Len(queue) - 1 + Len(new) /\ Len(queue) \in Nat
  <2>1. front \in Seq(Modules) /\ new \in Seq(Modules)
    BY <1>8, <1>16
  <2>2. Len(front \o new) = Len(front) + Len(new)
    BY <2>1, Appended
  <2> QED
    BY <1>16, <2>2
<1> DEFINE unseen == Cardinality(Modules \ Elements(files))
           unseen1 == Cardinality(Modules \ Elements(files'))
           length1 == Len(queue')
<1>12. ToGather = unseen + Len(queue) /\ ToGather' = unseen1 + length1
  BY DEF ToGather
<1> HIDE DEF unseen, unseen1, length1
<1>13. unseen1 = unseen - Len(new) /\ unseen \in Nat /\ length1 = Len(queue) - 1 + Len(new)
  BY <1>10, <1>11 DEF unseen, unseen1, length1
<1>14. Stage' = Stage
  BY DEF Follow, Stage
<1> QED
  BY <1>6, <1>11, <1>12, <1>13, <1>14

LEMMA RunningLower ==
  ASSUME TypeOK, RemainingTyped, RemainingTyped', Running \/ Kill
  PROVE  Lower(3, Remaining', Remaining)
<1>1. CASE Follow
  BY <1>1, FollowLower, RemainingLower
<1>2. CASE GatherPanic \/ EndGather \/ ReadPanic \/ Analyze \/ Reject \/ EmitPanic \/ Finish \/ Kill
  <2>1. Stage' < Stage
    BY <1>2 DEF GatherPanic, Queued, EndGather, ReadPanic, Analyze, Reject, EmitPanic, Finish,
                Kill, Ends, Writing, Stage, TypeOK
  <2> QED
    BY <2>1, RemainingLower
<1>3. CASE Read \/ Skip \/ WriteModule
  <2>1. UNCHANGED <<phase, files, queue>> /\ k' = k + 1
    BY <1>3 DEF Read, Skip, WriteModule, gathering
  <2>2. Stage' = Stage /\ ToGather' = ToGather /\ Ahead' = Len(files) + 1 - (k + 1)
    BY <2>1 DEF Stage, ToGather, Ahead
  <2>3. Ahead' < Ahead
    BY <2>2 DEF Ahead, TypeOK
  <2> QED
    BY <2>2, <2>3, RemainingLower
<1> QED
  BY <1>1, <1>2, <1>3 DEF Running

(* A command ends, although files change while it follows them: each of    *)
(* its steps goes down in a well-founded order (LowerEnds) and no edit     *)
(* puts it back.                                                           *)
THEOREM CommandsGoDown ==
  Spec => [][phase # "idle" => IF Running \/ Kill THEN Lower(3, Remaining', Remaining)
                                                  ELSE Remaining' = Remaining]_vars
<1>1. TypeOK => RemainingTyped
  BY TypedRemaining
<1>2. ASSUME [Next]_vars, phase # "idle", ~(Running \/ Kill)
      PROVE  Remaining' = Remaining
  <2>1. UNCHANGED <<phase, files, queue, k>>
    BY <1>2 DEF Next, Start, Edit, Idle, gathering, vars
  <2> QED
    BY <2>1 DEF Remaining, Stage, ToGather, Ahead
<1>3. TypeOK /\ RemainingTyped /\ RemainingTyped' /\ [Next]_vars =>
        [phase # "idle" => IF Running \/ Kill THEN Lower(3, Remaining', Remaining)
                                              ELSE Remaining' = Remaining]_vars
  BY <1>2, RunningLower
<1> QED
  BY TypeCorrect, <1>1, <1>3, PTL DEF Spec
=============================================================================
