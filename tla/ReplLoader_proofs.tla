-------------------------- MODULE ReplLoader_proofs --------------------------
(***************************************************************************)
(* What the loader promises for all constants.  However many threads call, *)
(* and however the user edits the files: temporary projects belong to the  *)
(* call that made them, a cached key is a closure that was loaded, no      *)
(* snippet file stays, namespaces are loaded after those they require.     *)
(* One thread alone may rely on more: a snippet is what its namespace was  *)
(* loaded from, a load leaves a coherent closure, a hit is what was read.  *)
(***************************************************************************)
EXTENDS ReplLoader, SequenceLemmas

(* The walk looks only at files: NoFile is the target of no read.          *)
Targets == [module : Modules, file : Files]
Targeted(t) ==
  /\ pc[t] = "copy" => call[t].entry \in Files
  /\ pc[t] \in {"visit", "slurp"} => target[t] \in Targets

Walking == \A t \in Threads : Targeted(t)

(* The part of the invariant that is about one thread: before the load no  *)
(* file counts as loaded; during it, the ones the index has passed were    *)
(* loaded from text that does not throw, and their namespaces exist.       *)
Entered(e) == e.text \notin Faulty /\ live[e.module] # Unloaded
Progress(t) ==
  /\ pc[t] \in {"idle", "copy", "visit", "slurp", "walk", "build"} => next[t] = 1
  /\ pc[t] = "load" =>
       /\ Compiles(Project(found[t]))
       /\ \A i \in 1..Len(found[t]) : i < next[t] =>
            \A f \in Project(found[t]) : f.module = found[t][i].module => Entered(f)

Progressing == \A t \in Threads : Progress(t)

-----------------------------------------------------------------------------
LEMMA InitType == Init => TypeOK
BY TextsAssumption
   DEF Init, TypeOK, NoCall, NoTarget, Unloaded, Labels, EntrySet, Keyed, Frames

(* What is built of entries is some of what was read.                      *)
LEMMA Projected ==
  ASSUME NEW s
  PROVE  \A f \in Project(s) : \E i \in DOMAIN s : f = [module |-> s[i].module, text |-> s[i].text]
BY DEF Project

LEMMA ProjectTypes ==
  ASSUME TypeOK
  PROVE  /\ \A t \in Threads : \A f \in Project(found[t]) : f \in Keyed
         /\ \A key \in loaded : \A f \in Project(key) : f \in Keyed
<1>1. ASSUME NEW t \in Threads, NEW f \in Project(found[t])
      PROVE  f \in Keyed
  <2>1. PICK i \in DOMAIN found[t] :
          f = [module |-> found[t][i].module, text |-> found[t][i].text]
    BY <1>1, Projected
  <2>2. found[t] \in Seq(EntrySet)
    BY DEF TypeOK
  <2>3. found[t][i] \in EntrySet
    BY <2>2
  <2> QED
    BY <2>1, <2>3 DEF EntrySet, Keyed
<1>2. ASSUME NEW key \in loaded, NEW f \in Project(key)
      PROVE  f \in Keyed
  <2>1. PICK i \in DOMAIN key : f = [module |-> key[i].module, text |-> key[i].text]
    BY <1>2, Projected
  <2>2. key \in Seq(Keyed)
    BY DEF TypeOK
  <2>3. key[i] \in Keyed
    BY <2>2
  <2> QED
    BY <2>1, <2>3 DEF Keyed
<1> QED
  BY <1>1, <1>2

(* Of a module one text is built.                                          *)
LEMMA OneBuilt ==
  ASSUME NEW S, NEW s \in Seq(S), NEW f \in Project(s), NEW g \in Project(s),
         f.module = g.module
  PROVE  f = g
<1> DEFINE Kept == {j \in DOMAIN s : \A k \in DOMAIN s : s[k].module = s[j].module => k <= j}
<1>1. PICK i \in Kept : f = [module |-> s[i].module, text |-> s[i].text]
  BY DEF Project
<1>2. PICK j \in Kept : g = [module |-> s[j].module, text |-> s[j].text]
  BY DEF Project
<1>3. i \in Nat /\ j \in Nat
  OBVIOUS
<1>4. s[i].module = s[j].module
  BY <1>1, <1>2
<1>5. i <= j /\ j <= i
  BY <1>4
<1>6. i = j
  BY <1>3, <1>5
<1> QED
  BY <1>1, <1>2, <1>6

(* The key knows all that is built.                                        *)
LEMMA KeyTypes ==
  ASSUME NEW s \in Seq(EntrySet)
  PROVE  /\ Key(s) \in Seq(Keyed) /\ Len(Key(s)) = Len(s) /\ DOMAIN Key(s) = 1..Len(s)
         /\ \A i \in 1..Len(s) : /\ Key(s)[i].module = s[i].module
                                 /\ Key(s)[i].text = s[i].text
         /\ Project(Key(s)) = Project(s)
<1>1. Len(s) \in Nat /\ DOMAIN s = 1..Len(s) /\ \A i \in 1..Len(s) : s[i] \in EntrySet
  OBVIOUS
<1>2. /\ DOMAIN Key(s) = 1..Len(s)
      /\ \A i \in 1..Len(s) : Key(s)[i] = [module |-> s[i].module, text |-> s[i].text]
  BY <1>1 DEF Key
<1>3. \A i \in 1..Len(s) : Key(s)[i] \in Keyed
  BY <1>1, <1>2 DEF EntrySet, Keyed
<1>4. Key(s) \in [1..Len(s) -> Keyed]
  BY <1>1, <1>2, <1>3 DEF Key
<1>5. Key(s) \in Seq(Keyed) /\ Len(Key(s)) = Len(s)
  BY <1>1, <1>4
<1>6. \A i \in 1..Len(s) : Key(s)[i].module = s[i].module /\ Key(s)[i].text = s[i].text
  BY <1>2
<1>7. Project(Key(s)) = Project(s)
  <2>1. {j \in DOMAIN s : \A k \in DOMAIN s : s[k].module = s[j].module => k <= j}
        = {j \in DOMAIN Key(s) :
             \A k \in DOMAIN Key(s) : Key(s)[k].module = Key(s)[j].module => k <= j}
    BY <1>1, <1>2, <1>6
  <2> QED
    BY <1>1, <1>2, <1>6, <2>1 DEF Project
<1> QED
  BY <1>2, <1>5, <1>6, <1>7

LEMMA Resolved == \A f \in Files, m \in Modules : Resolve[f][m] \in Files
<1>1. Resolve \in [Files -> [Modules -> Files]]
  BY FilesAssumption
<1> QED
  BY <1>1

LEMMA FrameTypes ==
  ASSUME TypeOK, NEW t \in Threads, stack[t] # <<>>
  PROVE  /\ Len(stack[t]) \in Nat \ {0}
         /\ Last(stack[t]) = stack[t][Len(stack[t])]
         /\ Last(stack[t]) \in Frames
         /\ Front(stack[t]) \in Seq(Frames)
<1>1. stack[t] \in Seq(Frames)
  BY DEF TypeOK
<1>2. Len(stack[t]) \in Nat \ {0}
  BY <1>1
<1> QED
  BY <1>1, <1>2 DEF Last, Front

LEMMA RedefineType ==
  ASSUME TypeOK, NEW m \in Modules, NEW text \in Texts \cup {Torn}, Redefine(m, text)
  PROVE  live' \in [Modules -> [text : Texts \cup {NoFile, Torn}, stale : SUBSET Modules]]
<1> DEFINE Live == [text : Texts \cup {NoFile, Torn}, stale : SUBSET Modules]
<1>1. live \in [Modules -> Live]
  BY DEF TypeOK
<1>2. ASSUME NEW n \in Modules
      PROVE  [live[n] EXCEPT !.stale = @ \cup {m}] \in Live
  BY <1>1, <1>2
<1>3. [text |-> text, stale |-> {}] \in Live
  OBVIOUS
<1> QED
  BY <1>1, <1>2, <1>3 DEF Redefine

(* A namespace that exists is redefined, never removed.                    *)
LEMMA RedefineKeeps ==
  ASSUME TypeOK, NEW m \in Modules, NEW text \in Texts \cup {Torn}, Redefine(m, text)
  PROVE  /\ live'[m] # Unloaded
         /\ \A n \in Modules : live[n] # Unloaded => live'[n] # Unloaded
<1>1. text # NoFile
  BY TextsAssumption
<1>2. live'[m] # Unloaded
  BY <1>1 DEF Redefine, Unloaded
<1>3. ASSUME NEW n \in Modules, live[n] # Unloaded
      PROVE  live'[n] # Unloaded
  <2>1. CASE n = m
    BY <1>2, <2>1
  <2>2. CASE n # m /\ live[n].text \in Texts /\ m \in ImportsOf(live[n].text)
    <3>1. live[n].text # NoFile
      BY <2>2, TextsAssumption
    <3>2. live'[n] = [live[n] EXCEPT !.stale = @ \cup {m}]
      BY <2>2 DEF Redefine
    <3>3. live'[n].text = live[n].text
      BY <3>2 DEF TypeOK
    <3> QED
      BY <3>1, <3>3 DEF Unloaded
  <2>3. CASE n # m /\ ~(live[n].text \in Texts /\ m \in ImportsOf(live[n].text))
    BY <1>3, <2>3 DEF Redefine
  <2> QED
    BY <2>1, <2>2, <2>3
<1> QED
  BY <1>2, <1>3

LEMMA TypeStep ==
  ASSUME TypeOK, Walking, [Next]_vars
  PROVE  TypeOK'
<1> USE DEF TypeOK, Goto, shared, locals, Labels
<1>1. CASE Edit
  <2>1. PICK e \in Edits : disk' = [disk EXCEPT ![e[1]] = e[3]]
    BY <1>1 DEF Edit
  <2>2. e[3] \in Texts \cup {NoFile}
    BY TextsAssumption
  <2> QED
    BY <1>1, <2>1, <2>2 DEF Edit
<1>2. ASSUME NEW t \in Threads, Require(t)
      PROVE  TypeOK'
  <2>1. PICK f \in Entries, r \in BOOLEAN :
          /\ call' = [call EXCEPT ![t] = [entry |-> f, reload |-> r, text |-> NoFile]]
          /\ target' = [target EXCEPT ![t] = [module |-> Stem[f], file |-> f]]
    BY <1>2 DEF Require
  <2>2. f \in Files /\ Stem[f] \in Modules
    BY TextsAssumption, FilesAssumption
  <2> QED
    BY <1>2, <2>1, <2>2 DEF Require
<1>3. ASSUME NEW t \in Threads, Eval(t)
      PROVE  TypeOK'
  <2>1. PICK s \in Snippets :
          call' = [call EXCEPT ![t] = [entry |-> s[1], reload |-> TRUE, text |-> s[2]]]
    BY <1>3 DEF Eval
  <2>2. s[1] \in Files /\ s[2] \in Texts
    BY TextsAssumption
  <2> QED
    BY <1>3, <2>1, <2>2 DEF Eval
<1>4. ASSUME NEW t \in Threads, Running(t)
      PROVE  TypeOK'
  <2>1. CASE Copy(t)
    <3>1. call[t].entry \in Files /\ call[t].text \in Texts \cup {NoFile}
      BY <2>1 DEF Copy, Walking, Targeted
    <3>2. [module |-> Stem[call[t].entry], file |-> call[t].entry] \in Targets
      BY <3>1, FilesAssumption DEF Targets
    <3>3. target' \in [Threads -> Targets \cup {NoTarget}]
      BY <2>1, <3>2 DEF Copy, Targets
    <3>4. disk' \in [Files -> Texts \cup {NoFile}]
      BY <2>1, <3>1 DEF Copy
    <3> QED
      BY <2>1, <3>3, <3>4 DEF Copy, Targets
  <2>2. CASE Visit(t)
    <3>1. target[t].file \in Files
      BY <2>2 DEF Visit, Walking, Targeted, Targets
    <3>2. seen' \in [Threads -> SUBSET Files]
      <4>1. seen[t] \cup {target[t].file} \in SUBSET Files
        BY <3>1
      <4>2. seen' = [seen EXCEPT ![t] = seen[t] \cup {target[t].file}] \/ seen' = seen
        BY <2>2 DEF Visit
      <4>3. seen \in [Threads -> SUBSET Files]
        OBVIOUS
      <4> QED
        BY ONLY <4>1, <4>2, <4>3
    <3>3. pc' \in [Threads -> Labels]
      BY <2>2 DEF Visit
    <3> QED
      BY <2>2, <3>2, <3>3 DEF Visit
  <2>3. CASE Slurp(t)
    <3>1. /\ target[t].module \in Modules /\ target[t].file \in Files
          /\ stack[t] \in Seq(Frames)
      BY <2>3 DEF Slurp, Walking, Targeted, Targets
    <3>2. CASE disk[target[t].file] = NoFile
      BY <2>3, <3>2 DEF Slurp, Fail
    <3>3. CASE disk[target[t].file] # NoFile
      <4> DEFINE frame == [module |-> target[t].module, file |-> target[t].file, text |-> disk[target[t].file],
                           todo |-> Imports[disk[target[t].file]]]
      <4>1. frame \in Frames
        BY <3>1, <3>3, TextsAssumption DEF Frames
      <4>2. stack' = [stack EXCEPT ![t] = Append(@, frame)]
        BY <2>3, <3>3 DEF Slurp
      <4>3. Append(stack[t], frame) \in Seq(Frames)
        BY <3>1, <4>1
      <4> HIDE DEF frame
      <4> QED
        BY <2>3, <3>3, <4>2, <4>3 DEF Slurp
    <3> QED
      BY <3>2, <3>3
  <2>4. CASE Descend(t)
    <3> DEFINE top == Len(stack[t])
               frame == stack[t][top]
               m == Head(frame.todo)
    <3>1. top \in Nat \ {0} /\ frame \in Frames /\ frame.todo # <<>> /\ stack[t] \in Seq(Frames)
      BY <2>4, FrameTypes DEF Descend
    <3>2. m \in Modules /\ Tail(frame.todo) \in Seq(Modules)
      BY <3>1 DEF Frames
    <3>2a. frame.file \in Files /\ Resolve[frame.file][m] \in Files
      <4>1. frame.file \in Files
        BY <3>1 DEF Frames
      <4> HIDE DEF m, frame
      <4> QED
        BY <3>2, <4>1, Resolved
    <3>3. [frame EXCEPT !.todo = Tail(@)] \in Frames
      BY <3>1, <3>2 DEF Frames
    <3>4. [stack[t] EXCEPT ![top] = [frame EXCEPT !.todo = Tail(@)]] \in Seq(Frames)
      BY <3>1, <3>3
    <3>5. stack' \in [Threads -> Seq(Frames)]
      BY <2>4, <3>4 DEF Descend
    <3>6. target' \in [Threads -> Targets \cup {NoTarget}]
      <4>1. [module |-> m, file |-> Resolve[frame.file][m]] \in Targets
        BY <3>2, <3>2a DEF Targets
      <4>2. target' = [target EXCEPT ![t] = [module |-> m, file |-> Resolve[frame.file][m]]]
        BY <2>4 DEF Descend
      <4>3. target \in [Threads -> Targets \cup {NoTarget}]
        BY DEF Targets
      <4> HIDE DEF frame, m
      <4> QED
        BY <4>1, <4>2, <4>3
    <3> QED
      BY <2>4, <3>5, <3>6 DEF Descend, Targets
  <2>5. CASE Complete(t)
    <3> DEFINE entry == [module |-> Last(stack[t]).module, file |-> Last(stack[t]).file,
                         text |-> Last(stack[t]).text]
    <3>1. Last(stack[t]) \in Frames /\ Front(stack[t]) \in Seq(Frames)
      BY <2>5, FrameTypes DEF Complete
    <3>2. entry \in EntrySet
      BY <3>1 DEF Frames, EntrySet
    <3>3. Append(found[t], entry) \in Seq(EntrySet)
      BY <3>2
    <3>4. found' = [found EXCEPT ![t] = Append(@, entry)]
      BY <2>5 DEF Complete
    <3> HIDE DEF entry
    <3>5. found' \in [Threads -> Seq(EntrySet)]
      BY <3>3, <3>4
    <3>6. stack' \in [Threads -> Seq(Frames)]
      BY <2>5, <3>1 DEF Complete
    <3>7. /\ disk' = disk /\ live' = live /\ loaded' = loaded /\ temps' = temps /\ pc' = pc
          /\ call' = call /\ target' = target /\ seen' = seen /\ next' = next /\ result' = result
      BY <2>5 DEF Complete
    <3> QED
      BY ONLY TypeOK, <3>5, <3>6, <3>7, SMTT(30) DEF TypeOK
  <2>6. CASE Lookup(t)
    BY <2>6 DEF Lookup
  <2>7. CASE Build(t)
    BY <2>7 DEF Build
  <2>8. CASE Reject(t)
    BY <2>8 DEF Reject, Fail
  <2>9. CASE BinaryFails(t)
    BY <2>9 DEF BinaryFails
  <2>10. CASE Load(t)
    <3>1. PICK f \in Keyed : Redefine(f.module, f.text)
      BY <2>10, ProjectTypes DEF Load, Built
    <3>2. f.module \in Modules /\ f.text \in Texts
      BY DEF Keyed
    <3>3. live' \in [Modules -> [text : Texts \cup {NoFile, Torn}, stale : SUBSET Modules]]
      BY <3>1, <3>2, RedefineType
    <3> QED
      BY <2>10, <3>3 DEF Load
  <2>11. CASE LoadThrows(t)
    <3>1. PICK f \in Keyed : Redefine(f.module, Torn)
      BY <2>11, ProjectTypes DEF LoadThrows, Built
    <3>2. f.module \in Modules /\ f.text \in Texts
      BY DEF Keyed
    <3>3. live' \in [Modules -> [text : Texts \cup {NoFile, Torn}, stale : SUBSET Modules]]
      BY <3>1, <3>2, RedefineType
    <3> QED
      BY <2>11, <3>3 DEF LoadThrows, Fail
  <2>12. CASE NothingBuilt(t)
    BY <2>12 DEF NothingBuilt, Fail
  <2>13. CASE Publish(t)
    <3>1. Key(found[t]) \in Seq(Keyed)
      BY KeyTypes
    <3> QED
      BY <2>13, <3>1 DEF Publish
  <2>14. CASE Cleanup(t)
    BY <2>14 DEF Cleanup
  <2>15. CASE Return(t)
    <3>1. disk' \in [Files -> Texts \cup {NoFile}]
      BY <2>15 DEF Return
    <3>2. call' \in [Threads -> [entry : Files \cup {NoFile}, reload : BOOLEAN,
                                 text : Texts \cup {NoFile}]]
      BY <2>15 DEF Return, NoCall
    <3>3. stack' \in [Threads -> Seq(Frames)] /\ found' \in [Threads -> Seq(EntrySet)]
      BY <2>15 DEF Return
    <3> QED
      BY <2>15, <3>1, <3>2, <3>3 DEF Return
  <2> QED
    BY <1>4, <2>1, <2>2, <2>3, <2>4, <2>5, <2>6, <2>7, <2>8, <2>9, <2>10, <2>11,
       <2>12, <2>13, <2>14, <2>15 DEF Running
<1>5. CASE UNCHANGED vars
  BY <1>5 DEF vars
<1> QED
  BY <1>1, <1>2, <1>3, <1>4, <1>5 DEF Next

LEMMA TargetedStep ==
  ASSUME TypeOK, Walking, [Next]_vars
  PROVE  Walking'
<1> SUFFICES ASSUME NEW u \in Threads
             PROVE  Targeted(u)'
  BY DEF Walking
<1> USE DEF TypeOK, Goto, shared, locals, Targeted, Walking
<1>1. ASSUME Edit PROVE Targeted(u)'
  BY <1>1 DEF Edit
<1>2. ASSUME NEW t \in Threads, Require(t)
      PROVE  Targeted(u)'
  BY <1>2, TextsAssumption, FilesAssumption DEF Require, Targets
<1>3. ASSUME NEW t \in Threads, Eval(t)
      PROVE  Targeted(u)'
  <2>1. PICK s \in Snippets :
          call' = [call EXCEPT ![t] = [entry |-> s[1], reload |-> TRUE, text |-> s[2]]]
    BY <1>3 DEF Eval
  <2>2. s[1] \in Files
    BY TextsAssumption
  <2> QED
    BY <1>3, <2>1, <2>2 DEF Eval
<1>4. ASSUME NEW t \in Threads, Running(t)
      PROVE  Targeted(u)'
  <2>1. CASE Copy(t)
    BY <2>1, FilesAssumption DEF Copy, Targets
  <2>2. CASE Visit(t)
    BY <2>2 DEF Visit
  <2>3. CASE Descend(t)
    <3>1. Last(stack[t]) = stack[t][Len(stack[t])] /\ Last(stack[t]) \in Frames
      BY <2>3, FrameTypes DEF Descend
    <3> DEFINE top == stack[t][Len(stack[t])]
               m == Head(top.todo)
    <3>2. m \in Modules /\ top.file \in Files
      BY <2>3, <3>1 DEF Descend, Frames
    <3>3. [module |-> m, file |-> Resolve[top.file][m]] \in Targets
      <4>1. Resolve[top.file][m] \in Files
        BY <3>2, Resolved
      <4> HIDE DEF m, top
      <4> QED
        BY <3>2, <4>1 DEF Targets
    <3>4. /\ target' = [target EXCEPT ![t] = [module |-> m, file |-> Resolve[top.file][m]]]
          /\ pc' = [pc EXCEPT ![t] = "visit"] /\ call' = call
      BY <2>3 DEF Descend
    <3> HIDE DEF top, m
    <3> QED
      BY <3>3, <3>4
  <2>4. CASE ~(Copy(t) \/ Visit(t) \/ Descend(t))
    <3>1. pc'[u] \in {"copy", "visit", "slurp"} => pc'[u] = pc[u]
      BY <1>4, <2>4
         DEF Running, Slurp, Fail, Complete, Lookup, Build, Reject, BinaryFails, Load,
             LoadThrows, NothingBuilt, Publish, Cleanup, Return
    <3>2. pc'[u] \in {"copy", "visit", "slurp"} => call'[u] = call[u] /\ target'[u] = target[u]
      BY <1>4, <2>4
         DEF Running, Slurp, Fail, Complete, Lookup, Build, Reject, BinaryFails, Load,
             LoadThrows, NothingBuilt, Publish, Cleanup, Return
    <3> QED
      BY <3>1, <3>2
  <2> QED
    BY <2>1, <2>2, <2>3, <2>4
<1>5. CASE UNCHANGED vars
  BY <1>5 DEF vars
<1> QED
  BY <1>1, <1>2, <1>3, <1>4, <1>5 DEF Next

(* The variables of every thread stay in their ranges, for any threads,    *)
(* texts and edits: the cache, the namespaces and the locals of load.clj's *)
(* functions; the walk reads only files.                                   *)
THEOREM TypeCorrect == Spec => []TypeOK
<1>1. Init => TypeOK /\ Walking
  BY InitType DEF Init, Walking, Targeted
<1>2. TypeOK /\ Walking /\ [Next]_vars => TypeOK' /\ Walking'
  BY TypeStep, TargetedStep
<1> QED
  BY <1>1, <1>2, PTL DEF Spec

(* Whoever calls, fails or edits, the temporary projects that exist are    *)
(* those of the calls that are building or loading: none leaks, and none   *)
(* is deleted by another thread (load.clj:97-99, 113-115, 140).            *)
THEOREM NoTempLeaks == Spec => []TempsOwned
<1>1. Init => TempsOwned
  BY DEF Init, TempsOwned
<1>2. TypeOK /\ TempsOwned /\ [Next]_vars => TempsOwned'
  <2> SUFFICES ASSUME TypeOK, TempsOwned, [Next]_vars
               PROVE  TempsOwned'
    OBVIOUS
  <2> USE DEF TypeOK, TempsOwned, Goto, shared, locals
  <2>1. CASE Edit
    BY <2>1 DEF Edit
  <2>2. ASSUME NEW t \in Threads, Require(t) \/ Eval(t)
        PROVE  TempsOwned'
    BY <2>2 DEF Require, Eval
  <2>3. ASSUME NEW t \in Threads, Running(t)
        PROVE  TempsOwned'
    <3>1. CASE Copy(t) \/ Visit(t) \/ Slurp(t) \/ Descend(t) \/ Complete(t)
      BY <3>1 DEF Copy, Visit, Slurp, Fail, Descend, Complete
    <3>2. CASE Lookup(t)
      BY <3>2 DEF Lookup
    <3>3. CASE Build(t) \/ Reject(t) \/ BinaryFails(t)
      BY <3>3 DEF Build, Reject, Fail, BinaryFails
    <3>4. CASE Load(t)
      BY <3>4 DEF Load
    <3>5. CASE LoadThrows(t) \/ NothingBuilt(t)
      BY <3>5 DEF LoadThrows, NothingBuilt, Fail
    <3>6. CASE Publish(t) \/ Cleanup(t) \/ Return(t)
      BY <3>6 DEF Publish, Cleanup, Return
    <3> QED
      BY <2>3, <3>1, <3>2, <3>3, <3>4, <3>5, <3>6 DEF Running
  <2>4. CASE UNCHANGED vars
    BY <2>4 DEF vars
  <2> QED
    BY <2>1, <2>2, <2>3, <2>4 DEF Next
<1> QED
  BY <1>1, <1>2, TypeCorrect, PTL DEF Spec

-----------------------------------------------------------------------------
(* No step of any thread takes a namespace away.                           *)
LiveGrows == \A n \in Modules : live[n] # Unloaded => live'[n] # Unloaded

LEMMA LiveStep ==
  ASSUME TypeOK, [Next]_vars
  PROVE  LiveGrows
<1> USE DEF shared, locals
<1>1. ASSUME NEW t \in Threads, Load(t) \/ LoadThrows(t)
      PROVE  LiveGrows
  <2>1. PICK f \in Keyed : Redefine(f.module, f.text) \/ Redefine(f.module, Torn)
    BY <1>1, ProjectTypes DEF Load, LoadThrows, Built
  <2>2. \E m \in Modules, text \in Texts \cup {Torn} : Redefine(m, text)
    BY <2>1 DEF Keyed
  <2> QED
    BY <2>2, RedefineKeeps DEF LiveGrows
<1>2. CASE UNCHANGED live
  BY <1>2 DEF LiveGrows
<1> QED
  BY <1>1, <1>2
     DEF Next, Running, Edit, Require, Eval, Copy, Visit, Slurp, Descend, Complete,
         Lookup, Build, Reject, BinaryFails, NothingBuilt, Publish, Cleanup, Return, vars

(* What a thread knows of its load survives the steps of all the others.   *)
LEMMA ProgressKept ==
  ASSUME TypeOK, NEW u \in Threads, Progress(u), LiveGrows,
         pc'[u] = pc[u], found'[u] = found[u], next'[u] = next[u]
  PROVE  Progress(u)'
<1>1. ASSUME NEW f \in Project(found[u]), Entered(f)
      PROVE  Entered(f)'
  <2>1. f \in Keyed
    BY ProjectTypes
  <2> QED
    BY <1>1, <2>1 DEF Entered, LiveGrows, Keyed
<1> QED
  BY <1>1 DEF Progress, Entered

LEMMA LoadProgress ==
  ASSUME TypeOK, NEW u \in Threads, Progress(u), LiveGrows, Load(u)
  PROVE  Progress(u)'
<1>1. PICK e \in Built(u) : Loadable(e) /\ Redefine(e.module, e.text)
  BY DEF Load
<1>2. /\ pc'[u] = "load" /\ found' = found /\ next'[u] = next[u] + 1
      /\ Compiles(Project(found[u])) /\ next[u] \in Nat /\ next[u] \in 1..Len(found[u])
  BY DEF TypeOK, Load, Progress
<1>3. e \in Project(found[u]) /\ e.module = found[u][next[u]].module /\ e \in Keyed
  BY <1>1, ProjectTypes DEF Built
<1>4. e.text \notin Faulty /\ live'[e.module] # Unloaded
  BY <1>1, <1>3, RedefineKeeps DEF Loadable, Keyed
<1>5. ASSUME NEW f \in Project(found[u]), f.module = e.module
      PROVE  f = e
  BY <1>3, <1>5, OneBuilt DEF TypeOK
<1>6. ASSUME NEW i \in 1..Len(found[u]), i < next[u] + 1,
             NEW f \in Project(found[u]), f.module = found[u][i].module
      PROVE  f.text \notin Faulty /\ live'[f.module] # Unloaded
  <2>1. CASE i = next[u]
    BY <1>3, <1>4, <1>5, <1>6, <2>1
  <2>2. CASE i < next[u]
    <3>1. f \in Keyed /\ Entered(f)
      BY <1>2, <1>6, <2>2, ProjectTypes DEF Progress, Load
    <3> QED
      BY <3>1 DEF Entered, LiveGrows, Keyed
  <2> QED
    BY <1>2, <1>6, <2>1, <2>2
<1> QED
  BY <1>2, <1>6 DEF Progress, Entered

LEMMA ProgressStep ==
  ASSUME TypeOK, Progressing, [Next]_vars
  PROVE  Progressing'
<1> SUFFICES ASSUME NEW u \in Threads
             PROVE  Progress(u)'
  BY DEF Progressing
<1> USE DEF TypeOK, Goto, shared, locals
<1>1. LiveGrows /\ Progress(u)
  BY LiveStep DEF Progressing
<1>2. CASE Edit \/ UNCHANGED vars
  BY <1>1, <1>2, ProgressKept DEF Edit, vars
<1>3. ASSUME NEW t \in Threads, t # u, Require(t) \/ Eval(t) \/ Running(t)
      PROVE  Progress(u)'
  <2>1. pc'[u] = pc[u] /\ found'[u] = found[u] /\ next'[u] = next[u]
    BY <1>3
       DEF Running, Require, Eval, Copy, Visit, Slurp, Fail, Descend, Complete, Lookup,
           Build, Reject, BinaryFails, Load, LoadThrows, NothingBuilt, Publish, Cleanup, Return
  <2> QED
    BY <1>1, <2>1, ProgressKept
<1>4. CASE Load(u)
  BY <1>1, <1>4, LoadProgress
<1>5. CASE Build(u)
  BY <1>1, <1>5 DEF Build, Progress
<1>6. CASE \/ Require(u) \/ Eval(u) \/ Copy(u) \/ Visit(u) \/ Slurp(u)
           \/ Descend(u) \/ Complete(u) \/ Lookup(u)
  <2>1. next'[u] = 1 /\ pc'[u] # "load"
    BY <1>1, <1>6
       DEF Progress, Require, Eval, Copy, Visit, Slurp, Fail, Descend, Complete, Lookup
  <2> QED
    BY <2>1 DEF Progress
<1>7. CASE \/ Reject(u) \/ BinaryFails(u) \/ LoadThrows(u) \/ NothingBuilt(u)
           \/ Publish(u) \/ Cleanup(u)
  <2>1. pc'[u] \in {"return", "cleanup"}
    BY <1>7 DEF Reject, BinaryFails, LoadThrows, NothingBuilt, Publish, Cleanup, Fail
  <2> QED
    BY <2>1 DEF Progress
<1>8. CASE Return(u)
  BY <1>8 DEF Return, Progress
<1> QED
  BY <1>2, <1>3, <1>4, <1>5, <1>6, <1>7, <1>8 DEF Next, Running

LEMMA CachedStep ==
  ASSUME TypeOK, Progressing, CachedWasLoaded, [Next]_vars
  PROVE  CachedWasLoaded'
<1> USE DEF shared, locals
<1>1. LiveGrows
  BY LiveStep
<1>2. ASSUME NEW key \in loaded
      PROVE  /\ key # <<>> /\ Compiles(Project(key))
             /\ \A f \in Project(key) : f.text \notin Faulty /\ live'[f.module] # Unloaded
  <2>1. \A f \in Project(key) : f \in Keyed
    BY ProjectTypes
  <2> QED
    BY <1>1, <2>1 DEF CachedWasLoaded, LiveGrows, Keyed
<1>3. ASSUME NEW t \in Threads, Publish(t)
      PROVE  CachedWasLoaded'
  <2> DEFINE key == Key(found[t])
  <2>1. found[t] # <<>> /\ Compiles(Project(found[t])) /\ found[t] \in Seq(EntrySet)
    BY <1>3 DEF Publish, Progressing, Progress, TypeOK
  <2>2. key # <<>> /\ Project(key) = Project(found[t])
    <3>1. Len(found[t]) # 0
      BY <2>1
    <3> QED
      BY <2>1, <3>1, KeyTypes
  <2> HIDE DEF key
  <2>3. ASSUME NEW f \in Project(found[t])
        PROVE  f.text \notin Faulty /\ live'[f.module] # Unloaded
    <3>1. PICK i \in DOMAIN found[t] : f = [module |-> found[t][i].module, text |-> found[t][i].text]
      BY Projected
    <3>2. i \in 1..Len(found[t]) /\ i < next[t]
      BY <1>3, <2>1 DEF TypeOK, Publish
    <3>3. f.module = found[t][i].module
      BY <3>1
    <3>4. Entered(f)
      BY <1>3, <3>2, <3>3 DEF Publish, Progressing, Progress
    <3> QED
      BY <1>3, <3>4 DEF Publish, Entered
  <2>4. loaded' = loaded \cup {key}
    BY <1>3 DEF Publish, key
  <2> QED
    BY <1>2, <2>1, <2>2, <2>3, <2>4 DEF CachedWasLoaded
<1>4. CASE UNCHANGED loaded
  BY <1>2, <1>4 DEF CachedWasLoaded
<1> QED
  BY <1>3, <1>4
     DEF Next, Running, Edit, Require, Eval, Copy, Visit, Slurp, Descend, Complete,
         Lookup, Build, Reject, BinaryFails, Load, LoadThrows, NothingBuilt, Cleanup,
         Return, vars

(* A failed call leaves nothing in the cache: every key was accepted by    *)
(* the compiler and loaded to its end, and its namespaces are still there, *)
(* however the calls of other threads fail in the meantime                 *)
(* (load.clj:128-140).                                                     *)
THEOREM CacheIsHonest == Spec => []CachedWasLoaded
<1>1. Init => Progressing /\ CachedWasLoaded
  BY DEF Init, Progressing, Progress, CachedWasLoaded
<1>2. TypeOK /\ Progressing /\ CachedWasLoaded /\ [Next]_vars
        => Progressing' /\ CachedWasLoaded'
  BY ProgressStep, CachedStep
<1> QED
  BY <1>1, <1>2, TypeCorrect, PTL DEF Spec
-----------------------------------------------------------------------------
(* A call that is about to copy is one of the snippets.                    *)
Copying == \A t \in Threads : pc[t] = "copy" => <<call[t].entry, call[t].text>> \in Snippets

LEMMA CopyingStep ==
  ASSUME TypeOK, Copying, [Next]_vars
  PROVE  Copying'
<1> SUFFICES ASSUME NEW u \in Threads, pc'[u] = "copy"
             PROVE  <<call'[u].entry, call'[u].text>> \in Snippets
  BY DEF Copying
<1> USE DEF TypeOK, Goto, shared, locals
<1>1. ASSUME NEW t \in Threads, Eval(t)
      PROVE  <<call'[u].entry, call'[u].text>> \in Snippets
  <2>1. PICK s \in Snippets :
          call' = [call EXCEPT ![t] = [entry |-> s[1], reload |-> TRUE, text |-> s[2]]]
    BY <1>1 DEF Eval
  <2>2. s = <<s[1], s[2]>>
    BY TextsAssumption
  <2>3. CASE u = t
    BY <2>1, <2>2, <2>3
  <2>4. CASE u # t
    BY <1>1, <2>1, <2>4 DEF Eval, Copying
  <2> QED
    BY <2>3, <2>4
<1>2. CASE pc[u] = "copy" /\ call'[u] = call[u]
  BY <1>2 DEF Copying
<1>3. CASE Edit \/ UNCHANGED vars
  BY <1>2, <1>3 DEF Edit, vars
<1>4. ASSUME NEW t \in Threads, Require(t) \/ Running(t)
      PROVE  pc[u] = "copy" /\ call'[u] = call[u]
  BY <1>4
     DEF Running, Require, Copy, Visit, Slurp, Fail, Descend, Complete, Lookup, Build, Reject,
         BinaryFails, Load, LoadThrows, NothingBuilt, Publish, Cleanup, Return
<1> QED
  BY <1>1, <1>2, <1>3, <1>4 DEF Next

(* A snippet's file exists only while a call that wrote it is under way.   *)
SnippetsHeld ==
  \A s \in Snippets : disk[s[1]] # NoFile =>
    \E t \in Threads : call[t].entry = s[1] /\ IsEval(t) /\ pc[t] \notin {"idle", "copy"}

LEMMA HeldStep ==
  ASSUME TypeOK, Copying, SnippetsHeld, [Next]_vars
  PROVE  SnippetsHeld'
<1> SUFFICES ASSUME NEW s \in Snippets, disk'[s[1]] # NoFile
             PROVE  \E t \in Threads : call'[t].entry = s[1] /\ call'[t].text # NoFile
                                        /\ pc'[t] \notin {"idle", "copy"}
  BY DEF SnippetsHeld, IsEval
<1> DEFINE Holds(t) == call[t].entry = s[1] /\ call[t].text # NoFile /\ pc[t] \notin {"idle", "copy"}
<1> USE DEF TypeOK, Goto, shared, locals
<1>1. s[1] \in Files /\ s[2] \in Texts
  BY TextsAssumption
<1>2. disk[s[1]] # NoFile => \E t \in Threads : Holds(t)
  BY DEF SnippetsHeld, IsEval
<1>3. CASE Edit
  <2>1. disk'[s[1]] = disk[s[1]]
    <3>1. PICK e \in Edits : disk' = [disk EXCEPT ![e[1]] = e[3]]
      BY <1>3 DEF Edit
    <3> QED
      BY <1>1, <3>1, SnippetsAssumption
  <2> QED
    BY <1>2, <1>3, <2>1 DEF Edit
<1>4. ASSUME NEW t \in Threads, Copy(t)
      PROVE  \E u \in Threads : Holds(u)'
  <2>1. CASE call[t].entry = s[1]
    <3>1. call[t].text # NoFile
      BY <1>4, TextsAssumption DEF Copy, Copying
    <3> QED
      BY <1>4, <2>1, <3>1 DEF Copy
  <2>2. CASE call[t].entry # s[1]
    <3>1. disk'[s[1]] = disk[s[1]]
      BY <1>1, <1>4, <2>2 DEF Copy
    <3>2. PICK u \in Threads : Holds(u)
      BY <1>2, <3>1
    <3> QED
      BY <1>4, <3>2 DEF Copy
  <2> QED
    BY <2>1, <2>2
<1>5. ASSUME NEW t \in Threads, Return(t)
      PROVE  \E u \in Threads : Holds(u)'
  <2>1. PICK u \in Threads : Holds(u)
    BY <1>1, <1>2, <1>5 DEF Return
  <2>2. u # t
    BY <1>1, <1>5, <2>1 DEF Return, IsEval
  <2> QED
    BY <1>5, <2>1, <2>2 DEF Return
<1>6. ASSUME NEW t \in Threads, Require(t) \/ Eval(t)
      PROVE  \E u \in Threads : Holds(u)'
  <2>1. PICK u \in Threads : Holds(u)
    BY <1>2, <1>6 DEF Require, Eval
  <2> QED
    BY <1>6, <2>1 DEF Require, Eval
<1>7. ASSUME NEW t \in Threads, Running(t), ~Copy(t), ~Return(t)
      PROVE  \E u \in Threads : Holds(u)'
  <2>1. disk' = disk /\ call' = call
    BY <1>7
       DEF Running, Visit, Slurp, Descend, Complete, Lookup, Build, Reject,
           BinaryFails, Load, LoadThrows, NothingBuilt, Publish, Cleanup
  <2>2. PICK u \in Threads : Holds(u)
    BY <1>2, <2>1
  <2>3. pc'[u] \notin {"idle", "copy"}
    BY <1>7, <2>2
       DEF Running, Visit, Slurp, Fail, Descend, Complete, Lookup, Build, Reject,
           BinaryFails, Load, LoadThrows, NothingBuilt, Publish, Cleanup
  <2> QED
    BY <2>1, <2>2, <2>3
<1>8. CASE UNCHANGED vars
  BY <1>2, <1>8 DEF vars
<1> QED
  BY <1>3, <1>4, <1>5, <1>6, <1>7, <1>8 DEF Next

(* However many threads evaluate snippets, of the same name or not, and    *)
(* however their calls end, no snippet file is left (load.clj:152-156).    *)
THEOREM NoSnippetStays == Spec => []SnippetsDeleted
<1>1. Init => Copying /\ SnippetsHeld
  BY SnippetsAssumption DEF Init, Copying, SnippetsHeld
<1>2. TypeOK /\ Copying /\ SnippetsHeld /\ [Next]_vars => Copying' /\ SnippetsHeld'
  BY CopyingStep, HeldStep
<1>3. SnippetsHeld => SnippetsDeleted
  BY DEF SnippetsHeld, SnippetsDeleted
<1> QED
  BY <1>1, <1>2, <1>3, TypeCorrect, PTL DEF Spec
-----------------------------------------------------------------------------
(* The files a walk has read: the complete ones in `found`, the open ones  *)
(* on the stack.                                                           *)
Paths(s) == {x.file : x \in Elements(s)}
Entry(f) == [module |-> f.module, file |-> f.file, text |-> f.text]

(* No file is read twice in a walk, and those that are read are seen.      *)
Single(s) == \A i, j \in 1..Len(s) : s[i].file = s[j].file => i = j
Apart(t) ==
  /\ Single(found[t]) /\ Single(stack[t])
  /\ Paths(found[t]) \cap Paths(stack[t]) = {}
  /\ pc[t] = "slurp" => target[t].file \notin Paths(found[t]) \cup Paths(stack[t])

SeenIsRead(t) ==
  seen[t] = Paths(found[t]) \cup Paths(stack[t]) \cup (IF pc[t] = "slurp" THEN {target[t].file} ELSE {})
Reading(t) ==
  /\ pc[t] \in {"idle", "copy"} => found[t] = <<>> /\ stack[t] = <<>> /\ seen[t] = {}
  /\ pc[t] \in {"visit", "slurp", "walk", "build"} => SeenIsRead(t)
  /\ Apart(t)
Readings == \A t \in Threads : Reading(t)

(* The files of a walk are files with a text.                              *)
LEMMA Walked ==
  ASSUME TypeOK, NEW t \in Threads
  PROVE  /\ found[t] \in Seq(EntrySet) /\ stack[t] \in Seq(Frames)
         /\ Len(found[t]) \in Nat /\ Len(stack[t]) \in Nat
         /\ \A i \in 1..Len(found[t]) :
              /\ found[t][i] \in EntrySet /\ found[t][i].module \in Modules
              /\ found[t][i].file \in Files /\ found[t][i].text \in Texts
         /\ \A k \in 1..Len(stack[t]) :
              /\ stack[t][k] \in Frames /\ stack[t][k].module \in Modules
              /\ stack[t][k].file \in Files
              /\ stack[t][k].text \in Texts /\ stack[t][k].todo \in Seq(Modules)
<1>1. found[t] \in Seq(EntrySet) /\ stack[t] \in Seq(Frames)
  BY DEF TypeOK
<1>2. Len(found[t]) \in Nat /\ Len(stack[t]) \in Nat
  BY <1>1
<1>3. \A i \in 1..Len(found[t]) : found[t][i] \in EntrySet
  BY <1>1
<1>4. \A k \in 1..Len(stack[t]) : stack[t][k] \in Frames
  BY <1>1
<1> QED
  BY <1>1, <1>2, <1>3, <1>4 DEF EntrySet, Frames

(* What a frame has still to do is no part of what it read.                *)
LEMMA SameFiles ==
  ASSUME NEW r, NEW s, Len(r) = Len(s),
         \A k \in 1..Len(s) : Entry(r[k]) = Entry(s[k])
  PROVE  /\ Paths(r) = Paths(s)
         /\ {Entry(f) : f \in Elements(r)} = {Entry(f) : f \in Elements(s)}
<1>1. Elements(r) = {r[k] : k \in 1..Len(s)} /\ Elements(s) = {s[k] : k \in 1..Len(s)}
  BY DEF Elements
<1>2. {f.file : f \in Elements(r)} = {f.file : f \in Elements(s)}
  <2>1. \A k \in 1..Len(s) : r[k].file = s[k].file
    <3>1. \A k \in 1..Len(s) : Entry(r[k]).file = r[k].file /\ Entry(s[k]).file = s[k].file
      BY DEF Entry
    <3> QED
      BY <3>1
  <2> QED
    BY <1>1, <2>1
<1>3. {Entry(f) : f \in Elements(r)} = {Entry(f) : f \in Elements(s)}
  BY <1>1
<1> QED
  BY <1>2, <1>3 DEF Paths

LEMMA PushSingle ==
  ASSUME NEW S, NEW s \in Seq(S), NEW x \in S, Single(s), x.file \notin Paths(s)
  PROVE  Single(Append(s, x)) /\ Paths(Append(s, x)) = Paths(s) \cup {x.file}
<1> DEFINE n == Len(s)
           r == Append(s, x)
<1>1. Len(r) = n + 1 /\ n \in Nat /\ r[n + 1] = x /\ \A i \in 1..n : r[i] = s[i]
  OBVIOUS
<1>2. Elements(r) = Elements(s) \cup {x}
  BY PushElements
<1> HIDE DEF r
<1>3. Paths(r) = Paths(s) \cup {x.file}
  BY <1>2 DEF Paths
<1>4. \A i \in 1..n : s[i].file # x.file
  BY DEF Paths, Elements
<1>5. ASSUME NEW i \in 1..Len(r), NEW j \in 1..Len(r), r[i].file = r[j].file
      PROVE  i = j
  <2>1. (i \in 1..n \/ i = n + 1) /\ (j \in 1..n \/ j = n + 1)
    BY <1>1
  <2> QED
    BY <1>1, <1>4, <1>5, <2>1 DEF Single
<1> QED
  BY <1>3, <1>5 DEF Single, r

LEMMA SlurpReading ==
  ASSUME TypeOK, Walking, NEW u \in Threads, Reading(u), Slurp(u)
  PROVE  Reading(u)'
<1> USE DEF TypeOK, Goto, shared
<1>1. target[u] \in Targets /\ target[u].file \notin Paths(found[u]) \cup Paths(stack[u]) /\ SeenIsRead(u)
      /\ Apart(u) /\ found' = found /\ seen' = seen
  BY DEF Slurp, Walking, Targeted, Reading, Apart
<1>2. CASE disk[target[u].file] = NoFile
  <2>1. pc'[u] = "return" /\ stack' = stack
    BY <1>2 DEF Slurp, Fail
  <2> QED
    BY <1>1, <2>1 DEF Reading, Apart
<1>3. CASE disk[target[u].file] # NoFile
  <2> DEFINE frame == [module |-> target[u].module, file |-> target[u].file, text |-> disk[target[u].file],
                       todo |-> Imports[disk[target[u].file]]]
  <2>1. frame \in Frames /\ stack[u] \in Seq(Frames) /\ frame.file = target[u].file
    BY <1>1, <1>3, TextsAssumption DEF Frames, Targets
  <2>2. stack'[u] = Append(stack[u], frame) /\ pc'[u] = "walk"
    BY <1>3 DEF Slurp
  <2> HIDE DEF frame
  <2>3. Single(Append(stack[u], frame))
        /\ Paths(Append(stack[u], frame)) = Paths(stack[u]) \cup {target[u].file}
    BY <1>1, <2>1, PushSingle DEF Apart
  <2>4. Apart(u)'
    BY <1>1, <2>2, <2>3 DEF Apart
  <2>5. SeenIsRead(u)'
    <3>1. seen[u] = Paths(found[u]) \cup Paths(stack[u]) \cup {target[u].file}
      BY <1>1 DEF SeenIsRead, Slurp
    <3> QED
      BY <1>1, <2>2, <2>3, <3>1 DEF SeenIsRead
  <2> QED
    BY <2>2, <2>4, <2>5 DEF Reading
<1> QED
  BY <1>2, <1>3

LEMMA DescendReading ==
  ASSUME TypeOK, NEW u \in Threads, Reading(u), Descend(u)
  PROVE  Reading(u)'
<1> DEFINE n == Len(stack[u])
<1> USE DEF TypeOK, Goto, shared
<1>1. /\ found' = found /\ seen' = seen /\ pc[u] = "walk" /\ pc'[u] = "visit"
      /\ SeenIsRead(u) /\ Apart(u)
  BY DEF Descend, Reading
<1>2. stack[u] \in Seq(Frames) /\ n \in Nat \ {0} /\ stack[u][n] \in Frames
  BY FrameTypes DEF Descend
<1>3. stack'[u] = [stack[u] EXCEPT ![n] = [stack[u][n] EXCEPT !.todo = Tail(@)]]
  BY <1>2 DEF Descend
<1>4. /\ Len(stack'[u]) = n
      /\ \A k \in 1..n : Entry(stack'[u][k]) = Entry(stack[u][k])
                         /\ stack'[u][k].file = stack[u][k].file
  <2>1. /\ Len(stack'[u]) = n
        /\ \A k \in 1..n :
             stack'[u][k] = IF k = n THEN [stack[u][n] EXCEPT !.todo = Tail(@)] ELSE stack[u][k]
    BY ONLY <1>2, <1>3
  <2>2. /\ [stack[u][n] EXCEPT !.todo = Tail(@)].module = stack[u][n].module
        /\ [stack[u][n] EXCEPT !.todo = Tail(@)].file = stack[u][n].file
        /\ [stack[u][n] EXCEPT !.todo = Tail(@)].text = stack[u][n].text
    BY ONLY <1>2 DEF Frames
  <2>3. \A k \in 1..n : /\ stack'[u][k].module = stack[u][k].module
                        /\ stack'[u][k].file = stack[u][k].file
                        /\ stack'[u][k].text = stack[u][k].text
    BY ONLY <2>1, <2>2
  <2> QED
    BY ONLY <2>1, <2>3 DEF Entry
<1>5. Paths(stack'[u]) = Paths(stack[u])
  BY <1>4, SameFiles
<1>6. Apart(u)'
  BY <1>1, <1>4, <1>5 DEF Apart, Single
<1>7. SeenIsRead(u)'
  BY <1>1, <1>5 DEF SeenIsRead
<1> QED
  BY <1>1, <1>6, <1>7 DEF Reading

LEMMA CompleteReading ==
  ASSUME TypeOK, NEW u \in Threads, Reading(u), Complete(u)
  PROVE  Reading(u)'
<1> DEFINE n == Len(stack[u])
           top == stack[u][n]
           entry == [module |-> top.module, file |-> top.file, text |-> top.text]
<1> USE DEF TypeOK
<1>1. stack[u] \in Seq(Frames) /\ stack[u] # <<>> /\ found[u] \in Seq(EntrySet)
      /\ pc' = pc /\ pc[u] = "walk" /\ seen' = seen /\ SeenIsRead(u) /\ Apart(u)
  BY DEF Complete, Reading
<1>2. /\ n \in Nat \ {0} /\ Last(stack[u]) = top /\ Len(Front(stack[u])) = n - 1
      /\ \A k \in 1..n-1 : Front(stack[u])[k] = stack[u][k]
      /\ top \in Frames
  <2>1. /\ n \in Nat \ {0} /\ Last(stack[u]) = stack[u][n] /\ Len(Front(stack[u])) = n - 1
        /\ \A k \in 1..n-1 : Front(stack[u])[k] = stack[u][k]
        /\ Last(stack[u]) \in Frames
    BY <1>1, FrontAndLast
  <2> QED
    BY <2>1
<1>3. entry \in EntrySet /\ entry.file = top.file
  BY <1>2 DEF Frames, EntrySet
<1>4. found'[u] = Append(found[u], entry) /\ stack'[u] = Front(stack[u])
  BY <1>2 DEF Complete
<1>5. Elements(stack[u]) = Elements(stack'[u]) \cup {top}
  BY <1>1, <1>2, <1>4, PopElements
<1> HIDE DEF top, entry
<1>6. Paths(stack[u]) = Paths(stack'[u]) \cup {top.file}
  BY <1>5 DEF Paths
<1>7. top.file \notin Paths(stack'[u]) /\ Single(stack'[u])
  <2>1. \A k \in 1..n-1 : k \in 1..n /\ k # n /\ stack'[u][k] = stack[u][k]
    BY <1>2, <1>4
  <2>2. n \in 1..n /\ Len(stack'[u]) = n - 1
    BY <1>2, <1>4
  <2>3. \A k \in 1..n-1 : stack'[u][k].file # top.file
    BY <1>1, <2>1, <2>2 DEF Apart, Single, top
  <2>4. top.file \notin Paths(stack'[u])
    BY ONLY <2>2, <2>3 DEF Paths, Elements
  <2>5. Single(stack'[u])
    BY <1>1, <2>1, <2>2 DEF Apart, Single
  <2> QED
    BY <2>4, <2>5
<1>8. top.file \notin Paths(found[u])
  BY <1>1, <1>6 DEF Apart
<1>9. Single(Append(found[u], entry))
      /\ Paths(Append(found[u], entry)) = Paths(found[u]) \cup {top.file}
  BY <1>1, <1>3, <1>8, PushSingle DEF Apart
<1>10. Apart(u)'
  BY <1>1, <1>4, <1>6, <1>7, <1>8, <1>9 DEF Apart
<1>11. SeenIsRead(u)'
  BY <1>1, <1>4, <1>6, <1>9 DEF SeenIsRead
<1> QED
  BY <1>1, <1>10, <1>11 DEF Reading

LEMMA InitReading == Init => Readings
BY DEF Init, Readings, Reading, Apart, Single, Paths, Elements

LEMMA ReadingStep ==
  ASSUME TypeOK, Walking, Readings, [Next]_vars
  PROVE  Readings'
<1> SUFFICES ASSUME NEW u \in Threads
             PROVE  Reading(u)'
  BY DEF Readings
<1> USE DEF TypeOK, Goto, shared, locals
<1>1. Reading(u)
  BY DEF Readings
<1>2. ASSUME found'[u] = found[u], stack'[u] = stack[u], seen'[u] = seen[u],
             pc'[u] = pc[u] /\ target'[u] = target[u]
      PROVE  Reading(u)'
  BY <1>1, <1>2 DEF Reading, Apart, SeenIsRead
<1>3. CASE Edit \/ UNCHANGED vars
  BY <1>2, <1>3 DEF Edit, vars
<1>4. ASSUME NEW t \in Threads, t # u, Require(t) \/ Eval(t) \/ Running(t)
      PROVE  Reading(u)'
  <2>1. /\ pc'[u] = pc[u] /\ found'[u] = found[u] /\ stack'[u] = stack[u]
        /\ target'[u] = target[u] /\ seen'[u] = seen[u]
    BY <1>4
       DEF Running, Require, Eval, Copy, Visit, Slurp, Fail, Descend, Complete, Lookup,
           Build, Reject, BinaryFails, Load, LoadThrows, NothingBuilt, Publish, Cleanup, Return
  <2> QED
    BY <1>2, <2>1
<1>5. CASE Require(u) \/ Eval(u) \/ Copy(u) \/ Return(u)
  <2>1. /\ found'[u] = <<>> /\ stack'[u] = <<>> /\ seen'[u] = {}
        /\ pc'[u] \in {"idle", "copy", "visit"}
    BY <1>1, <1>5 DEF Require, Eval, Copy, Return, Reading
  <2>2. Paths(<<>>) = {} /\ Single(<<>>)
    BY DEF Paths, Elements, Single
  <2> QED
    BY <2>1, <2>2 DEF Reading, Apart, SeenIsRead
<1>6. CASE Visit(u)
  <2>1. /\ found' = found /\ stack' = stack /\ target' = target
        /\ pc[u] = "visit" /\ SeenIsRead(u) /\ Apart(u)
        /\ \/ pc'[u] = "slurp" /\ target[u].file \notin seen[u] /\ seen'[u] = seen[u] \cup {target[u].file}
           \/ pc'[u] = "walk" /\ seen'[u] = seen[u]
    BY <1>1, <1>6 DEF Visit, Reading
  <2>2. seen[u] = Paths(found[u]) \cup Paths(stack[u])
    BY <2>1 DEF SeenIsRead
  <2> QED
    BY <2>1, <2>2 DEF Apart, Reading, SeenIsRead
<1>7. CASE \/ Lookup(u) \/ Build(u) \/ Reject(u) \/ BinaryFails(u) \/ Load(u)
           \/ LoadThrows(u) \/ NothingBuilt(u) \/ Publish(u) \/ Cleanup(u)
  <2>1. /\ found' = found /\ stack' = stack /\ seen' = seen
        /\ pc'[u] \in {"build", "load", "cleanup", "return"}
        /\ pc'[u] = "build" => pc[u] = "walk"
    BY <1>7
       DEF Lookup, Build, Reject, BinaryFails, Load, LoadThrows, NothingBuilt, Publish, Cleanup, Fail
  <2> QED
    BY <1>1, <2>1 DEF Reading, Apart, SeenIsRead
<1> QED
  BY <1>1, <1>3, <1>4, <1>5, <1>6, <1>7, SlurpReading, DescendReading, CompleteReading
     DEF Next, Running

-----------------------------------------------------------------------------
(* The files a walk has read, the complete ones and the open ones.         *)
Parts(t) == Elements(found[t]) \cup {Entry(f) : f \in Elements(stack[t])}

LEMMA PartTypes ==
  ASSUME TypeOK, NEW t \in Threads
  PROVE  /\ \A x \in Parts(t) : /\ x \in EntrySet /\ x.module \in Modules
                                /\ x.file \in Files /\ x.text \in Texts
         /\ \A i \in 1..Len(found[t]) : found[t][i] \in Parts(t)
         /\ \A k \in 1..Len(stack[t]) : Entry(stack[t][k]) \in Parts(t)
<1>1. Elements(found[t]) \subseteq EntrySet
  BY Walked DEF Elements
<1>2. \A f \in Elements(stack[t]) : Entry(f) \in EntrySet
  BY Walked DEF Elements, Entry, EntrySet
<1>3. Parts(t) \subseteq EntrySet
  BY <1>1, <1>2 DEF Parts
<1>4. /\ \A i \in 1..Len(found[t]) : found[t][i] \in Elements(found[t])
      /\ \A k \in 1..Len(stack[t]) : stack[t][k] \in Elements(stack[t])
  BY DEF Elements
<1> QED
  BY <1>3, <1>4 DEF Parts, EntrySet

(* What walking and looking up do to the files read.                       *)
LEMMA PartsKept ==
  ASSUME TypeOK, NEW u \in Threads,
         Descend(u) \/ Complete(u) \/ (found'[u] = found[u] /\ stack'[u] = stack[u])
  PROVE  Parts(u)' = Parts(u)
<1> DEFINE n == Len(stack[u])
           top == stack[u][n]
<1> USE DEF TypeOK
<1>1. CASE found'[u] = found[u] /\ stack'[u] = stack[u]
  BY <1>1 DEF Parts
<1>2. CASE Descend(u)
  <2>1. /\ n \in Nat \ {0} /\ stack[u] \in Seq(Frames) /\ top \in Frames
        /\ found' = found /\ stack' = [stack EXCEPT ![u][n].todo = Tail(@)]
    BY <1>2, FrameTypes DEF Descend
  <2>2. stack'[u] = [stack[u] EXCEPT ![n] = [top EXCEPT !.todo = Tail(@)]]
    BY <2>1
  <2>3. /\ Len(stack'[u]) = n
        /\ \A k \in 1..n : Entry(stack'[u][k]) = Entry(stack[u][k])
    BY <2>1, <2>2 DEF Frames, Entry
  <2> QED
    BY <2>1, <2>3, SameFiles DEF Parts
<1>3. CASE Complete(u)
  <2>1. stack[u] \in Seq(Frames) /\ stack[u] # <<>> /\ found[u] \in Seq(EntrySet)
    BY <1>3 DEF Complete
  <2>2. Last(stack[u]) = top /\ top \in Frames
        /\ Elements(stack[u]) = Elements(Front(stack[u])) \cup {top}
    <3>1. Last(stack[u]) = top /\ Last(stack[u]) \in Frames
      BY <2>1, FrontAndLast
    <3>2. Elements(stack[u]) = Elements(Front(stack[u])) \cup {Last(stack[u])}
      BY <2>1, PopElements
    <3> QED
      BY <3>1, <3>2
  <2>3. Entry(top) \in EntrySet
    BY <2>2 DEF Entry, EntrySet, Frames
  <2>4. found'[u] = Append(found[u], Entry(top)) /\ stack'[u] = Front(stack[u])
    BY <1>3, <2>2 DEF Complete, Entry
  <2>5. Elements(found'[u]) = Elements(found[u]) \cup {Entry(top)}
    BY <2>1, <2>3, <2>4, PushElements
  <2> HIDE DEF top
  <2> QED
    BY <2>2, <2>4, <2>5 DEF Parts
<1> QED
  BY <1>1, <1>2, <1>3

LEMMA SlurpParts ==
  ASSUME TypeOK, Walking, NEW u \in Threads, Slurp(u), disk[target[u].file] # NoFile
  PROVE  Parts(u)' = Parts(u) \cup {[module |-> target[u].module, file |-> target[u].file,
                                      text |-> disk[target[u].file]]}
<1> DEFINE frame == [module |-> target[u].module, file |-> target[u].file, text |-> disk[target[u].file],
                     todo |-> Imports[disk[target[u].file]]]
<1> USE DEF TypeOK
<1>1. target[u] \in Targets
  BY DEF Slurp, Walking, Targeted
<1>2. frame \in Frames /\ stack[u] \in Seq(Frames)
      /\ Entry(frame) = [module |-> target[u].module, file |-> target[u].file, text |-> disk[target[u].file]]
  BY <1>1, TextsAssumption DEF Frames, Entry, Targets
<1>3. stack'[u] = Append(stack[u], frame) /\ found' = found
  BY DEF Slurp
<1> HIDE DEF frame
<1>4. Elements(stack'[u]) = Elements(stack[u]) \cup {frame}
  BY <1>2, <1>3, PushElements
<1> QED
  BY <1>2, <1>3, <1>4 DEF Parts

(* A file that is there has a text it may have.  What was read has one,    *)
(* and a name that a walk may give it.                                     *)
Stored == \A f \in Files : disk[f] # NoFile => disk[f] \in Versions(f)
Placed(t) ==
  /\ \A x \in Parts(t) : x.text \in Versions(x.file) /\ Called(x.file, x.module)
  /\ pc[t] \in {"visit", "slurp"} => Called(target[t].file, target[t].module)
Placing == \A t \in Threads : Placed(t)

LEMMA NoParts ==
  ASSUME NEW t \in Threads, found'[t] = <<>>, stack'[t] = <<>>
  PROVE  Parts(t)' = {}
BY DEF Parts, Elements

LEMMA StoredStep ==
  ASSUME TypeOK, Copying, Stored, [Next]_vars
  PROVE  Stored'
<1> USE DEF TypeOK, shared, locals
<1>1. CASE Edit
  <2>1. PICK e \in Edits : disk' = [disk EXCEPT ![e[1]] = e[3]]
    BY <1>1 DEF Edit
  <2>2. e[3] # NoFile => e[3] \in Versions(e[1])
    BY DEF Versions
  <2> QED
    BY <2>1, <2>2 DEF Stored
<1>2. ASSUME NEW t \in Threads, Copy(t)
      PROVE  Stored'
  <2>1. <<call[t].entry, call[t].text>> \in Snippets
    BY <1>2 DEF Copy, Copying
  <2> DEFINE e == call[t].entry
             x == call[t].text
  <2>2. x # NoFile => x \in Versions(e)
    <3>1. <<e, x>>[1] = e /\ <<e, x>>[2] = x
      OBVIOUS
    <3> HIDE DEF e, x
    <3> QED
      BY <2>1, <3>1 DEF Versions, e, x
  <2>3. disk' = [disk EXCEPT ![e] = x]
    BY <1>2 DEF Copy
  <2> HIDE DEF e, x
  <2> QED
    BY <2>2, <2>3 DEF Stored
<1>3. ASSUME NEW t \in Threads, Return(t)
      PROVE  Stored'
  BY <1>3 DEF Return, Stored
<1>4. CASE UNCHANGED disk
  BY <1>4 DEF Stored
<1> QED
  BY <1>1, <1>2, <1>3, <1>4
     DEF Next, Running, Require, Eval, Visit, Slurp, Descend, Complete,
         Lookup, Build, Reject, BinaryFails, Load, LoadThrows, NothingBuilt, Publish, Cleanup, vars

LEMMA PlacedStep ==
  ASSUME TypeOK, Walking, Readings, Stored, Placing, [Next]_vars
  PROVE  Placing'
<1> SUFFICES ASSUME NEW u \in Threads
             PROVE  Placed(u)'
  BY DEF Placing
<1> USE DEF TypeOK, Goto, shared, locals
<1>1. Placed(u) /\ Reading(u)
  BY DEF Placing, Readings
<1>2. ASSUME Parts(u)' = Parts(u),
             pc'[u] \in {"visit", "slurp"} =>
               pc[u] \in {"visit", "slurp"} /\ target'[u] = target[u]
      PROVE  Placed(u)'
  BY <1>1, <1>2 DEF Placed, Called, Versions
<1>3. CASE Edit \/ UNCHANGED vars
  <2>1. UNCHANGED <<found, stack, pc, target>>
    BY <1>3 DEF Edit, vars
  <2> QED
    BY <1>2, <2>1 DEF Parts
<1>4. ASSUME NEW t \in Threads, t # u, Require(t) \/ Eval(t) \/ Running(t)
      PROVE  Placed(u)'
  <2>1. /\ pc'[u] = pc[u] /\ found'[u] = found[u] /\ stack'[u] = stack[u]
        /\ target'[u] = target[u]
    BY <1>4
       DEF Running, Require, Eval, Copy, Visit, Slurp, Fail, Descend, Complete, Lookup,
           Build, Reject, BinaryFails, Load, LoadThrows, NothingBuilt, Publish, Cleanup, Return
  <2> QED
    BY <1>2, <2>1 DEF Parts
<1>5. CASE Require(u) \/ Eval(u) \/ Copy(u) \/ Return(u)
  <2>1. found'[u] = <<>> /\ stack'[u] = <<>>
    BY <1>1, <1>5 DEF Require, Eval, Copy, Return, Reading
  <2>2. pc'[u] \in {"visit", "slurp"} => target'[u].module = Stem[target'[u].file]
    BY <1>5 DEF Require, Eval, Copy, Return
  <2> QED
    BY <2>1, <2>2, NoParts DEF Placed, Called
<1>6. CASE Slurp(u)
  <2>1. pc[u] = "slurp" /\ pc'[u] \in {"walk", "return"} /\ target[u] \in Targets
    BY <1>6 DEF Slurp, Fail, Walking, Targeted
  <2>2. CASE disk[target[u].file] = NoFile
    BY <1>2, <1>6, <2>1, <2>2 DEF Slurp, Fail, Parts
  <2>3. CASE disk[target[u].file] # NoFile
    <3> DEFINE x == [module |-> target[u].module, file |-> target[u].file,
                     text |-> disk[target[u].file]]
    <3>1. Parts(u)' = Parts(u) \cup {x}
      BY <1>6, <2>3, SlurpParts
    <3>2. disk[target[u].file] \in Versions(target[u].file) /\ Called(target[u].file, target[u].module)
      BY <1>1, <2>1, <2>3 DEF Stored, Placed, Targets
    <3>3. x.text = disk[target[u].file] /\ x.file = target[u].file /\ x.module = target[u].module
      OBVIOUS
    <3> HIDE DEF x
    <3>4. \A y \in Parts(u)' : y.text \in Versions(y.file) /\ Called(y.file, y.module)
      BY <1>1, <3>1, <3>2, <3>3 DEF Placed
    <3> QED
      BY <2>1, <3>4 DEF Placed, Versions, Called
  <2> QED
    BY <2>2, <2>3
<1>7. CASE Descend(u)
  <2> DEFINE top == stack[u][Len(stack[u])]
             m == Head(top.todo)
  <2>1. Parts(u)' = Parts(u)
    BY <1>7, PartsKept
  <2>2. top \in Frames
    BY <1>7, FrameTypes DEF Descend
  <2>3. top.file \in Files
    BY <2>2 DEF Frames
  <2>4. target'[u] = [module |-> m, file |-> Resolve[top.file][m]]
    BY <1>7 DEF Descend
  <2> HIDE DEF top, m
  <2>5. Called(target'[u].file, target'[u].module)
    BY <2>3, <2>4 DEF Called
  <2> QED
    BY <1>1, <2>1, <2>5 DEF Placed, Versions, Called
<1>8. CASE Complete(u)
  <2>1. Parts(u)' = Parts(u) /\ pc' = pc /\ target' = target
    BY <1>8, PartsKept DEF Complete
  <2> QED
    BY <1>2, <2>1
<1>9. CASE \/ Visit(u) \/ Lookup(u) \/ Build(u) \/ Reject(u) \/ BinaryFails(u) \/ Load(u)
           \/ LoadThrows(u) \/ NothingBuilt(u) \/ Publish(u) \/ Cleanup(u)
  <2>1. /\ found' = found /\ stack' = stack /\ target' = target
        /\ pc'[u] \in {"visit", "slurp"} => pc[u] \in {"visit", "slurp"}
    BY <1>9
       DEF Visit, Lookup, Build, Reject, BinaryFails, Load, LoadThrows, NothingBuilt,
           Publish, Cleanup, Fail
  <2> QED
    BY <1>2, <2>1 DEF Parts
<1> QED
  BY <1>3, <1>4, <1>5, <1>6, <1>7, <1>8, <1>9 DEF Next, Running

-----------------------------------------------------------------------------
(* While calls run, no file that a text imports comes into being: files    *)
(* are edited and deleted, and what is created nothing imports.            *)
NoImportAppears ==
  \A f \in Files : \A x \in Versions(f) : \A m \in ImportsOf(x) :
    /\ \A e \in Edits : e[1] = Resolve[f][m] => e[2] # NoFile
    /\ \A s \in Snippets : s[1] # Resolve[f][m]
(* The files that may be there and that a file imports lie in its own      *)
(* directory: they look for their imports where it does.                   *)
OneDirectory ==
  \A f \in Files, m \in Modules :
    Resolve[f][m] \in Present => Resolve[Resolve[f][m]] = Resolve[f]

LEMMA AbsentStays ==
  ASSUME NoImportAppears, TypeOK, Copying, [Next]_vars,
         NEW f \in Files, NEW x \in Versions(f), NEW m \in ImportsOf(x), m \in Modules,
         disk[Resolve[f][m]] = NoFile
  PROVE  disk'[Resolve[f][m]] = NoFile
<1> USE DEF TypeOK, shared, locals
<1> DEFINE g == Resolve[f][m]
<1>0. /\ g \in Files /\ disk[g] = NoFile
      /\ \A e \in Edits : e[1] = g => e[2] # NoFile
      /\ \A s \in Snippets : s[1] # g
  BY Resolved DEF NoImportAppears
<1> HIDE DEF g
<1>1. CASE Edit
  <2>1. PICK e \in Edits : disk[e[1]] = e[2] /\ disk' = [disk EXCEPT ![e[1]] = e[3]]
    BY <1>1 DEF Edit
  <2>2. e[1] # g
    BY <1>0, <2>1
  <2> QED
    BY <1>0, <2>1, <2>2 DEF g
<1>2. ASSUME NEW t \in Threads, Copy(t)
      PROVE  disk'[g] = NoFile
  <2>1. <<call[t].entry, call[t].text>> \in Snippets
    BY <1>2 DEF Copy, Copying
  <2>2. call[t].entry # g
    BY <1>0, <2>1
  <2> QED
    BY <1>0, <1>2, <2>2 DEF Copy
<1>3. ASSUME NEW t \in Threads, Return(t)
      PROVE  disk'[g] = NoFile
  BY <1>0, <1>3 DEF Return
<1>4. CASE UNCHANGED disk
  BY <1>0, <1>4 DEF g
<1>5. disk'[g] = NoFile
  BY <1>1, <1>2, <1>3, <1>4
     DEF g, Next, Running, Require, Eval, Visit, Slurp, Descend, Complete,
         Lookup, Build, Reject, BinaryFails, Load, LoadThrows, NothingBuilt, Publish, Cleanup, vars
<1> QED
  BY <1>5 DEF g

(* All that a walk reads lies in the directory of its entry.               *)
Place(t, m) == Resolve[call[t].entry][m]
Directory(t) ==
  /\ pc[t] # "idle" => call[t].entry \in Files
  /\ \A x \in Parts(t) : Resolve[x.file] = Resolve[call[t].entry] /\ x.file = Place(t, x.module)
  /\ pc[t] \in {"visit", "slurp"} => target[t].file = Place(t, target[t].module)
Directories == \A t \in Threads : Directory(t)

(* There a file has one name.                                              *)
LEMMA OneName ==
  ASSUME TypeOK, NEW t \in Threads, Directory(t), NEW x \in Parts(t), NEW m \in Modules
  PROVE  /\ Place(t, m) = Resolve[x.file][m] /\ Place(t, m) \in Files
         /\ x.file = Place(t, m) => x.module = m
<1>1. x.file \in Files /\ x.module \in Modules
  BY PartTypes
<1>2. Resolve[x.file] = Resolve[call[t].entry] /\ x.file = Resolve[call[t].entry][x.module]
  BY DEF Directory, Place
<1>3. Resolve[x.file][m] \in Files
  BY <1>1, Resolved
<1>4. Resolve[x.file][x.module] = Resolve[x.file][m] => x.module = m
  BY <1>1, FilesAssumption
<1> QED
  BY <1>2, <1>3, <1>4 DEF Place

LEMMA DirectoryStep ==
  ASSUME OneDirectory, TypeOK, Walking, Readings, Stored, Directories, Placing, [Next]_vars
  PROVE  Directories'
<1> SUFFICES ASSUME NEW u \in Threads
             PROVE  Directory(u)'
  BY DEF Directories
<1> USE DEF TypeOK, Goto, shared, locals
<1>1. Directory(u) /\ Reading(u)
  BY DEF Directories, Readings
<1>2. ASSUME Parts(u)' = Parts(u), call'[u] = call[u],
             pc'[u] # "idle" => pc[u] # "idle",
             pc'[u] \in {"visit", "slurp"} =>
               pc[u] \in {"visit", "slurp"} /\ target'[u] = target[u]
      PROVE  Directory(u)'
  BY <1>1, <1>2 DEF Directory, Place
<1>3. CASE Edit \/ UNCHANGED vars
  <2>1. UNCHANGED <<found, stack, pc, target, call>>
    BY <1>3 DEF Edit, vars
  <2> QED
    BY <1>2, <2>1 DEF Parts
<1>4. ASSUME NEW t \in Threads, t # u, Require(t) \/ Eval(t) \/ Running(t)
      PROVE  Directory(u)'
  <2>1. /\ pc'[u] = pc[u] /\ found'[u] = found[u] /\ stack'[u] = stack[u]
        /\ target'[u] = target[u] /\ call'[u] = call[u]
    BY <1>4
       DEF Running, Require, Eval, Copy, Visit, Slurp, Fail, Descend, Complete, Lookup,
           Build, Reject, BinaryFails, Load, LoadThrows, NothingBuilt, Publish, Cleanup, Return
  <2> QED
    BY <1>2, <2>1 DEF Parts
<1>5. ASSUME Require(u) \/ Eval(u) \/ Copy(u) \/ Return(u)
      PROVE  Directory(u)'
  <2>1. found'[u] = <<>> /\ stack'[u] = <<>>
    BY <1>1, <1>5 DEF Require, Eval, Copy, Return, Reading
  <2>2. pc'[u] # "idle" => call'[u].entry \in Files
    <3>1. CASE Require(u)
      BY <3>1, TextsAssumption DEF Require
    <3>2. CASE Eval(u)
      <4>1. PICK s \in Snippets :
              call' = [call EXCEPT ![u] = [entry |-> s[1], reload |-> TRUE, text |-> s[2]]]
        BY <3>2 DEF Eval
      <4>2. s[1] \in Files
        BY TextsAssumption
      <4> QED
        BY <4>1, <4>2
    <3>3. CASE Copy(u) \/ Return(u)
      BY <1>1, <3>3 DEF Copy, Return, Directory
    <3> QED
      BY <1>5, <3>1, <3>2, <3>3
  <2>3. pc'[u] \in {"visit", "slurp"} =>
          target'[u] = [module |-> Stem[call'[u].entry], file |-> call'[u].entry]
    BY <1>5 DEF Require, Eval, Copy, Return
  <2>4. \A f \in Files : Resolve[f][Stem[f]] = f
    BY FilesAssumption
  <2>5. pc'[u] \in {"visit", "slurp"} => target'[u].file = Resolve[call'[u].entry][target'[u].module]
    BY <2>2, <2>3, <2>4
  <2> QED
    BY <2>1, <2>2, <2>5, NoParts DEF Directory, Place
<1>6. CASE Slurp(u)
  <2>1. /\ pc[u] = "slurp" /\ pc'[u] \in {"walk", "return"} /\ target[u] \in Targets
        /\ call' = call /\ call[u].entry \in Files
    BY <1>1, <1>6 DEF Slurp, Fail, Walking, Targeted, Directory
  <2>2. CASE disk[target[u].file] = NoFile
    BY <1>2, <1>6, <2>1, <2>2 DEF Slurp, Fail, Parts
  <2>3. CASE disk[target[u].file] # NoFile
    <3> DEFINE x == [module |-> target[u].module, file |-> target[u].file,
                     text |-> disk[target[u].file]]
    <3>1. Parts(u)' = Parts(u) \cup {x}
      BY <1>6, <2>3, SlurpParts
    <3>2. x.file = target[u].file /\ x.module = target[u].module
      OBVIOUS
    <3> HIDE DEF x
    <3>3. x.module \in Modules /\ x.file \in Files /\ x.file = Resolve[call[u].entry][x.module]
      BY <1>1, <2>1, <3>2 DEF Directory, Place, Targets
    <3>4. x.file \in Present
      BY <2>3, <3>2, <3>3 DEF Stored, Present
    <3>5. Resolve[x.file] = Resolve[call[u].entry]
      BY <2>1, <3>3, <3>4 DEF OneDirectory
    <3> QED
      BY <1>1, <2>1, <3>1, <3>3, <3>5 DEF Directory, Place
  <2> QED
    BY <2>2, <2>3
<1>7. CASE Descend(u)
  <2> DEFINE n == Len(stack[u])
             top == stack[u][n]
             m == Head(top.todo)
  <2>1. Parts(u)' = Parts(u) /\ call' = call /\ pc[u] = "walk"
    BY <1>7, PartsKept DEF Descend
  <2>2. n \in 1..n /\ Entry(top) \in Parts(u) /\ Entry(top).file = top.file
    <3>1. n \in Nat \ {0}
      BY <1>7, FrameTypes DEF Descend
    <3> QED
      BY <3>1, PartTypes DEF Entry
  <2>3. target'[u] = [module |-> m, file |-> Resolve[top.file][m]]
    BY <1>7 DEF Descend
  <2> HIDE DEF top, m, n
  <2>4. Resolve[top.file] = Resolve[call[u].entry]
    BY <1>1, <2>2 DEF Directory
  <2> QED
    BY <1>1, <2>1, <2>3, <2>4 DEF Directory, Place
<1>8. CASE Complete(u)
  <2>1. Parts(u)' = Parts(u) /\ pc' = pc /\ target' = target /\ call' = call
    BY <1>8, PartsKept DEF Complete
  <2> QED
    BY <1>2, <2>1
<1>9. CASE \/ Visit(u) \/ Lookup(u) \/ Build(u) \/ Reject(u) \/ BinaryFails(u) \/ Load(u)
           \/ LoadThrows(u) \/ NothingBuilt(u) \/ Publish(u) \/ Cleanup(u)
  <2>1. /\ found' = found /\ stack' = stack /\ target' = target /\ call' = call
        /\ pc'[u] \in {"visit", "slurp"} => pc[u] \in {"visit", "slurp"}
        /\ pc[u] # "idle"
    BY <1>9
       DEF Visit, Lookup, Build, Reject, BinaryFails, Load, LoadThrows, NothingBuilt,
           Publish, Cleanup, Fail
  <2> QED
    BY <1>2, <2>1 DEF Parts
<1> QED
  BY <1>3, <1>4, <1>5, <1>6, <1>7, <1>8, <1>9 DEF Next, Running

LEMMA InitPlaced == Init => Stored /\ Placing /\ Directories
<1> SUFFICES ASSUME Init
             PROVE  Stored /\ Placing /\ Directories
  OBVIOUS
<1>1. \A t \in Threads : Parts(t) = {}
  BY DEF Init, Parts, Elements
<1>2. Placing /\ Directories
  BY <1>1 DEF Init, Placing, Placed, Directories, Directory
<1>3. Stored
  BY DEF Init, Stored, Versions
<1> QED
  BY <1>2, <1>3

(* In one directory no two files of a walk have one name: all are built.   *)
LEMMA AllBuilt ==
  ASSUME TypeOK, NEW t \in Threads, Reading(t), Directory(t)
  PROVE  /\ \A i, j \in 1..Len(found[t]) : found[t][i].module = found[t][j].module => i = j
         /\ \A i \in 1..Len(found[t]) :
              [module |-> found[t][i].module, text |-> found[t][i].text] \in Project(found[t])
         /\ \A f \in Project(found[t]) : \E i \in 1..Len(found[t]) :
              f = [module |-> found[t][i].module, text |-> found[t][i].text]
<1>1. found[t] \in Seq(EntrySet) /\ DOMAIN found[t] = 1..Len(found[t]) /\ Len(found[t]) \in Nat
  BY Walked
<1>2. ASSUME NEW i \in 1..Len(found[t]), NEW j \in 1..Len(found[t]),
             found[t][i].module = found[t][j].module
      PROVE  i = j
  <2>1. found[t][i].file = found[t][j].file
    BY <1>2, PartTypes DEF Directory
  <2> QED
    BY <2>1 DEF Reading, Apart, Single
<1>3. \A i \in 1..Len(found[t]) :
        [module |-> found[t][i].module, text |-> found[t][i].text] \in Project(found[t])
  <2> SUFFICES ASSUME NEW i \in 1..Len(found[t])
               PROVE  \A k \in DOMAIN found[t] : found[t][k].module = found[t][i].module => k <= i
    BY <1>1 DEF Project
  <2> QED
    BY <1>1, <1>2
<1> QED
  BY <1>1, <1>2, <1>3, Projected

(* A set of files the walk has read in which each imports another does not *)
(* compile, whatever else is found.                                        *)
Cyclic(P) == \E S \in SUBSET P : S # {} /\ \A x \in S : ImportsOf(x.text) \cap Names(S) # {}

(* What a complete file imports is complete before it, or is not there, or *)
(* there is a cycle.                                                       *)
Before(t, i, m) == \E j \in 1..i-1 : found[t][j].module = m
Sorted(t) ==
  Cyclic(Parts(t)) \/
    \A i \in 1..Len(found[t]) : \A m \in ImportsOf(found[t][i].text) :
      Before(t, i, m) \/ (disk[Place(t, m)] = NoFile /\ Place(t, m) \notin seen[t])
(* An import of an open file is still to come, or has been looked at.      *)
Handled(t) ==
  \A k \in 1..Len(stack[t]) :
    /\ ToSet(stack[t][k].todo) \subseteq ImportsOf(stack[t][k].text)
    /\ \A m \in ImportsOf(stack[t][k].text) :
         \/ m \in ToSet(stack[t][k].todo)
         \/ Place(t, m) \in seen[t] \/ disk[Place(t, m)] = NoFile
         \/ pc[t] = "visit" /\ m = target[t].module
(* Each open file imports the one above it, the last one the target.       *)
Chained(t) ==
  /\ \A k \in 1..Len(stack[t])-1 : stack[t][k+1].module \in ImportsOf(stack[t][k].text)
  /\ pc[t] \in {"visit", "slurp"} /\ stack[t] # <<>> =>
       target[t].module \in ImportsOf(stack[t][Len(stack[t])].text)
Ordered(t) == \A i \in 1..Len(found[t]) : \A m \in ImportsOf(found[t][i].text) : Before(t, i, m)

Closure(t) ==
  /\ pc[t] \in {"visit", "slurp", "walk"} => Sorted(t) /\ Handled(t) /\ Chained(t)
  /\ pc[t] = "build" => Sorted(t) /\ stack[t] = <<>>
  /\ pc[t] = "load" => Ordered(t)
Closures == \A t \in Threads : Closure(t)

(* What the files read import stays absent if it is absent.                *)
LEMMA PlaceStays ==
  ASSUME NoImportAppears, TypeOK, Copying, [Next]_vars, NEW u \in Threads,
         Directory(u), Placed(u), NEW x \in Parts(u), NEW m \in ImportsOf(x.text),
         disk[Place(u, m)] = NoFile
  PROVE  disk'[Place(u, m)] = NoFile
<1>1. x.file \in Files /\ x.text \in Texts /\ x.text \in Versions(x.file)
  BY PartTypes DEF Placed
<1>2. m \in Modules
  BY <1>1, TextsAssumption DEF ImportsOf, ToSet
<1>3. Place(u, m) = Resolve[x.file][m]
  BY <1>2, OneName
<1> QED
  BY <1>1, <1>2, <1>3, AbsentStays

(* The steps of the other threads leave a walk as it is.                   *)
LEMMA ClosureKept ==
  ASSUME NoImportAppears, TypeOK, Copying, [Next]_vars, NEW u \in Threads, Closure(u),
         Directory(u), Placed(u), pc'[u] = pc[u], found'[u] = found[u], stack'[u] = stack[u],
         seen'[u] = seen[u], target'[u] = target[u], call'[u] = call[u]
  PROVE  Closure(u)'
<1>0. \A m : Place(u, m)' = Place(u, m)
  BY DEF Place
<1>1. \A i \in 1..Len(found[u]) : found[u][i] \in Parts(u)
  BY PartTypes
<1>2. \A k \in 1..Len(stack[u]) : Entry(stack[u][k]) \in Parts(u)
                                  /\ Entry(stack[u][k]).text = stack[u][k].text
  BY PartTypes DEF Entry
<1>3. ASSUME Sorted(u) PROVE Sorted(u)'
  <2>1. Cyclic(Parts(u))' <=> Cyclic(Parts(u))
    BY DEF Parts, Cyclic, Names
  <2>2. \A i, m : Before(u, i, m)' <=> Before(u, i, m)
    BY DEF Before
  <2>3. \A i \in 1..Len(found[u]) : \A m \in ImportsOf(found[u][i].text) :
          disk[Place(u, m)] = NoFile => disk'[Place(u, m)] = NoFile
    BY <1>1, PlaceStays
  <2> QED
    BY <1>0, <1>3, <2>1, <2>2, <2>3 DEF Sorted
<1>4. ASSUME Handled(u) PROVE Handled(u)'
  <2>1. ASSUME NEW k \in 1..Len(stack[u]), NEW m \in ImportsOf(stack[u][k].text), disk[Place(u, m)] = NoFile
        PROVE  disk'[Place(u, m)] = NoFile
    BY <1>2, <2>1, PlaceStays
  <2>2. (pc[u] = "visit")' <=> pc[u] = "visit"
    OBVIOUS
  <2>3. target'[u].module = target[u].module
    OBVIOUS
  <2> SUFFICES ASSUME NEW k \in 1..Len(stack[u])
               PROVE  /\ ToSet(stack[u][k].todo) \subseteq ImportsOf(stack[u][k].text)
                      /\ \A m \in ImportsOf(stack[u][k].text) :
                           \/ m \in ToSet(stack[u][k].todo)
                           \/ Place(u, m) \in seen[u] \/ disk'[Place(u, m)] = NoFile
                           \/ pc[u] = "visit" /\ m = target[u].module
    BY <1>0, <2>2, <2>3 DEF Handled
  <2> QED
    BY <1>4, <2>1 DEF Handled
<1>5. (Chained(u) => Chained(u)') /\ (Ordered(u) => Ordered(u)')
  <2>1. target'[u].module = target[u].module
    OBVIOUS
  <2>2. Chained(u) => Chained(u)'
    BY <2>1 DEF Chained
  <2> QED
    BY <2>2 DEF Ordered, Before
<1> QED
  BY <1>3, <1>4, <1>5 DEF Closure

LEMMA VisitClosure ==
  ASSUME TypeOK, NEW u \in Threads, Directory(u), Closure(u), Visit(u)
  PROVE  Closure(u)'
<1> USE DEF TypeOK, Goto
<1>1. /\ pc[u] = "visit" /\ Sorted(u) /\ Handled(u) /\ Chained(u)
      /\ found' = found /\ stack' = stack /\ disk' = disk /\ target' = target
      /\ target[u].file = Place(u, target[u].module)
      /\ call' = call
  BY DEF Closure, Visit, shared, Directory
<1>2. \/ /\ disk[target[u].file] # NoFile /\ target[u].file \notin seen[u]
         /\ seen'[u] = seen[u] \cup {target[u].file} /\ pc'[u] = "slurp"
      \/ /\ disk[target[u].file] = NoFile \/ target[u].file \in seen[u]
         /\ seen'[u] = seen[u] /\ pc'[u] = "walk"
  BY DEF Visit
<1>3. Sorted(u)'
  <2>1. Cyclic(Parts(u))' <=> Cyclic(Parts(u))
    BY <1>1 DEF Parts, Cyclic, Names
  <2>2. \A i, m : Before(u, i, m)' <=> Before(u, i, m)
    BY <1>1 DEF Before
  <2>3. \A m : disk[m] = NoFile /\ m \notin seen[u] => m \notin seen'[u]
    BY <1>2
  <2> QED
    BY <1>1, <2>1, <2>2, <2>3 DEF Sorted, Place
<1>4. Handled(u)'
  <2>1. seen[u] \subseteq seen'[u]
    BY <1>2
  <2>2. pc'[u] \in {"slurp", "walk"}
    BY <1>2
  <2> QED
    BY <1>1, <1>2, <2>1, <2>2 DEF Handled, Place
<1>5. Chained(u)'
  BY <1>1, <1>2 DEF Chained
<1>6. pc'[u] \in {"slurp", "walk"}
  BY <1>2
<1> QED
  BY <1>3, <1>4, <1>5, <1>6 DEF Closure

(* Opening a file: one more frame on the stack, one more part.             *)
LEMMA SlurpClosure ==
  ASSUME TypeOK, Walking, NEW u \in Threads, Closure(u), Slurp(u)
  PROVE  Closure(u)'
<1> USE DEF TypeOK, Goto
<1>1. /\ pc[u] = "slurp" /\ Sorted(u) /\ Handled(u) /\ Chained(u)
      /\ found' = found /\ seen' = seen /\ disk' = disk /\ target' = target
      /\ target[u] \in Targets /\ call' = call
  BY DEF Closure, Slurp, shared, Walking, Targeted
<1>2. CASE disk[target[u].file] = NoFile
  BY <1>1, <1>2 DEF Slurp, Fail, Closure
<1>3. CASE disk[target[u].file] # NoFile
  <2> DEFINE text == disk[target[u].file]
             frame == [module |-> target[u].module, file |-> target[u].file, text |-> text, todo |-> Imports[text]]
             n == Len(stack[u])
  <2>1. frame \in Frames /\ ToSet(frame.todo) = ImportsOf(frame.text)
    BY <1>1, <1>3, TextsAssumption DEF Frames, ImportsOf, Targets
  <2>2. stack'[u] = Append(stack[u], frame) /\ pc'[u] = "walk"
    BY <1>3 DEF Slurp
  <2>3. n \in Nat /\ stack[u] \in Seq(Frames)
    BY Walked
  <2>4. frame.module = target[u].module /\ frame.text = text
    OBVIOUS
  <2> HIDE DEF frame, text
  <2>5. /\ Len(stack'[u]) = n + 1 /\ stack'[u][n + 1] = frame
        /\ \A k \in 1..n : stack'[u][k] = stack[u][k]
    BY <2>1, <2>2, <2>3
  <2>6. Elements(stack'[u]) = Elements(stack[u]) \cup {frame}
    <3>1. frame \in Frames /\ stack[u] \in Seq(Frames)
      BY <2>1, <2>3
    <3>2. Elements(Append(stack[u], frame)) = Elements(stack[u]) \cup {frame}
      BY <3>1, PushElements
    <3> QED
      BY <2>2, <3>2
  <2>7. Parts(u) \subseteq Parts(u)'
    BY <1>1, <2>6 DEF Parts
  <2>8. Cyclic(Parts(u)) => Cyclic(Parts(u))'
    BY <2>7 DEF Cyclic
  <2>9. Sorted(u)'
    <3>1. \A i, m : Before(u, i, m)' <=> Before(u, i, m)
      BY <1>1 DEF Before
    <3> QED
      BY <1>1, <2>8, <3>1 DEF Sorted, Place
  <2>10. Handled(u)'
    <3> SUFFICES ASSUME NEW k \in 1..Len(stack'[u])
                 PROVE  /\ ToSet(stack'[u][k].todo) \subseteq ImportsOf(stack'[u][k].text)
                        /\ \A m \in ImportsOf(stack'[u][k].text) :
                             \/ m \in ToSet(stack'[u][k].todo)
                             \/ Place(u, m) \in seen[u] \/ disk[Place(u, m)] = NoFile
      BY <1>1, <2>2 DEF Handled, Place
    <3>1. CASE k = n + 1
      BY <2>1, <2>5, <3>1
    <3>2. CASE k \in 1..n
      BY <1>1, <2>5, <3>2 DEF Handled
    <3> QED
      BY <2>3, <2>5, <3>1, <3>2
  <2>11. Chained(u)'
    <3> SUFFICES ASSUME NEW k \in 1..n
                 PROVE  stack'[u][k+1].module \in ImportsOf(stack'[u][k].text)
      BY <2>2, <2>3, <2>5 DEF Chained
    <3>1. CASE k = n
      <4>1. stack[u] # <<>>
        BY <2>3, <3>1
      <4> QED
        BY <1>1, <2>3, <2>4, <2>5, <3>1, <4>1 DEF Chained
    <3>2. CASE k \in 1..n-1
      <4>1. k + 1 \in 1..n
        BY <2>3, <3>2
      <4> QED
        BY <1>1, <2>5, <3>2, <4>1 DEF Chained
    <3> QED
      BY <2>3, <3>1, <3>2
  <2> QED
    BY <2>2, <2>9, <2>10, <2>11 DEF Closure
<1> QED
  BY <1>2, <1>3

(* Following an import: what the top frame had to do is now the target.    *)
LEMMA DescendClosure ==
  ASSUME TypeOK, NEW u \in Threads, Closure(u), Descend(u)
  PROVE  Closure(u)'
<1> DEFINE n == Len(stack[u])
           head == Head(stack[u][n].todo)
           tail == Tail(stack[u][n].todo)
<1> USE DEF TypeOK, Goto
<1>1. /\ pc[u] = "walk" /\ pc'[u] = "visit"
      /\ Sorted(u) /\ Handled(u) /\ Chained(u)
      /\ found' = found /\ seen' = seen /\ disk' = disk /\ call' = call
  BY DEF Closure, Descend, shared
<1>2. n \in Nat \ {0} /\ stack[u][n].todo # <<>> /\ stack[u] \in Seq(Frames)
  BY FrameTypes DEF Descend
<1>3. stack[u][n].todo \in Seq(Modules) /\ stack[u][n] \in Frames
  BY <1>2, Walked
<1>4. target'[u].module = head /\ stack' = [stack EXCEPT ![u][n].todo = Tail(@)]
  BY DEF Descend
<1>5. ToSet(stack[u][n].todo) = {head} \cup ToSet(tail)
  <2>1. \A s \in Seq(Modules) : s # <<>> => ToSet(s) = {Head(s)} \cup ToSet(Tail(s))
    BY HeadAndTail
  <2> QED
    BY <1>2, <1>3, <2>1
<1>6. /\ Len(stack'[u]) = n
      /\ \A k \in 1..n : /\ stack'[u][k].module = stack[u][k].module
                         /\ stack'[u][k].text = stack[u][k].text
                         /\ stack'[u][k].file = stack[u][k].file
                         /\ k # n => stack'[u][k].todo = stack[u][k].todo
      /\ stack'[u][n].todo = tail
  <2>1. stack'[u] = [stack[u] EXCEPT ![n] = [stack[u][n] EXCEPT !.todo = tail]]
    BY <1>2, <1>4
  <2>2. Len(stack'[u]) = n
    BY <1>2, <2>1
  <2>3. stack'[u][n] = [stack[u][n] EXCEPT !.todo = tail]
    <3>1. \A s \in Seq(Frames), i \in Nat : \A v : i \in 1..Len(s) => [s EXCEPT ![i] = v][i] = v
      OBVIOUS
    <3>2. n \in 1..n
      BY <1>2
    <3> QED
      BY <1>2, <2>1, <3>1, <3>2
  <2>4. \A k \in 1..n : k # n => stack'[u][k] = stack[u][k]
    BY <1>2, <2>1
  <2>5. /\ stack'[u][n].module = stack[u][n].module /\ stack'[u][n].text = stack[u][n].text
        /\ stack'[u][n].file = stack[u][n].file /\ stack'[u][n].todo = tail
    BY <1>3, <2>3 DEF Frames
  <2> QED
    BY <2>2, <2>4, <2>5
<1> HIDE DEF head, tail
<1>7. {Entry(f) : f \in Elements(stack'[u])} = {Entry(f) : f \in Elements(stack[u])}
  <2>1. \A k \in 1..n : Entry(stack'[u][k]) = Entry(stack[u][k])
    BY <1>6 DEF Entry
  <2> QED
    BY <1>6, <2>1, SameFiles
<1>8. Sorted(u)'
  <2>1. Cyclic(Parts(u))' <=> Cyclic(Parts(u))
    BY <1>1, <1>7 DEF Parts, Cyclic, Names
  <2>2. \A i, m : Before(u, i, m)' <=> Before(u, i, m)
    BY <1>1 DEF Before
  <2> QED
    BY <1>1, <2>1, <2>2 DEF Sorted, Place
<1>9. Handled(u)'
  <2> SUFFICES ASSUME NEW k \in 1..n
               PROVE  /\ ToSet(stack'[u][k].todo) \subseteq ImportsOf(stack[u][k].text)
                      /\ \A m \in ImportsOf(stack[u][k].text) :
                           \/ m \in ToSet(stack'[u][k].todo) \/ m = head
                           \/ Place(u, m) \in seen[u] \/ disk[Place(u, m)] = NoFile
    <3>1. /\ Len(stack'[u]) = n /\ pc'[u] = "visit" /\ target'[u].module = head
          /\ call'[u] = call[u] /\ disk' = disk /\ seen' = seen
          /\ \A k \in 1..n : ImportsOf(stack'[u][k].text) = ImportsOf(stack[u][k].text)
      BY <1>1, <1>4, <1>6
    <3> QED
      BY <3>1 DEF Handled, Place
  <2>1. CASE k = n
    BY <1>1, <1>5, <1>6, <2>1 DEF Handled
  <2>2. CASE k # n
    BY <1>1, <1>6, <2>2 DEF Handled
  <2> QED
    BY <2>1, <2>2
<1>10. Chained(u)'
  <2>1. head \in ImportsOf(stack[u][n].text)
    <3>1. n \in 1..n
      BY <1>2
    <3>2. ToSet(stack[u][n].todo) \subseteq ImportsOf(stack[u][n].text)
      BY <1>1, <3>1 DEF Handled
    <3> QED
      BY <1>5, <3>2
  <2>2. \A k \in 1..n-1 : k \in 1..n /\ k + 1 \in 1..n
    BY <1>2
  <2>3. n \in 1..n
    BY <1>2
  <2> QED
    BY <1>1, <1>4, <1>6, <2>1, <2>2, <2>3 DEF Chained
<1> QED
  BY <1>1, <1>8, <1>9, <1>10 DEF Closure

(* A file is complete: whatever it imports was found before it, is absent, *)
(* or is still open below it, and then the files between form a cycle.     *)
LEMMA CompleteClosure ==
  ASSUME TypeOK, NEW u \in Threads, Reading(u), Directory(u), Closure(u), Complete(u)
  PROVE  Closure(u)'
<1> DEFINE n == Len(stack[u])
           l == Len(found[u])
           top == stack[u][n]
<1> USE DEF TypeOK
<1>1. /\ pc' = pc /\ pc[u] = "walk" /\ Sorted(u) /\ Handled(u) /\ Chained(u)
      /\ seen' = seen /\ disk' = disk /\ target' = target /\ call' = call
  BY DEF Closure, Complete, shared
<1>2. stack[u] \in Seq(Frames) /\ stack[u] # <<>> /\ found[u] \in Seq(EntrySet) /\ l \in Nat
  BY Walked DEF Complete
<1>3. /\ n \in Nat \ {0} /\ n \in 1..n /\ Last(stack[u]) = top
      /\ top \in Frames /\ top.todo = <<>> /\ Entry(top) \in EntrySet
      /\ top.module \in Modules /\ top.text \in Texts
  <2>1. n \in Nat \ {0} /\ Last(stack[u]) = top
    BY <1>2, FrontAndLast
  <2>2. n \in 1..n
    BY <2>1
  <2>3. top \in Frames /\ top.module \in Modules /\ top.text \in Texts
    BY <2>2, Walked
  <2>4. top.todo = <<>>
    BY <2>1 DEF Complete
  <2>5. Entry(top) \in EntrySet
    BY <2>3 DEF Entry, EntrySet, Frames
  <2> QED
    BY <2>1, <2>2, <2>3, <2>4, <2>5
<1>4. found'[u] = Append(found[u], Entry(top)) /\ stack'[u] = Front(stack[u])
  BY <1>3 DEF Complete, Entry
<1>5. /\ Len(stack'[u]) = n - 1 /\ \A k \in 1..n-1 : stack'[u][k] = stack[u][k]
      /\ Elements(stack[u]) = Elements(stack'[u]) \cup {top}
  BY <1>2, <1>3, <1>4, FrontAndLast, PopElements
<1>6. /\ Len(found'[u]) = l + 1 /\ found'[u][l + 1] = Entry(top)
      /\ \A i \in 1..l : found'[u][i] = found[u][i]
  BY <1>2, <1>3, <1>4
<1>7. Elements(found'[u]) = Elements(found[u]) \cup {Entry(top)}
  BY <1>2, <1>3, <1>4, PushElements
<1>8. Parts(u)' = Parts(u)
  BY <1>5, <1>7 DEF Parts
<1> HIDE DEF n, top, l
<1>10. Sorted(u)'
  <2> SUFFICES ASSUME ~Cyclic(Parts(u)), NEW i \in 1..l+1, NEW m \in ImportsOf(found'[u][i].text)
               PROVE  Before(u, i, m)' \/ (disk[Place(u, m)] = NoFile /\ Place(u, m) \notin seen[u])
    BY <1>1, <1>6, <1>8 DEF Sorted, Place
  <2>1. CASE i \in 1..l
    <3>1. Before(u, i, m) \/ (disk[Place(u, m)] = NoFile /\ Place(u, m) \notin seen[u])
      BY <1>1, <1>6, <2>1 DEF Sorted, l
    <3>2. \A j \in 1..i-1 : j \in 1..l
      BY <1>2, <2>1
    <3> QED
      BY <1>6, <3>1, <3>2 DEF Before
  <2>2. CASE i = l + 1
    <3>1. m \in ImportsOf(top.text)
      BY <1>6, <2>2 DEF Entry
    <3>2. m \notin ToSet(top.todo)
      BY <1>3 DEF ToSet
    <3>3. Place(u, m) \in seen[u] \/ disk[Place(u, m)] = NoFile
      BY <1>1, <1>3, <3>1, <3>2 DEF Handled, n, top
    <3>3a. m \in Modules
      BY <1>3, <3>1, TextsAssumption DEF ImportsOf, ToSet
    <3>4. CASE Place(u, m) \in Paths(found[u])
      <4>0. PICK j \in 1..l : found[u][j].file = Place(u, m)
        BY <3>4 DEF Paths, Elements, l
      <4>1. found[u][j].module = m
        BY <3>3a, <4>0, PartTypes, OneName DEF l
      <4>2. j \in 1..i-1 /\ found'[u][j].module = m
        BY <1>2, <1>6, <2>2, <4>1
      <4> QED
        BY <4>2 DEF Before
    <3>5. CASE Place(u, m) \in Paths(stack[u])
      <4>0. PICK p \in 1..n : stack[u][p].file = Place(u, m)
        BY <3>5 DEF Paths, Elements, n
      <4>1. stack[u][p].module = m
        <5>1. Entry(stack[u][p]) \in Parts(u)
          BY PartTypes DEF n
        <5>2. Entry(stack[u][p]).module = stack[u][p].module /\ Entry(stack[u][p]).file = stack[u][p].file
          BY DEF Entry
        <5> QED
          BY <3>3a, <4>0, <5>1, <5>2, OneName
      <4> DEFINE S == {Entry(stack[u][q]) : q \in p..n}
      <4>2. S \subseteq Parts(u)
        <5>1. \A q \in p..n : q \in 1..n
          BY <1>3
        <5> QED
          BY <5>1, PartTypes DEF n
      <4>3. \A q \in p..n : Entry(stack[u][q]) \in S
        OBVIOUS
      <4>4. \A x \in S : \E q \in p..n : x = Entry(stack[u][q])
        OBVIOUS
      <4> HIDE DEF S
      <4>5. \A q \in p..n : stack[u][q].module \in Names(S)
        <5>1. \A q \in p..n : Entry(stack[u][q]).module = stack[u][q].module
          BY DEF Entry
        <5> QED
          BY <4>3, <5>1 DEF Names
      <4>6. ASSUME NEW q \in p..n
            PROVE  ImportsOf(stack[u][q].text) \cap Names(S) # {}
        <5>1. CASE q = n
          <6>1. p \in p..n
            BY <1>3
          <6> QED
            BY <3>1, <4>1, <4>5, <5>1, <6>1 DEF top
        <5>2. CASE q # n
          <6>1. q + 1 \in p..n /\ q \in 1..n-1
            BY <1>3, <4>6, <5>2
          <6>2. stack[u][q+1].module \in ImportsOf(stack[u][q].text)
            BY <1>1, <6>1 DEF Chained, n
          <6> QED
            BY <4>5, <6>1, <6>2
        <5> QED
          BY <5>1, <5>2
      <4>7. ASSUME NEW x \in S
            PROVE  ImportsOf(x.text) \cap Names(S) # {}
        <5>1. PICK q \in p..n : x = Entry(stack[u][q])
          BY <4>4
        <5>2. x.text = stack[u][q].text
          BY <5>1 DEF Entry
        <5> QED
          BY <4>6, <5>2
      <4>8. S # {}
        <5>1. p \in p..n
          BY <1>3
        <5> QED
          BY <4>3, <5>1
      <4>9. Cyclic(Parts(u))
        BY <4>2, <4>7, <4>8 DEF Cyclic
      <4> QED
        BY <4>9
    <3>6. CASE Place(u, m) \notin seen[u]
      BY <3>3, <3>6
    <3>7. seen[u] = Paths(found[u]) \cup Paths(stack[u])
      BY <1>1 DEF Reading, SeenIsRead
    <3> QED
      BY <3>4, <3>5, <3>6, <3>7
  <2> QED
    BY <1>2, <2>1, <2>2
<1>11. Handled(u)'
  <2>1. \A k \in 1..n-1 : k \in 1..Len(stack[u])
    BY <1>3 DEF n
  <2> QED
    BY <1>1, <1>5, <2>1 DEF Handled, Place
<1>12. Chained(u)'
  <2>1. \A k \in 1..n-1-1 : k \in 1..n-1 /\ k + 1 \in 1..n-1
    BY <1>3
  <2> QED
    BY <1>1, <1>5, <2>1 DEF Chained, n
<1> QED
  BY <1>1, <1>10, <1>11, <1>12 DEF Closure

LEMMA OrderedStays ==
  ASSUME NEW u, Ordered(u), found' = found
  PROVE  Ordered(u)'
<1> DEFINE InOrder(f) == \A i \in 1..Len(f[u]) : \A m \in ImportsOf(f[u][i].text) :
                            \E j \in 1..i-1 : f[u][j].module = m
<1>1. InOrder(found)
  BY DEF Ordered, Before
<1>2. InOrder(found') => Ordered(u)'
  BY ONLY DEF Ordered, Before
<1> HIDE DEF InOrder
<1> QED
  BY ONLY <1>1, <1>2, found' = found

(* The compiler accepts a closure only if all it imports is in it and no   *)
(* files import one another: then each comes after what it imports.        *)
LEMMA BuildClosure ==
  ASSUME TypeOK, NEW u \in Threads, Reading(u), Directory(u), Closure(u), Build(u)
  PROVE  Closure(u)'
<1> DEFINE Said(x) == [module |-> x.module, text |-> x.text]
           built == Project(found[u])
<1>1. /\ pc[u] = "build" /\ Sorted(u) /\ stack[u] = <<>>
      /\ found' = found /\ pc'[u] = "load" /\ Compiles(built)
  BY DEF TypeOK, Goto, Closure, Build, locals
<1>2. Parts(u) = Elements(found[u])
  <2>1. Elements(<<>>) = {}
    BY DEF Elements
  <2> QED
    BY <1>1, <2>1 DEF Parts
<1>3. /\ \A x \in Elements(found[u]) : Said(x) \in built
      /\ \A f \in built : \E i \in 1..Len(found[u]) : f = Said(found[u][i])
  BY AllBuilt DEF Elements
<1>4. \A x : Said(x).module = x.module /\ Said(x).text = x.text
  OBVIOUS
<1> HIDE DEF Said, built
<1>5. ~Cyclic(Parts(u))
  <2> SUFFICES ASSUME NEW S \in SUBSET Elements(found[u]), S # {},
                      \A x \in S : ImportsOf(x.text) \cap Names(S) # {}
               PROVE  FALSE
    BY <1>2 DEF Cyclic
  <2> DEFINE T == {Said(x) : x \in S}
  <2>1. T \in SUBSET built /\ T # {}
    BY <1>3
  <2>2. Names(T) = Names(S)
    BY <1>4 DEF Names
  <2>3. \A f \in T : \E x \in S : f.text = x.text
    BY <1>4
  <2> HIDE DEF T
  <2>4. PICK f \in T : ImportsOf(f.text) \cap Names(T) = {}
    BY <1>1, <2>1 DEF Compiles
  <2> QED
    BY <2>2, <2>3, <2>4
<1>6. ASSUME NEW i \in 1..Len(found[u]), NEW m \in ImportsOf(found[u][i].text)
      PROVE  Before(u, i, m)
  <2>1. Said(found[u][i]) \in built
    BY <1>3 DEF Elements
  <2>2. m \in Names(built)
    BY <1>1, <1>4, <2>1 DEF Compiles
  <2>3. PICK j \in 1..Len(found[u]) : found[u][j].module = m
    BY <1>3, <1>4, <2>2 DEF Names
  <2>4. found[u][j].file = Place(u, m) /\ found[u][j] \in Elements(found[u])
    BY <2>3, PartTypes DEF Directory, Elements
  <2>5. Place(u, m) \in seen[u]
    BY <1>1, <2>4 DEF Paths, Reading, SeenIsRead
  <2> QED
    BY <1>1, <1>5, <2>5 DEF Sorted
<1>7. Ordered(u)'
  <2>1. Ordered(u)
    BY <1>6 DEF Ordered
  <2> QED
    BY <1>1, <2>1, OrderedStays
<1> QED
  BY <1>1, <1>7 DEF Closure

LEMMA ClosureStep ==
  ASSUME NoImportAppears, TypeOK, Walking, Copying, Readings, Placing, Directories, Closures, [Next]_vars
  PROVE  Closures'
<1> SUFFICES ASSUME NEW u \in Threads
             PROVE  Closure(u)'
  BY DEF Closures
<1>1. Closure(u) /\ Reading(u) /\ Placed(u) /\ Directory(u)
  BY DEF Closures, Readings, Placing, Directories
<1> USE DEF TypeOK, Goto, shared, locals
<1>2. CASE Edit \/ UNCHANGED vars
  BY <1>1, <1>2, ClosureKept DEF Edit, vars
<1>3. ASSUME NEW t \in Threads, t # u, Require(t) \/ Eval(t) \/ Running(t)
      PROVE  Closure(u)'
  <2>1. /\ pc'[u] = pc[u] /\ found'[u] = found[u] /\ stack'[u] = stack[u]
        /\ seen'[u] = seen[u] /\ target'[u] = target[u] /\ call'[u] = call[u]
    BY <1>3
       DEF Running, Require, Eval, Copy, Visit, Slurp, Fail, Descend, Complete, Lookup,
           Build, Reject, BinaryFails, Load, LoadThrows, NothingBuilt, Publish, Cleanup, Return
  <2> QED
    BY <1>1, <2>1, ClosureKept
<1>4. CASE Require(u) \/ Eval(u) \/ Copy(u)
  <2>1. /\ found'[u] = <<>> /\ stack'[u] = <<>> /\ pc'[u] \in {"copy", "visit"}
    BY <1>1, <1>4 DEF Require, Eval, Copy, Reading
  <2>2. Sorted(u)' /\ Handled(u)' /\ Chained(u)'
    BY <2>1 DEF Sorted, Handled, Chained
  <2> QED
    BY <2>1, <2>2 DEF Closure
<1>5. CASE Lookup(u)
  <2>1. /\ Sorted(u) /\ pc[u] = "walk" /\ stack[u] = <<>>
        /\ found' = found /\ stack' = stack /\ seen' = seen /\ disk' = disk
        /\ pc'[u] \in {"return", "build"} /\ call' = call
    BY <1>1, <1>5 DEF Lookup, Closure
  <2>2. Sorted(u)'
    <3>1. Cyclic(Parts(u))' <=> Cyclic(Parts(u))
      BY <2>1 DEF Parts, Cyclic, Names
    <3>2. \A i, m : Before(u, i, m)' <=> Before(u, i, m)
      BY <2>1 DEF Before
    <3> QED
      BY <2>1, <3>1, <3>2 DEF Sorted, Place
  <2> QED
    BY <2>1, <2>2 DEF Closure
<1>6. CASE Load(u)
  <2>1. pc'[u] = "load" /\ found' = found /\ Ordered(u)
    BY <1>1, <1>6 DEF Load, Closure
  <2>2. Ordered(u)'
    BY <2>1, OrderedStays
  <2> QED
    BY <2>1, <2>2 DEF Closure
<1>7. CASE \/ Reject(u) \/ BinaryFails(u) \/ LoadThrows(u) \/ NothingBuilt(u)
           \/ Publish(u) \/ Cleanup(u)
  <2>1. pc'[u] \in {"return", "cleanup"}
    BY <1>7 DEF Reject, BinaryFails, LoadThrows, NothingBuilt, Publish, Cleanup, Fail
  <2> QED
    BY <2>1 DEF Closure
<1>8. CASE Return(u)
  BY <1>8 DEF Return, Closure
<1> QED
  BY <1>1, <1>2, <1>3, <1>4, <1>5, <1>6, <1>7, <1>8, VisitClosure, SlurpClosure,
     DescendClosure, CompleteClosure, BuildClosure DEF Next, Running

(* Whatever the other threads load and the user deletes or rewrites, the   *)
(* namespaces a file requires are loaded before it: the walk puts a file   *)
(* after its imports, the compiler refuses the closures where it cannot    *)
(* (load.clj:42-54, 134-137).  With files in more than one directory it    *)
(* may not: one import is then two files, and one of them may be missing.  *)
THEOREM ImportsComeFirst ==
  ASSUME NoImportAppears, OneDirectory PROVE Spec => []RequiresAreLoaded
<1> DEFINE Known == /\ Walking /\ Copying /\ Readings /\ Stored /\ Placing
                    /\ Directories /\ Closures /\ Progressing
<1>1. Init => Known
  BY InitReading, InitPlaced
     DEF Init, Copying, Closures, Closure, Progressing, Progress, Walking, Targeted
<1>2. TypeOK /\ Known /\ [Next]_vars => Known'
  BY TargetedStep, CopyingStep, ReadingStep, StoredStep, PlacedStep, DirectoryStep, ClosureStep,
     ProgressStep
<1>3. TypeOK /\ Known => RequiresAreLoaded
  <2> SUFFICES ASSUME TypeOK, Known, NEW t \in Threads, pc[t] = "load",
                      next[t] <= Len(found[t]), NEW f \in Built(t), NEW m \in ImportsOf(f.text)
               PROVE  live[m] # Unloaded
    BY DEF RequiresAreLoaded
  <2>1. next[t] \in 1..Len(found[t]) /\ Reading(t) /\ Directory(t)
    BY Walked DEF TypeOK, Readings, Directories
  <2>2. f.text = found[t][next[t]].text
    <3>1. PICK i \in 1..Len(found[t]) : f = [module |-> found[t][i].module, text |-> found[t][i].text]
      BY <2>1, AllBuilt DEF Built
    <3>2. i = next[t]
      BY <2>1, <3>1, AllBuilt DEF Built
    <3> QED
      BY <3>1, <3>2
  <2>3. PICK j \in 1..next[t]-1 : found[t][j].module = m
    <3>1. Ordered(t)
      BY DEF Closures, Closure
    <3> QED
      BY <2>1, <2>2, <3>1 DEF Ordered, Before
  <2>4. j \in 1..Len(found[t]) /\ j < next[t]
    BY <2>1, Walked
  <2>5. [module |-> m, text |-> found[t][j].text] \in Project(found[t])
    BY <2>1, <2>3, <2>4, AllBuilt
  <2> QED
    BY <2>3, <2>4, <2>5 DEF Progressing, Progress, Entered
<1> QED
  BY <1>1, <1>2, <1>3, TypeCorrect, PTL DEF Spec
-----------------------------------------------------------------------------
(* What one thread may rely on while no other uses the loader.             *)
Alone == \A t, u \in Threads : t = u

(* A snippet that is its own closure: it imports nothing and does not      *)
(* throw.  Its call reads back the text it has written, and loads that.    *)
Snippet(t) == [module |-> Stem[call[t].entry], text |-> call[t].text]
Sourced(t) ==
  <<[module |-> Stem[call[t].entry], file |-> call[t].entry, text |-> call[t].text]>>
Plain(t) == IsEval(t) /\ Compiles({Snippet(t)}) /\ call[t].text \notin Faulty
Opened(t) ==
  <<[module |-> Stem[call[t].entry], file |-> call[t].entry, text |-> call[t].text,
     todo |-> <<>>]>>
Defined(t) == live[Stem[call[t].entry]].text = call[t].text

Fresh(t) ==
  /\ pc[t] \in {"idle", "copy"} => found[t] = <<>> /\ stack[t] = <<>> /\ seen[t] = {}
  /\ pc[t] = "idle" => call[t] = NoCall
  /\ IsEval(t) => call[t].reload /\ <<call[t].entry, call[t].text>> \in Snippets
Evaluates(t) ==
  /\ pc[t] \in {"visit", "slurp"} =>
       /\ target[t].module = Stem[call[t].entry] /\ target[t].file = call[t].entry
       /\ disk[call[t].entry] = call[t].text
       /\ found[t] = <<>> /\ stack[t] = <<>>
       /\ pc[t] = "visit" => seen[t] = {}
  /\ pc[t] = "walk" =>
       \/ found[t] = <<>> /\ stack[t] = Opened(t)
       \/ found[t] = Sourced(t) /\ stack[t] = <<>>
  /\ pc[t] \in {"build", "load", "cleanup"} => found[t] = Sourced(t)
  /\ pc[t] = "load" => next[t] = 1 \/ Defined(t)
  /\ pc[t] = "cleanup" => result[t] = "loaded" /\ Defined(t)
  /\ pc[t] = "return" => result[t] = "unavailable" \/ (result[t] = "loaded" /\ Defined(t))
Evaluating == \A t \in Threads : Fresh(t) /\ (Plain(t) => Evaluates(t))

LEMMA PlainText ==
  ASSUME TypeOK, NEW t \in Threads, Plain(t), Fresh(t)
  PROVE  /\ call[t].entry \in Files /\ call[t].text \in Texts /\ Stem[call[t].entry] \in Modules
         /\ ImportsOf(call[t].text) = {} /\ Imports[call[t].text] = <<>>
         /\ Project(Sourced(t)) = {Snippet(t)}
<1> DEFINE e == Snippet(t)
<1>1. call[t].entry \in Files /\ call[t].text \in Texts /\ Stem[call[t].entry] \in Modules
  BY TextsAssumption, FilesAssumption DEF Plain, Fresh
<1>2. Compiles({e})
  BY DEF Plain
<1>3. e.text = call[t].text
  BY DEF Snippet
<1> HIDE DEF e
<1>4. ImportsOf(e.text) \subseteq Names({e})
  BY <1>2 DEF Compiles
<1>5. ImportsOf(e.text) \cap Names({e}) = {}
  <2>1. {e} \in SUBSET {e} /\ {e} # {}
    OBVIOUS
  <2>2. \E x \in {e} : ImportsOf(x.text) \cap Names({e}) = {}
    BY <1>2, <2>1 DEF Compiles
  <2> QED
    BY <2>2
<1>6. ImportsOf(call[t].text) = {}
  BY <1>3, <1>4, <1>5
<1>7. Imports[call[t].text] = <<>>
  <2> DEFINE s == Imports[call[t].text]
  <2>1. s \in Seq(Modules)
    BY <1>1, TextsAssumption
  <2>2. DOMAIN s = 1..Len(s) /\ Len(s) \in Nat
    BY <2>1
  <2>3. ToSet(s) = {}
    BY <1>6 DEF ImportsOf
  <2> HIDE DEF s
  <2>4. ~(1 \in 1..Len(s))
    BY <2>2, <2>3 DEF ToSet
  <2>5. s = <<>>
    BY <2>1, <2>2, <2>4, EmptySeq
  <2> QED
    BY <2>5 DEF s
<1>8. Project(Sourced(t)) = {Snippet(t)}
  <2> DEFINE x == [module |-> Stem[call[t].entry], file |-> call[t].entry, text |-> call[t].text]
  <2>1. [module |-> x.module, text |-> x.text] = Snippet(t)
    BY DEF Snippet
  <2>2. Sourced(t) = <<x>>
    BY DEF Sourced
  <2> HIDE DEF x
  <2>3. DOMAIN <<x>> = {1} /\ <<x>>[1] = x
    OBVIOUS
  <2>4. {j \in DOMAIN <<x>> : \A k \in DOMAIN <<x>> : <<x>>[k].module = <<x>>[j].module => k <= j} = {1}
    BY <2>3
  <2> QED
    BY <2>1, <2>2, <2>3, <2>4 DEF Project
<1> QED
  BY <1>1, <1>6, <1>7, <1>8

LEMMA FreshStep ==
  ASSUME TypeOK, NEW u \in Threads, Fresh(u), [Next]_vars
  PROVE  Fresh(u)'
<1> USE DEF TypeOK, Goto, shared, locals, IsEval
<1>1. CASE Edit \/ UNCHANGED vars
  BY <1>1 DEF Edit, vars, Fresh
<1>2. ASSUME NEW t \in Threads, t # u, Require(t) \/ Eval(t) \/ Running(t)
      PROVE  Fresh(u)'
  <2>1. /\ pc'[u] = pc[u] /\ found'[u] = found[u] /\ stack'[u] = stack[u]
        /\ seen'[u] = seen[u] /\ call'[u] = call[u]
    BY <1>2
       DEF Running, Require, Eval, Copy, Visit, Slurp, Fail, Descend, Complete, Lookup,
           Build, Reject, BinaryFails, Load, LoadThrows, NothingBuilt, Publish, Cleanup, Return
  <2> QED
    BY <2>1 DEF Fresh
<1>3. CASE Require(u)
  BY <1>3 DEF Require, Fresh
<1>4. CASE Eval(u)
  <2>1. PICK s \in Snippets :
          call' = [call EXCEPT ![u] = [entry |-> s[1], reload |-> TRUE, text |-> s[2]]]
    BY <1>4 DEF Eval
  <2>2. s = <<s[1], s[2]>>
    BY TextsAssumption
  <2>3. call'[u].reload /\ <<call'[u].entry, call'[u].text>> \in Snippets
    BY <2>1, <2>2
  <2> QED
    BY <1>4, <2>3 DEF Eval, Fresh
<1>5. CASE Return(u)
  BY <1>5 DEF Return, Fresh, NoCall
<1>6. ASSUME Running(u), ~Return(u)
      PROVE  Fresh(u)'
  <2>1. pc'[u] \notin {"idle", "copy"} /\ call' = call
    BY <1>6
       DEF Running, Copy, Visit, Slurp, Fail, Descend, Complete, Lookup,
           Build, Reject, BinaryFails, Load, LoadThrows, NothingBuilt, Publish, Cleanup
  <2> QED
    BY <2>1 DEF Fresh
<1> QED
  BY <1>1, <1>2, <1>3, <1>4, <1>5, <1>6 DEF Next

LEMMA OpenedFile ==
  ASSUME NEW u \in Threads, stack[u] = Opened(u)
  PROVE  /\ stack[u] # <<>> /\ Last(stack[u]).todo = <<>> /\ Front(stack[u]) = <<>>
         /\ Last(stack[u]).module = Stem[call[u].entry] /\ Last(stack[u]).text = call[u].text
         /\ Last(stack[u]).file = call[u].entry
<1> DEFINE f == [module |-> Stem[call[u].entry], file |-> call[u].entry, text |-> call[u].text,
                 todo |-> <<>>]
<1>1. /\ f.module = Stem[call[u].entry] /\ f.file = call[u].entry
      /\ f.text = call[u].text /\ f.todo = <<>>
  OBVIOUS
<1>2. stack[u] = <<f>>
  BY DEF Opened
<1> HIDE DEF f
<1>3. Len(<<f>>) = 1 /\ <<f>>[1] = f /\ <<f>> # <<>>
  OBVIOUS
<1>4. Last(<<f>>) = f
  BY <1>3 DEF Last
<1>5. Front(<<f>>) = <<>>
  BY <1>3 DEF Front
<1> QED
  BY <1>1, <1>2, <1>3, <1>4, <1>5

LEMMA EvaluatesStep ==
  ASSUME TypeOK, Progressing, Copying, NEW u \in Threads,
         Fresh(u), Plain(u) => Evaluates(u), Running(u), Plain(u)'
  PROVE  Evaluates(u)'
<1> DEFINE f == call[u].entry
           m == Stem[f]
           text == call[u].text
<1> USE DEF TypeOK, Goto, shared, locals
<1>1. ~Return(u)
  BY DEF Return, Plain, IsEval, NoCall
<1>2. call' = call
  BY <1>1
     DEF Running, Copy, Visit, Slurp, Fail, Descend, Complete, Lookup,
         Build, Reject, BinaryFails, Load, LoadThrows, NothingBuilt, Publish, Cleanup
<1>3. Plain(u) /\ Evaluates(u)
  BY <1>2 DEF Plain, IsEval, Snippet
<1>4. /\ f \in Files /\ m \in Modules /\ text \in Texts /\ text # NoFile
      /\ Project(Sourced(u)) = {Snippet(u)}
      /\ ImportsOf(text) = {} /\ Imports[text] = <<>>
      /\ Sourced(u)' = Sourced(u) /\ Opened(u)' = Opened(u)
  BY <1>2, <1>3, PlainText, TextsAssumption DEF Sourced, Opened
<1>5. /\ Len(Sourced(u)) = 1 /\ Sourced(u) # <<>>
      /\ Sourced(u)[1].module = m /\ Snippet(u).module = m /\ Snippet(u).text = text
  BY DEF Sourced, Snippet
<1>5a. found[u] = Sourced(u) /\ next[u] <= Len(found[u]) => next[u] = 1
  <2> SUFFICES ASSUME found[u] = Sourced(u), next[u] <= Len(found[u])
               PROVE  next[u] = 1
    OBVIOUS
  <2>1. next[u] \in Nat \ {0}
    OBVIOUS
  <2>2. Len(found[u]) = 1
    BY <1>5
  <2>3. next[u] <= 1
    BY <2>2
  <2> QED
    BY ONLY <2>1, <2>3
<1>6. CASE Copy(u)
  BY <1>2, <1>4, <1>6 DEF Copy, Fresh, Evaluates
<1>7. CASE Visit(u)
  <2>1. /\ target[u].module = m /\ target[u].file = f /\ disk[f] = text
        /\ seen[u] = {} /\ stack[u] = <<>> /\ found[u] = <<>>
    BY <1>3, <1>7 DEF Visit, Evaluates
  <2>2. pc'[u] = "slurp" /\ UNCHANGED <<disk, target, stack, found>>
    BY <1>4, <1>7, <2>1 DEF Visit
  <2> QED
    BY <1>2, <2>1, <2>2 DEF Evaluates
<1>8. CASE Slurp(u)
  <2>1. /\ target[u].module = m /\ target[u].file = f /\ disk[f] = text
        /\ stack[u] = <<>> /\ found[u] = <<>>
    BY <1>3, <1>8 DEF Slurp, Evaluates
  <2>2. /\ pc'[u] = "walk" /\ found' = found
        /\ stack'[u] = Append(<<>>, [module |-> m, file |-> f, text |-> text, todo |-> <<>>])
    BY <1>4, <1>8, <2>1 DEF Slurp
  <2>3. stack'[u] = Opened(u)
    BY <2>2 DEF Opened
  <2> QED
    BY <1>2, <1>4, <2>1, <2>2, <2>3 DEF Evaluates
<1>9. CASE Descend(u) \/ Complete(u)
  <2>1. stack[u] = Opened(u) /\ found[u] = <<>>
    BY <1>3, <1>9 DEF Descend, Complete, Evaluates
  <2>2. /\ Last(stack[u]).todo = <<>> /\ Front(stack[u]) = <<>>
        /\ Last(stack[u]).module = m /\ Last(stack[u]).text = text /\ Last(stack[u]).file = f
    BY <2>1, OpenedFile
  <2>3. Complete(u)
    BY <1>9, <2>2 DEF Descend
  <2>4. /\ pc'[u] = "walk" /\ stack'[u] = <<>>
        /\ found'[u] = Append(<<>>, [module |-> m, file |-> f, text |-> text])
    BY <2>1, <2>2, <2>3 DEF Complete
  <2>5. found'[u] = Sourced(u)
    BY <2>4 DEF Sourced
  <2> QED
    BY <1>4, <2>4, <2>5 DEF Evaluates
<1>10. CASE Lookup(u)
  <2>1. found[u] = Sourced(u) /\ call[u].reload
    <3>1. Opened(u) # <<>>
      BY DEF Opened
    <3> QED
      BY <1>3, <1>10, <3>1 DEF Lookup, Evaluates, Fresh, Plain
  <2> QED
    BY <1>4, <1>10, <2>1 DEF Lookup, Evaluates
<1>11. CASE Build(u)
  BY <1>3, <1>4, <1>11 DEF Build, Evaluates, Progressing, Progress
<1>12. CASE Reject(u)
  <2>1. found[u] = Sourced(u) /\ ~Compiles(Project(found[u]))
    BY <1>3, <1>12 DEF Reject, Evaluates
  <2> QED
    BY <1>3, <1>4, <2>1 DEF Plain
<1>13. CASE BinaryFails(u)
  BY <1>13 DEF BinaryFails, Evaluates
<1>14. CASE Load(u)
  <2>1. found[u] = Sourced(u) /\ next[u] = 1 /\ found' = found /\ pc'[u] = "load"
    <3>1. pc[u] = "load" /\ next[u] <= Len(found[u]) /\ found' = found /\ pc' = pc
      BY <1>14 DEF Load
    <3>2. found[u] = Sourced(u)
      BY <1>3, <3>1 DEF Evaluates
    <3>3. next[u] = 1
      BY <1>5a, <3>1, <3>2
    <3> QED
      BY <3>1, <3>2, <3>3
  <2>2. Redefine(m, text)
    <3>1. \A x \in Built(u) : x = Snippet(u)
      BY <1>4, <2>1 DEF Built
    <3> QED
      BY <1>5, <1>14, <3>1 DEF Load
  <2>3. live'[m].text = text
    BY <1>4, <2>2 DEF Redefine
  <2> QED
    BY <1>2, <1>4, <2>1, <2>3 DEF Evaluates, Defined
<1>15. CASE LoadThrows(u)
  <2>1. pc[u] = "load" /\ next[u] <= Len(found[u]) /\ (\E x \in Built(u) : ~Loadable(x))
    BY <1>15 DEF LoadThrows
  <2>2. found[u] = Sourced(u)
    BY <1>3, <2>1 DEF Evaluates
  <2>3. next[u] = 1
    BY <1>5a, <2>1, <2>2
  <2>4. \A x \in Built(u) : x.text = text
    BY <1>4, <1>5, <2>2 DEF Built
  <2> QED
    BY <1>3, <1>4, <2>1, <2>4 DEF Loadable, Plain
<1>16. CASE NothingBuilt(u)
  BY <1>3, <1>5, <1>16 DEF NothingBuilt, Evaluates
<1>17. CASE Publish(u)
  <2>1. found[u] = Sourced(u) /\ next[u] # 1
    BY <1>3, <1>5, <1>17 DEF Publish, Evaluates
  <2> QED
    BY <1>2, <1>3, <1>4, <1>17, <2>1 DEF Publish, Evaluates, Defined
<1>18. CASE Cleanup(u)
  BY <1>2, <1>3, <1>18 DEF Cleanup, Evaluates, Defined
<1> QED
  BY <1>1, <1>6, <1>7, <1>8, <1>9, <1>10, <1>11, <1>12, <1>13, <1>14, <1>15, <1>16, <1>17, <1>18
     DEF Running

LEMMA EvaluatingStep ==
  ASSUME Alone, TypeOK, Progressing, Copying, Evaluating, [Next]_vars
  PROVE  Evaluating'
<1> SUFFICES ASSUME NEW u \in Threads, Plain(u)'
             PROVE  Evaluates(u)'
  BY FreshStep DEF Evaluating
<1> USE DEF TypeOK, Goto, shared, locals
<1>1. Fresh(u) /\ (Plain(u) => Evaluates(u))
  BY DEF Evaluating
<1>2. ASSUME UNCHANGED <<live, pc, locals>>, Plain(u) => disk'[call[u].entry] = disk[call[u].entry]
      PROVE  Evaluates(u)'
  <2>1. Plain(u) /\ Evaluates(u)
    BY <1>1, <1>2 DEF Plain, IsEval, Snippet
  <2> QED
    BY <1>2, <2>1 DEF Evaluates, Sourced, Opened, Defined
<1>3. CASE Edit
  <2>1. PICK e \in Edits : disk' = [disk EXCEPT ![e[1]] = e[3]]
    BY <1>3 DEF Edit
  <2>2. Plain(u) => e[1] # call[u].entry /\ call[u].entry \in Files
    BY <1>1, SnippetsAssumption, TextsAssumption DEF Plain, Fresh
  <2>3. Plain(u) => disk'[call[u].entry] = disk[call[u].entry]
    BY <2>1, <2>2
  <2> QED
    BY <1>2, <1>3, <2>3 DEF Edit
<1>4. CASE UNCHANGED vars
  BY <1>2, <1>4 DEF vars
<1>5. ASSUME NEW t \in Threads, Require(t) \/ Eval(t) \/ Running(t)
      PROVE  Evaluates(u)'
  <2>1. t = u
    BY DEF Alone
  <2>2. CASE Require(u)
    BY <2>2 DEF Require, Plain, IsEval
  <2>3. CASE Eval(u)
    BY <2>3 DEF Eval, Evaluates
  <2>4. CASE Running(u)
    BY <1>1, <2>4, EvaluatesStep
  <2> QED
    BY <1>5, <2>1, <2>2, <2>3, <2>4
<1> QED
  BY <1>3, <1>4, <1>5 DEF Next

(* A thread that has the loader to itself evaluates what it was given: a   *)
(* snippet the compiler accepts and that does not throw ends as the        *)
(* namespace its call returns, whatever the user edits meanwhile, whatever *)
(* was loaded or has failed before under its name (load.clj:142-156).      *)
THEOREM SnippetsRun == ASSUME Alone PROVE Spec => []EvalRunsItsSource
<1>1. Init => Evaluating /\ Copying /\ Progressing
  BY DEF Init, Evaluating, Fresh, Plain, IsEval, NoCall, Copying, Progressing, Progress
<1>2. TypeOK /\ Evaluating /\ Copying /\ Progressing /\ [Next]_vars
        => Evaluating' /\ Copying' /\ Progressing'
  BY EvaluatingStep, CopyingStep, ProgressStep
<1>3. Evaluating => EvalRunsItsSource
  BY DEF Evaluating, Evaluates, Plain, Snippet, Defined, EvalRunsItsSource
<1> QED
  BY <1>1, <1>2, <1>3, TypeCorrect, PTL DEF Spec

(* The files before the index are defined from the texts that were read,   *)
(* and nothing they import has been replaced since.                        *)
Current(t, i) == live[found[t][i].module] = [text |-> found[t][i].text, stale |-> {}]
Coherent(t) ==
  /\ pc[t] = "build" => next[t] = 1
  /\ pc[t] = "load" => \A i \in 1..Len(found[t]) : i < next[t] => Current(t, i)
  /\ pc[t] = "cleanup" => \A i \in 1..Len(found[t]) : Current(t, i)

(* Loading a file replaces nothing an earlier one imports: its imports     *)
(* were before it, and no module is loaded twice.                          *)
LEMMA LoadCoherent ==
  ASSUME TypeOK, NEW u \in Threads, Reading(u), Directory(u), Closure(u), Coherent(u), Load(u)
  PROVE  Coherent(u)'
<1> DEFINE n == next[u]
           e == found[u][n]
<1>1. /\ pc[u] = "load" /\ pc'[u] = "load" /\ found' = found /\ next'[u] = n + 1
      /\ Ordered(u)
  BY DEF Load, TypeOK, Closure
<1>2. n \in 1..Len(found[u])
  BY DEF Load, TypeOK
<1>2a. \A i, j \in 1..Len(found[u]) : found[u][i].module = found[u][j].module => i = j
  BY AllBuilt
<1>2b. Redefine(e.module, e.text)
  <2>1. PICK f \in Built(u) : Redefine(f.module, f.text)
    BY DEF Load
  <2>2. PICK i \in 1..Len(found[u]) : f = [module |-> found[u][i].module, text |-> found[u][i].text]
    BY AllBuilt DEF Built
  <2>3. i = n
    BY <1>2, <1>2a, <2>1, <2>2 DEF Built
  <2> QED
    BY <2>1, <2>2, <2>3
<1>3. e.module \in Modules
  BY <1>2, Walked
<1> HIDE DEF n, e
<1>4. ASSUME NEW i \in 1..Len(found[u]), i < n + 1
      PROVE  live'[found[u][i].module] = [text |-> found[u][i].text, stale |-> {}]
  <2>1. found[u][i].module \in Modules
    BY Walked
  <2>2. CASE i = n
    BY <1>2b, <1>3, <2>2 DEF Redefine, e
  <2>3. CASE i # n
    <3>1. i < n
      BY <1>2, <1>4, <2>3
    <3>2. live[found[u][i].module] = [text |-> found[u][i].text, stale |-> {}]
      BY <1>1, <3>1 DEF Coherent, Current, n
    <3>3. found[u][i].module # e.module
      BY <1>2, <1>2a, <2>3 DEF e
    <3>4. e.module \notin ImportsOf(found[u][i].text)
      <4> SUFFICES ASSUME e.module \in ImportsOf(found[u][i].text)
                   PROVE  FALSE
        OBVIOUS
      <4>1. PICK j \in 1..i-1 : found[u][j].module = e.module
        BY <1>1 DEF Ordered, Before
      <4>2. j \in 1..Len(found[u]) /\ j # n
        BY <1>2, <3>1, <4>1
      <4> QED
        BY <1>2, <1>2a, <4>1, <4>2 DEF e
    <3>5. live'[found[u][i].module] = live[found[u][i].module]
      <4>1. live[found[u][i].module].text = found[u][i].text
        BY <3>2
      <4> QED
        BY <1>2b, <2>1, <3>3, <3>4, <4>1 DEF Redefine
    <3> QED
      BY <3>2, <3>5
  <2> QED
    BY <2>2, <2>3
<1> QED
  BY <1>1, <1>4 DEF Coherent, Current

LEMMA CoherentStep ==
  ASSUME Alone, TypeOK, Progressing, NEW u \in Threads,
         Reading(u), Directory(u), Closure(u), Coherent(u), [Next]_vars
  PROVE  Coherent(u)'
<1> USE DEF TypeOK, Goto, shared, locals
<1>1. CASE Edit \/ UNCHANGED vars
  BY <1>1 DEF Edit, vars, Coherent, Current
<1>2. ASSUME NEW t \in Threads, Require(t) \/ Eval(t) \/ Running(t)
      PROVE  Coherent(u)'
  <2>1. t = u
    BY DEF Alone
  <2>2. CASE Load(u)
    BY <2>2, LoadCoherent
  <2>3. CASE Build(u)
    <3>1. pc'[u] = "load" /\ next'[u] = 1
      BY <2>3 DEF Build, Coherent
    <3>2. \A i \in 1..Len(found'[u]) : ~(i < 1)
      OBVIOUS
    <3> QED
      BY <3>1, <3>2 DEF Coherent
  <2>4. CASE Lookup(u)
    <3>1. next[u] = 1
      BY <2>4 DEF Lookup, Progressing, Progress
    <3> QED
      BY <2>4, <3>1 DEF Lookup, Coherent
  <2>5. CASE Publish(u)
    <3>1. /\ pc[u] = "load" /\ next[u] > Len(found[u])
          /\ found' = found /\ live' = live /\ pc'[u] = "cleanup"
      BY <2>5 DEF Publish
    <3>2. \A i \in 1..Len(found[u]) : i < next[u]
      BY <3>1
    <3> QED
      BY <3>1, <3>2 DEF Coherent, Current
  <2>6. ASSUME Require(u) \/ Eval(u) \/ Running(u), ~Load(u), ~Build(u), ~Lookup(u), ~Publish(u)
        PROVE  pc'[u] \notin {"build", "load", "cleanup"}
    BY <2>6
       DEF Running, Require, Eval, Copy, Visit, Slurp, Fail, Descend, Complete, Reject,
           BinaryFails, LoadThrows, NothingBuilt, Cleanup, Return
  <2> QED
    BY <1>2, <2>1, <2>2, <2>3, <2>4, <2>5, <2>6 DEF Coherent
<1> QED
  BY <1>1, <1>2 DEF Next

(* A thread that has the loader to itself leaves the namespaces of its     *)
(* closure as it has read them, each referring to the classes its imports  *)
(* have now, although most were loaded and replaced before                 *)
(* (load.clj:42-54, 134-140).  In more than one directory a closure may    *)
(* read two files of one name, of which one is loaded.                     *)
THEOREM LoadIsCoherent ==
  ASSUME Alone, NoImportAppears, OneDirectory PROVE Spec => []LoadedIsCoherent
<1> DEFINE Coherents == \A t \in Threads : Coherent(t)
           Known == /\ Walking /\ Copying /\ Readings /\ Stored /\ Placing
                    /\ Directories /\ Closures /\ Progressing
<1>1. Init => Known /\ Coherents
  BY InitReading, InitPlaced
     DEF Init, Copying, Closures, Closure, Progressing, Progress, Walking, Targeted, Coherent
<1>2. TypeOK /\ Known /\ Coherents /\ [Next]_vars => Known' /\ Coherents'
  <2>1. TypeOK /\ Known /\ Coherents /\ [Next]_vars => Coherents'
    BY CoherentStep DEF Closures, Readings, Directories
  <2> QED
    BY <2>1, TargetedStep, CopyingStep, ReadingStep, StoredStep, PlacedStep, DirectoryStep,
       ClosureStep, ProgressStep
<1>3. TypeOK /\ Coherents => LoadedIsCoherent
  <2> SUFFICES ASSUME TypeOK, Coherents, NEW t \in Threads, pc[t] = "cleanup", NEW e \in ToSet(found[t])
               PROVE  live[e.module] = [text |-> e.text, stale |-> {}]
    BY DEF LoadedIsCoherent
  <2>1. PICK i \in 1..Len(found[t]) : e = found[t][i]
    <3>1. DOMAIN found[t] = 1..Len(found[t])
      BY Walked
    <3> QED
      BY <3>1 DEF ToSet
  <2> QED
    BY <2>1 DEF Coherent, Current
<1> QED
  BY <1>1, <1>2, <1>3, TypeCorrect, PTL DEF Spec

-----------------------------------------------------------------------------
(* No file goes back to a text it had: the texts have ranks that each edit *)
(* of a file raises.                                                       *)
Ranks == [Files -> [Texts \cup {NoFile} -> Nat]]
Raises(rank) == \A e \in Edits : rank[e[1]][e[2]] < rank[e[1]][e[3]]
Older(rank, f, x, y) == rank[f][x] < rank[f][y]
Upto(rank, f, x, y) == x = y \/ Older(rank, f, x, y)

(* A name that is one file's, and no snippet's: a snippet is read by the   *)
(* call that wrote it, which never takes an answer from the cache.         *)
SnippetFile(f) == \E s \in Snippets : s[1] = f
Followed(m) == Sole(m) /\ \A f \in Present : Called(f, m) => ~SnippetFile(f)
Home(m) == CHOOSE f \in Present : Called(f, m)
(* What was built of it for a key of the cache.                            *)
Emitted(x) == [module |-> x.module, text |-> x.text]
Cached == {e \in UNION {Project(key) : key \in loaded} : Followed(e.module)}

(* A namespace is what was cached of it, unless its file has changed since.*)
Dated(rank) ==
  \A e \in Cached :
    /\ Home(e.module) \in Present /\ Called(Home(e.module), e.module)
    /\ Upto(rank, Home(e.module), e.text, disk[Home(e.module)])
    /\ \/ live[e.module].text = e.text
       \/ Older(rank, Home(e.module), e.text, disk[Home(e.module)])

(* What a walk reads is no older than what is cached, so that, until it    *)
(* loads something, what it finds in the cache is what is loaded.          *)
Dates(rank, t, x) ==
  /\ Upto(rank, x.file, x.text, disk[x.file])
  /\ \A e \in Cached : e.module = x.module => Upto(rank, x.file, e.text, x.text)
  /\ pc[t] \in {"visit", "slurp", "walk"} /\ Emitted(x) \in Cached => live[x.module].text = x.text
Dating(rank, t) ==
  pc[t] \in {"visit", "slurp", "walk", "build", "load"} =>
    \A x \in Parts(t) :
      IF Followed(x.module) THEN Dates(rank, t, x) ELSE Sole(x.module) => IsEval(t)
Answered(t) ==
  /\ pc[t] = "load" =>
       \A i \in 1..Len(found[t]) :
         i < next[t] /\ Sole(found[t][i].module)
           => live[found[t][i].module].text = found[t][i].text
  /\ result[t] = "hit" =>
       /\ pc[t] = "return"
       /\ \A x \in ToSet(found[t]) : Sole(x.module) => live[x.module].text = x.text

LEMMA UptoAgain ==
  ASSUME NEW rank \in Ranks, NEW f \in Files, NEW x \in Texts \cup {NoFile},
         NEW y \in Texts \cup {NoFile}, NEW z \in Texts \cup {NoFile}, Upto(rank, f, y, z)
  PROVE  /\ Upto(rank, f, x, y) => Upto(rank, f, x, z)
         /\ Older(rank, f, x, y) => Older(rank, f, x, z) /\ x # y
<1>1. rank[f][x] \in Nat /\ rank[f][y] \in Nat /\ rank[f][z] \in Nat
  BY DEF Ranks
<1> QED
  BY <1>1 DEF Upto, Older

LEMMA CachedTypes ==
  ASSUME TypeOK
  PROVE  \A e \in Cached : e.module \in Modules /\ e.text \in Texts /\ Followed(e.module)
<1>1. \A e \in Cached : e \in Keyed
  BY ProjectTypes DEF Cached
<1> QED
  BY <1>1 DEF Cached, Keyed

(* A file that is there and is called by such a name is the one.           *)
LEMMA HomeOf ==
  ASSUME NEW f \in Present, NEW m, Called(f, m), Followed(m)
  PROVE  Home(m) = f /\ f \in Files /\ ~SnippetFile(f)
<1>1. Home(m) \in Present /\ Called(Home(m), m)
  BY DEF Home
<1> QED
  BY <1>1 DEF Followed, Sole, Present

LEMMA PartsPresent ==
  ASSUME TypeOK, NEW t \in Threads, Placed(t), NEW x \in Parts(t)
  PROVE  /\ x.file \in Present /\ x.file \in Files /\ Called(x.file, x.module)
         /\ Followed(x.module) => Home(x.module) = x.file /\ ~SnippetFile(x.file)
<1>1. x.file \in Files /\ x.text \in Versions(x.file) /\ Called(x.file, x.module)
  BY PartTypes DEF Placed
<1>2. x.file \in Present
  BY <1>1 DEF Present
<1> QED
  BY <1>1, <1>2, HomeOf

(* A name that is one file's is read once, and what was read is built.     *)
LEMMA SoleBuilt ==
  ASSUME TypeOK, NEW t \in Threads, Reading(t), Placed(t),
         NEW i \in 1..Len(found[t]), Sole(found[t][i].module)
  PROVE  /\ \A j \in 1..Len(found[t]) : found[t][j].module = found[t][i].module => j = i
         /\ Emitted(found[t][i]) \in Project(found[t])
         /\ \A f \in Project(found[t]) : f.module = found[t][i].module => f = Emitted(found[t][i])
<1>1. found[t] \in Seq(EntrySet) /\ DOMAIN found[t] = 1..Len(found[t]) /\ Len(found[t]) \in Nat
  BY Walked
<1>2. ASSUME NEW j \in 1..Len(found[t]), found[t][j].module = found[t][i].module
      PROVE  j = i
  <2>1. found[t][i] \in Parts(t) /\ found[t][j] \in Parts(t)
    BY PartTypes
  <2>2. found[t][i].file = found[t][j].file
    BY <1>2, <2>1, PartsPresent DEF Sole
  <2> QED
    BY <2>2 DEF Reading, Apart, Single
<1>3. Emitted(found[t][i]) \in Project(found[t])
  <2>1. \A k \in DOMAIN found[t] : found[t][k].module = found[t][i].module => k <= i
    BY <1>1, <1>2
  <2> QED
    BY <1>1, <2>1 DEF Project, Emitted
<1>4. ASSUME NEW f \in Project(found[t]), f.module = found[t][i].module
      PROVE  f = Emitted(found[t][i])
  <2>1. PICK j \in DOMAIN found[t] : f = [module |-> found[t][j].module, text |-> found[t][j].text]
    BY Projected
  <2>2. j = i
    BY <1>1, <1>2, <1>4, <2>1
  <2> QED
    BY <2>1, <2>2 DEF Emitted
<1> QED
  BY <1>2, <1>3, <1>4

(* The files that are no snippets change only forward.                     *)
LEMMA DiskRises ==
  ASSUME TypeOK, Copying, Evaluating, [Next]_vars,
         NEW rank \in Ranks, Raises(rank), NEW f \in Files, ~SnippetFile(f)
  PROVE  Upto(rank, f, disk[f], disk'[f])
<1> USE DEF TypeOK, shared, locals
<1>1. CASE Edit
  <2>1. PICK e \in Edits : disk[e[1]] = e[2] /\ disk' = [disk EXCEPT ![e[1]] = e[3]]
    BY <1>1 DEF Edit
  <2> QED
    BY <2>1 DEF Raises, Upto, Older
<1>2. ASSUME NEW t \in Threads, Copy(t)
      PROVE  disk'[f] = disk[f]
  <2>1. <<call[t].entry, call[t].text>> \in Snippets
    BY <1>2 DEF Copy, Copying
  <2>2. call[t].entry # f
    BY <2>1 DEF SnippetFile
  <2> QED
    BY <1>2, <2>2 DEF Copy
<1>3. ASSUME NEW t \in Threads, Return(t)
      PROVE  disk'[f] = disk[f]
  <2>1. IsEval(t) => <<call[t].entry, call[t].text>> \in Snippets
    BY DEF Evaluating, Fresh
  <2>2. IsEval(t) => call[t].entry # f
    BY <2>1 DEF SnippetFile
  <2> QED
    BY <1>3, <2>2 DEF Return
<1>4. CASE UNCHANGED disk
  BY <1>4 DEF Upto
<1> QED
  BY <1>1, <1>2, <1>3, <1>4
     DEF Upto, Next, Running, Require, Eval, Visit, Slurp, Descend, Complete,
         Lookup, Build, Reject, BinaryFails, Load, LoadThrows, NothingBuilt, Publish, Cleanup, vars

LEMMA RedefinesOne ==
  ASSUME TypeOK, NEW m \in Modules, NEW text \in Texts \cup {Torn}, Redefine(m, text)
  PROVE  /\ live'[m].text = text
         /\ \A n \in Modules : n # m => live'[n].text = live[n].text
BY DEF TypeOK, Redefine

(* What the cache holds of a file is what its namespace is, or older.      *)
LEMMA DatedStep ==
  ASSUME Alone, TypeOK, Walking, Copying, Evaluating, Readings, Stored, Placing, CachedWasLoaded,
         [Next]_vars, NEW rank \in Ranks, Raises(rank), Dated(rank),
         \A t \in Threads : Dating(rank, t) /\ Answered(t)
  PROVE  Dated(rank)'
<1> USE DEF TypeOK, Goto, shared, locals
<1>1. ASSUME NEW e \in Cached
      PROVE  /\ e.module \in Modules /\ e.text \in Texts /\ Followed(e.module)
             /\ Home(e.module) \in Files
             /\ Upto(rank, Home(e.module), e.text, disk'[Home(e.module)])
             /\ Older(rank, Home(e.module), e.text, disk[Home(e.module)])
                  => Older(rank, Home(e.module), e.text, disk'[Home(e.module)])
  <2> DEFINE h == Home(e.module)
  <2>1. e.module \in Modules /\ e.text \in Texts /\ Followed(e.module)
    BY CachedTypes
  <2>2. h \in Files /\ ~SnippetFile(h) /\ Upto(rank, h, e.text, disk[h])
    BY <2>1, HomeOf DEF Dated
  <2> HIDE DEF h
  <2>3. disk[h] \in Texts \cup {NoFile} /\ disk'[h] \in Texts \cup {NoFile}
    BY <2>2, TypeStep
  <2>4. Upto(rank, h, disk[h], disk'[h])
    BY <2>2, DiskRises
  <2>5. /\ Upto(rank, h, e.text, disk'[h])
        /\ Older(rank, h, e.text, disk[h]) => Older(rank, h, e.text, disk'[h])
    BY <2>1, <2>2, <2>3, <2>4, UptoAgain
  <2> QED
    BY <2>1, <2>2, <2>5 DEF h
<1>2. CASE UNCHANGED <<live, loaded>>
  <2>1. Cached' = Cached
    BY <1>2 DEF Cached
  <2>2. \A e \in Cached : /\ Home(e.module) \in Present /\ Called(Home(e.module), e.module)
                          /\ \/ live[e.module].text = e.text
                             \/ Older(rank, Home(e.module), e.text, disk'[Home(e.module)])
    BY <1>1 DEF Dated
  <2> QED
    BY <1>1, <1>2, <2>1, <2>2 DEF Dated
<1>3. ASSUME NEW t \in Threads, Load(t) \/ LoadThrows(t)
      PROVE  Dated(rank)'
  <2>0. next[t] \in 1..Len(found[t]) /\ Placed(t)
    BY <1>3 DEF Load, LoadThrows, Placing
  <2>1. PICK f \in Built(t), text \in Texts \cup {Torn} :
          Redefine(f.module, text) /\ (text = f.text \/ ~Loadable(f))
    <3>1. \A f \in Built(t) : f.text \in Texts
      BY ProjectTypes DEF Built, Keyed
    <3> QED
      BY <1>3, <3>1 DEF Load, LoadThrows
  <2>2. PICK x \in Parts(t) : f.module = x.module /\ f.text = x.text
    <3>1. PICK i \in DOMAIN found[t] : f = [module |-> found[t][i].module, text |-> found[t][i].text]
      BY <2>1, Projected DEF Built
    <3>2. i \in 1..Len(found[t])
      BY Walked
    <3> QED
      BY <3>1, <3>2, PartTypes
  <2>3. x.module \in Modules /\ x.text \in Texts /\ x.file \in Files
    BY PartTypes
  <2>4. pc[t] = "load" /\ Cached' = Cached /\ disk' = disk
    BY <1>3 DEF Load, LoadThrows, Cached
  <2>5. /\ live'[x.module].text = text
        /\ \A n \in Modules : n # x.module => live'[n].text = live[n].text
    BY <2>1, <2>2, <2>3, RedefinesOne
  <2> SUFFICES ASSUME NEW e \in Cached
               PROVE  live'[e.module].text = e.text
                        \/ Older(rank, Home(e.module), e.text, disk[Home(e.module)])
    <3>1. \A e \in Cached : Home(e.module) \in Present /\ Called(Home(e.module), e.module)
      BY DEF Dated
    <3> QED
      BY <1>1, <2>4, <3>1 DEF Dated
  <2>6. CASE e.module # x.module
    BY <1>1, <2>5, <2>6 DEF Dated
  <2>7. CASE e.module = x.module
    <3> DEFINE h == x.file
    <3>1. Dates(rank, t, x) /\ Home(e.module) = h
      BY <1>1, <2>0, <2>2, <2>4, <2>7, PartsPresent DEF Dating
    <3>2. Upto(rank, h, e.text, x.text) /\ Upto(rank, h, x.text, disk[h])
      BY <2>7, <3>1 DEF Dates
    <3>3. CASE Older(rank, h, e.text, x.text)
      <4>1. disk[h] \in Texts \cup {NoFile} /\ e.text \in Texts \cup {NoFile}
            /\ x.text \in Texts \cup {NoFile} /\ h \in Files
        BY <1>1, <2>3
      <4> HIDE DEF h
      <4>2. rank[h][e.text] \in Nat /\ rank[h][x.text] \in Nat /\ rank[h][disk[h]] \in Nat
        BY <4>1 DEF Ranks
      <4>3. Older(rank, h, e.text, disk[h])
        BY <3>2, <3>3, <4>2 DEF Upto, Older
      <4> QED
        BY <3>1, <4>3
    <3>4. CASE e.text = x.text
      <4>1. PICK key \in loaded : e \in Project(key)
        BY DEF Cached
      <4>2. /\ e.text \notin Faulty /\ ImportsOf(e.text) \subseteq Names(Project(key))
            /\ \A y \in Project(key) : live[y.module] # Unloaded
        BY <4>1 DEF CachedWasLoaded, Compiles
      <4>3. Loadable(f)
        <5>1. \A m \in Names(Project(key)) : live[m] # Unloaded
          BY <4>2 DEF Names
        <5> QED
          BY <2>2, <3>4, <4>2, <5>1 DEF Loadable
      <4> QED
        BY <2>1, <2>2, <2>5, <2>7, <3>4, <4>3
    <3> HIDE DEF h
    <3> QED
      BY <3>2, <3>3, <3>4 DEF Upto
  <2> QED
    BY <2>6, <2>7
<1>4. ASSUME NEW t \in Threads, Publish(t)
      PROVE  Dated(rank)'
  <2>1. /\ pc[t] = "load" /\ live' = live /\ loaded' = loaded \cup {Key(found[t])} /\ disk' = disk
        /\ next[t] > Len(found[t]) /\ Placed(t) /\ found[t] \in Seq(EntrySet)
    BY <1>4 DEF Publish, Placing
  <2>2. ASSUME NEW e \in Cached', e \notin Cached
        PROVE  /\ Home(e.module) \in Present /\ Called(Home(e.module), e.module)
               /\ Upto(rank, Home(e.module), e.text, disk[Home(e.module)])
               /\ live[e.module].text = e.text
    <3>1. e \in Project(found[t]) /\ Followed(e.module)
      <4>1. Project(Key(found[t])) = Project(found[t])
        BY <2>1, KeyTypes
      <4>2. PICK key \in loaded \cup {Key(found[t])} : e \in Project(key) /\ Followed(e.module)
        BY <2>1, <2>2 DEF Cached
      <4>3. key \notin loaded
        BY <2>2, <4>2 DEF Cached
      <4> QED
        BY <4>1, <4>2, <4>3
    <3>2. PICK i \in 1..Len(found[t]) : e = [module |-> found[t][i].module, text |-> found[t][i].text]
      <4>1. DOMAIN found[t] = 1..Len(found[t])
        BY Walked
      <4>2. \E i \in DOMAIN found[t] : e = [module |-> found[t][i].module, text |-> found[t][i].text]
        BY <3>1, Projected
      <4> QED
        BY <4>1, <4>2
    <3> DEFINE x == found[t][i]
    <3>3. x \in Parts(t) /\ e.module = x.module /\ e.text = x.text /\ i < next[t]
      BY <2>1, <3>2, PartTypes
    <3>4. live[e.module].text = e.text
      BY <2>1, <3>1, <3>2, <3>3 DEF Answered, Followed
    <3> HIDE DEF x
    <3>5. Home(e.module) = x.file /\ x.file \in Present /\ Called(x.file, e.module)
      BY <2>1, <3>1, <3>3, PartsPresent
    <3>6. Dates(rank, t, x)
      BY <2>1, <3>1, <3>3 DEF Dating
    <3> QED
      BY <3>3, <3>4, <3>5, <3>6 DEF Dates
  <2>3. ASSUME NEW e \in Cached
        PROVE  /\ Home(e.module) \in Present /\ Called(Home(e.module), e.module)
               /\ Upto(rank, Home(e.module), e.text, disk[Home(e.module)])
               /\ \/ live[e.module].text = e.text
                  \/ Older(rank, Home(e.module), e.text, disk[Home(e.module)])
    BY DEF Dated
  <2> QED
    BY <2>1, <2>2, <2>3 DEF Dated
<1> QED
  BY <1>2, <1>3, <1>4
     DEF Next, Running, Edit, Require, Eval, Copy, Visit, Slurp, Descend, Complete,
         Lookup, Build, Reject, BinaryFails, NothingBuilt, Cleanup, Return, vars

LEMMA SlurpDating ==
  ASSUME Alone, TypeOK, Walking, SnippetsHeld, Stored, Placing,
         NEW u \in Threads, Slurp(u), pc'[u] = "walk",
         NEW rank \in Ranks, Dated(rank), Dating(rank, u)
  PROVE  Dating(rank, u)'
<1> USE DEF TypeOK, Goto, shared
<1>0. PICK m, g, x : m = target[u].module /\ g = target[u].file
                     /\ x = [module |-> m, file |-> g, text |-> disk[g]]
  OBVIOUS
<1>1. /\ m \in Modules /\ g \in Files /\ disk[g] # NoFile /\ disk[g] \in Texts /\ pc[u] = "slurp"
      /\ UNCHANGED <<disk, live, loaded, call>>
  BY <1>0 DEF Slurp, Fail, Walking, Targeted, Targets
<1>2. Parts(u)' = Parts(u) \cup {x}
  BY <1>0, <1>1, SlurpParts
<1>3. x.module = m /\ x.text = disk[g] /\ x.file = g
  BY <1>0
<1>4. Cached' = Cached /\ (IsEval(u)' <=> IsEval(u))
  BY <1>1 DEF Cached, IsEval
<1>5. g \in Present /\ Called(g, m)
  BY <1>0, <1>1 DEF Stored, Present, Placing, Placed
<1>6. ASSUME ~Followed(m), Sole(m)
      PROVE  IsEval(u)
  <2>1. PICK f \in Present : Called(f, m) /\ SnippetFile(f)
    BY <1>6 DEF Followed
  <2>2. f = g
    BY <1>5, <1>6, <2>1 DEF Sole
  <2>3. PICK s \in Snippets : s[1] = g
    BY <2>1, <2>2 DEF SnippetFile
  <2>4. \E t \in Threads : IsEval(t)
    BY <1>1, <2>3 DEF SnippetsHeld
  <2> QED
    BY <2>4 DEF Alone
<1>7. ASSUME Followed(m)
      PROVE  Dates(rank, u, x)'
  <2>0. Home(m) = g
    BY <1>5, <1>7, HomeOf
  <2>1. \A e \in Cached : e.module = m => Upto(rank, g, e.text, disk[g])
    BY <2>0 DEF Dated
  <2>2. ASSUME Emitted(x) \in Cached
        PROVE  live[m].text = disk[g]
    <3>1. ~Older(rank, g, disk[g], disk[g])
      BY <1>1 DEF Ranks, Older
    <3>2. Emitted(x).module = m /\ Emitted(x).text = disk[g]
      BY <1>3 DEF Emitted
    <3> QED
      BY <2>0, <2>2, <3>1, <3>2 DEF Dated
  <2> QED
    BY <1>1, <1>3, <1>4, <2>1, <2>2 DEF Dates, Upto
<1>8. ASSUME NEW y \in Parts(u), Followed(y.module)
      PROVE  Dates(rank, u, y)'
  <2>1. Dates(rank, u, y)
    BY <1>1, <1>8 DEF Dating
  <2> QED
    BY <1>1, <1>4, <2>1 DEF Dates
<1>9. \A y \in Parts(u) : ~Followed(y.module) /\ Sole(y.module) => IsEval(u)
  BY <1>1 DEF Dating
<1> QED
  BY <1>2, <1>3, <1>4, <1>6, <1>7, <1>8, <1>9 DEF Dating

LEMMA DatingStep ==
  ASSUME Alone, TypeOK, Walking, Copying, Evaluating, SnippetsHeld, Stored, Placing, [Next]_vars,
         NEW rank \in Ranks, Raises(rank), Dated(rank), NEW u \in Threads, Dating(rank, u)
  PROVE  Dating(rank, u)'
<1> DEFINE Walks == {"visit", "slurp", "walk"}
           Reads == {"visit", "slurp", "walk", "build", "load"}
<1> USE DEF TypeOK, Goto, shared, locals
<1>1. ASSUME Parts(u)' = Parts(u), loaded' = loaded, call'[u] = call[u], pc[u] \in Reads,
             pc'[u] \in Walks => pc[u] \in Walks /\ live' = live
      PROVE  Dating(rank, u)'
  <2>1. Cached' = Cached /\ (IsEval(u)' <=> IsEval(u))
    BY <1>1 DEF Cached, IsEval
  <2>2. ASSUME NEW x \in Parts(u), Followed(x.module)
        PROVE  Dates(rank, u, x)'
    <3>1. Dates(rank, u, x)
      BY <1>1, <2>2 DEF Dating
    <3>2. x.file \in Files /\ x.text \in Texts /\ ~SnippetFile(x.file)
      BY <2>2, PartTypes, PartsPresent DEF Placing
    <3>3. Upto(rank, x.file, disk[x.file], disk'[x.file])
      BY <3>2, DiskRises
    <3>4. disk[x.file] \in Texts \cup {NoFile} /\ disk'[x.file] \in Texts \cup {NoFile}
      BY <3>2, TypeStep
    <3>5. Upto(rank, x.file, x.text, disk'[x.file])
      BY <3>1, <3>2, <3>3, <3>4, UptoAgain DEF Dates
    <3> QED
      BY <1>1, <2>1, <3>1, <3>5 DEF Dates
  <2>3. \A x \in Parts(u) : ~Followed(x.module) /\ Sole(x.module) => IsEval(u)
    BY <1>1 DEF Dating
  <2> QED
    BY <1>1, <2>1, <2>2, <2>3 DEF Dating
<1>2. ASSUME pc'[u] \notin Reads
      PROVE  Dating(rank, u)'
  BY <1>2 DEF Dating
<1>3. CASE Edit \/ UNCHANGED vars
  <2>1. UNCHANGED <<found, stack, loaded, call, pc, live>>
    BY <1>3 DEF Edit, vars
  <2>2. Parts(u)' = Parts(u)
    BY <2>1 DEF Parts
  <2> QED
    BY <1>1, <1>2, <2>1, <2>2
<1>4. ASSUME Require(u) \/ Eval(u) \/ Copy(u)
      PROVE  Dating(rank, u)'
  <2>1. found'[u] = <<>> /\ stack'[u] = <<>>
    BY <1>4 DEF Require, Eval, Copy, Evaluating, Fresh
  <2>2. Parts(u)' = {}
    BY <2>1 DEF Parts, Elements
  <2> QED
    BY <2>2 DEF Dating
<1>5. CASE Slurp(u)
  <2>1. pc'[u] \in {"walk", "return"}
    BY <1>5 DEF Slurp, Fail
  <2> QED
    BY <1>2, <1>5, <2>1, SlurpDating
<1>6. ASSUME Visit(u) \/ Descend(u) \/ Complete(u) \/ Lookup(u) \/ Build(u) \/ Load(u)
      PROVE  Dating(rank, u)'
  <2>1. Parts(u)' = Parts(u)
    <3>1. Visit(u) \/ Lookup(u) \/ Build(u) \/ Load(u) => found' = found /\ stack' = stack
      BY DEF Visit, Lookup, Build, Load
    <3> QED
      BY <1>6, <3>1, PartsKept
  <2>2. /\ loaded' = loaded /\ call' = call /\ pc[u] \in Reads
        /\ pc'[u] \in Walks => pc[u] \in Walks /\ live' = live
    BY <1>6 DEF Visit, Descend, Complete, Lookup, Build, Load
  <2> QED
    BY <1>1, <2>1, <2>2
<1>7. ASSUME \/ Reject(u) \/ BinaryFails(u) \/ LoadThrows(u) \/ NothingBuilt(u)
             \/ Publish(u) \/ Cleanup(u) \/ Return(u)
      PROVE  Dating(rank, u)'
  <2>1. pc'[u] \in {"return", "cleanup", "idle"}
    BY <1>7 DEF Reject, BinaryFails, LoadThrows, NothingBuilt, Publish, Cleanup, Return, Fail
  <2> QED
    BY <1>2, <2>1
<1>8. ASSUME NEW t \in Threads, Require(t) \/ Eval(t) \/ Running(t)
      PROVE  Dating(rank, u)'
  <2>1. t = u
    BY DEF Alone
  <2> QED
    BY <1>4, <1>5, <1>6, <1>7, <1>8, <2>1 DEF Running
<1> QED
  BY <1>3, <1>8 DEF Next

(* What a call has loaded stays loaded while it goes on, and what it finds *)
(* in the cache is the closure it has just read.                           *)
LEMMA AnsweredStep ==
  ASSUME Alone, TypeOK, Progressing, Readings, Evaluating, Placing, [Next]_vars,
         NEW rank \in Ranks, NEW u \in Threads, Dating(rank, u), Answered(u)
  PROVE  Answered(u)'
<1> USE DEF TypeOK, Goto, shared, locals
<1>1. ASSUME UNCHANGED <<pc, found, next, result, live>>
      PROVE  Answered(u)'
  BY <1>1 DEF Answered
<1>2. ASSUME pc'[u] # "load", result'[u] # "hit"
      PROVE  Answered(u)'
  BY <1>2 DEF Answered
<1>3. CASE Edit \/ UNCHANGED vars
  BY <1>1, <1>3 DEF Edit, vars
<1>4. CASE Lookup(u)
  <2>1. /\ pc[u] = "walk" /\ found' = found /\ live' = live /\ loaded' = loaded
        /\ pc'[u] \in {"return", "build"} /\ (pc'[u] = "build" => result' = result)
        /\ result[u] # "hit"
    BY <1>4 DEF Lookup, Answered
  <2>2. CASE pc'[u] = "build"
    BY <1>2, <2>1, <2>2
  <2>3. CASE pc'[u] = "return"
    <3>1. ~call[u].reload /\ Key(found[u]) \in loaded
      BY <1>4, <2>3 DEF Lookup
    <3>2. ~IsEval(u)
      BY <3>1 DEF Evaluating, Fresh
    <3>3. ASSUME NEW x \in ToSet(found[u]), Sole(x.module)
          PROVE  live[x.module].text = x.text
      <4>1. PICK i \in 1..Len(found[u]) : x = found[u][i]
        <5>1. DOMAIN found[u] = 1..Len(found[u])
          BY Walked
        <5> QED
          BY <5>1 DEF ToSet
      <4>2. x \in Parts(u)
        BY <4>1, PartTypes
      <4>3. Followed(x.module) /\ Dates(rank, u, x)
        BY <2>1, <3>2, <3>3, <4>2 DEF Dating
      <4>4. Emitted(x) \in Project(found[u])
        BY <3>3, <4>1, SoleBuilt DEF Placing, Readings
      <4>5. Emitted(x) \in Project(Key(found[u]))
        BY <4>4, KeyTypes
      <4>6. Emitted(x) \in Cached
        BY <3>1, <4>3, <4>5 DEF Cached, Emitted
      <4> QED
        BY <2>1, <4>3, <4>6 DEF Dates
    <3> QED
      BY <2>1, <2>3, <3>3 DEF Answered
  <2> QED
    BY <2>1, <2>2, <2>3
<1>5. CASE Build(u)
  <2>1. pc[u] = "build" /\ pc'[u] = "load" /\ next'[u] = 1 /\ result' = result
    BY <1>5 DEF Build, Progressing, Progress
  <2>2. \A i \in 1..Len(found'[u]) : ~(i < 1)
    OBVIOUS
  <2> QED
    BY <2>1, <2>2 DEF Answered
<1>6. CASE Load(u)
  <2> DEFINE n == next[u]
  <2>1. /\ pc[u] = "load" /\ pc'[u] = "load" /\ found' = found /\ next'[u] = n + 1
        /\ result' = result /\ result[u] # "hit" /\ Reading(u) /\ Placed(u)
    BY <1>6 DEF Load, Readings, Placing, Answered
  <2>2. n \in 1..Len(found[u])
    BY <1>6 DEF Load
  <2>3. PICK f \in Keyed : Redefine(f.module, f.text) /\ f \in Project(found[u])
                           /\ f.module = found[u][n].module
    BY <1>6, ProjectTypes DEF Load, Built
  <2> HIDE DEF n
  <2>4. f.module \in Modules /\ f.text \in Texts
    BY DEF Keyed
  <2>5. /\ live'[f.module].text = f.text
        /\ \A m \in Modules : m # f.module => live'[m].text = live[m].text
    BY <2>3, <2>4, RedefinesOne
  <2>6. ASSUME NEW i \in 1..Len(found[u]), i < n + 1, Sole(found[u][i].module)
        PROVE  live'[found[u][i].module].text = found[u][i].text
    <3>1. CASE i = n
      <4>1. f = Emitted(found[u][n])
        BY <2>1, <2>3, <2>6, <3>1, SoleBuilt
      <4> QED
        BY <2>5, <3>1, <4>1 DEF Emitted
    <3>2. CASE i # n
      <4>1. i < n
        BY <2>2, <2>6, <3>2
      <4>2. live[found[u][i].module].text = found[u][i].text
        BY <2>1, <2>6, <4>1 DEF Answered, n
      <4>3. found[u][i].module # f.module /\ found[u][i].module \in Modules
        BY <2>1, <2>2, <2>3, <2>6, <3>2, SoleBuilt, Walked
      <4> QED
        BY <2>5, <4>2, <4>3
    <3> QED
      BY <3>1, <3>2
  <2> QED
    BY <2>1, <2>6 DEF Answered
<1>7. ASSUME \/ Require(u) \/ Eval(u) \/ Copy(u) \/ Visit(u) \/ Slurp(u) \/ Descend(u)
             \/ Complete(u) \/ Reject(u) \/ BinaryFails(u) \/ LoadThrows(u) \/ NothingBuilt(u)
             \/ Publish(u) \/ Cleanup(u) \/ Return(u)
      PROVE  pc'[u] # "load" /\ result'[u] # "hit"
  BY <1>7
     DEF Answered, Require, Eval, Copy, Visit, Slurp, Fail, Descend, Complete, Reject,
         BinaryFails, LoadThrows, NothingBuilt, Publish, Cleanup, Return
<1>8. ASSUME NEW t \in Threads, Require(t) \/ Eval(t) \/ Running(t)
      PROVE  Answered(u)'
  <2>1. t = u
    BY DEF Alone
  <2> QED
    BY <1>2, <1>4, <1>5, <1>6, <1>7, <1>8, <2>1 DEF Running
<1> QED
  BY <1>3, <1>8 DEF Next

(* A thread that has the loader to itself gets no stale answer: while no   *)
(* file goes back to a text it had, a hit in the cache stands for the      *)
(* texts just read (load.clj:123-128), for every file whose module name no *)
(* other file has, in another directory or as a snippet: the key knows     *)
(* names only.  After an edit that is undone it may not (ReplRevert).      *)
THEOREM HitsAreLoaded ==
  ASSUME Alone, NEW rank \in Ranks, Raises(rank) PROVE Spec => []HitIsCurrent
<1> DEFINE AllDated == Dated(rank) /\ \A t \in Threads : Dating(rank, t) /\ Answered(t)
           Kept == /\ Walking /\ Copying /\ SnippetsHeld /\ Readings /\ Stored /\ Placing
                   /\ Progressing /\ Evaluating
<1>1. Init => Kept /\ CachedWasLoaded /\ AllDated
  BY InitReading, InitPlaced, SnippetsAssumption
     DEF Init, Walking, Targeted, Copying, SnippetsHeld, Progressing, Progress, Evaluating, Fresh,
         Plain, IsEval, NoCall, CachedWasLoaded, Dated, Cached, Dating, Answered
<1>2. TypeOK /\ Kept /\ CachedWasLoaded /\ [Next]_vars => Kept' /\ CachedWasLoaded'
  BY TargetedStep, CopyingStep, HeldStep, ReadingStep, StoredStep, PlacedStep, ProgressStep,
     EvaluatingStep, CachedStep
<1>3. TypeOK /\ Kept /\ CachedWasLoaded /\ AllDated /\ [Next]_vars => AllDated'
  BY DatedStep, DatingStep, AnsweredStep
<1>4. AllDated => HitIsCurrent
  BY DEF Answered, HitIsCurrent
<1> QED
  BY <1>1, <1>2, <1>3, <1>4, TypeCorrect, PTL DEF Spec
-----------------------------------------------------------------------------
(* What a call has left to do, in lexicographic order: its stages; in the  *)
(* walk the files not seen, those to open or to complete, the imports of   *)
(* the innermost one, and a look at one of them; in the load the           *)
(* namespaces not loaded.                                                  *)
Stage(t) ==
  CASE pc[t] = "copy" -> 6
    [] pc[t] \in {"visit", "slurp", "walk"} -> 5
    [] pc[t] = "build" -> 4
    [] pc[t] = "load" -> 3
    [] pc[t] = "cleanup" -> 2
    [] pc[t] = "return" -> 1
    [] OTHER -> 0
Unseen(t) == Cardinality(Files \ seen[t])
ToOpen(t) == Len(stack[t]) + IF pc[t] = "slurp" THEN 2 ELSE 0
ToFollow(t) == IF stack[t] = <<>> THEN 0 ELSE Len(Last(stack[t]).todo)
ToVisit(t) == IF pc[t] = "visit" THEN 1 ELSE 0
ToLoad(t) == IF next[t] <= Len(found[t]) THEN Len(found[t]) + 1 - next[t] ELSE 0
Left(t) ==
  [i \in 1..6 |->
     CASE i = 1 -> Stage(t) [] i = 2 -> Unseen(t) [] i = 3 -> ToOpen(t)
       [] i = 4 -> ToFollow(t) [] i = 5 -> ToVisit(t) [] i = 6 -> ToLoad(t)]

LeftTyped ==
  \A t \in Threads :
    /\ Stage(t) \in Nat /\ Unseen(t) \in Nat /\ ToOpen(t) \in Nat
    /\ ToFollow(t) \in Nat /\ ToVisit(t) \in Nat /\ ToLoad(t) \in Nat
    /\ Left(t) \in [1..6 -> Nat]

LEMMA TypedLeft ==
  ASSUME IsFiniteSet(Files), TypeOK
  PROVE  LeftTyped
<1> SUFFICES ASSUME NEW t \in Threads
             PROVE  /\ Stage(t) \in Nat /\ Unseen(t) \in Nat /\ ToOpen(t) \in Nat
                    /\ ToFollow(t) \in Nat /\ ToVisit(t) \in Nat /\ ToLoad(t) \in Nat
                    /\ Left(t) \in [1..6 -> Nat]
  BY DEF LeftTyped
<1>1. Stage(t) \in Nat /\ ToVisit(t) \in Nat
  BY DEF Stage, ToVisit
<1>2. Unseen(t) \in Nat
  <2>1. IsFiniteSet(Files \ seen[t])
    BY FS_Difference
  <2> QED
    BY <2>1, FS_CardinalityType DEF Unseen
<1>3. ToOpen(t) \in Nat
  BY DEF ToOpen, TypeOK
<1>4. ToFollow(t) \in Nat
  <2>1. CASE stack[t] # <<>>
    <3>1. Last(stack[t]).todo \in Seq(Modules)
      BY <2>1, FrameTypes DEF Frames
    <3> QED
      BY <3>1 DEF ToFollow
  <2> QED
    BY <2>1 DEF ToFollow
<1>5. ToLoad(t) \in Nat
  BY DEF ToLoad, TypeOK
<1> QED
  BY <1>1, <1>2, <1>3, <1>4, <1>5 DEF Left

(* It is enough that one place goes down and those before it stay.         *)
LEMMA LeftLower ==
  ASSUME LeftTyped, LeftTyped', NEW t \in Threads,
         \/ Stage(t)' < Stage(t)
         \/ /\ Stage(t)' = Stage(t)
            /\ \/ Unseen(t)' < Unseen(t)
               \/ /\ Unseen(t)' = Unseen(t)
                  /\ \/ ToOpen(t)' < ToOpen(t)
                     \/ /\ ToOpen(t)' = ToOpen(t)
                        /\ \/ ToFollow(t)' < ToFollow(t)
                           \/ /\ ToFollow(t)' = ToFollow(t)
                              /\ \/ ToVisit(t)' < ToVisit(t)
                                 \/ ToVisit(t)' = ToVisit(t) /\ ToLoad(t)' < ToLoad(t)
  PROVE  Lower(6, Left(t)', Left(t))
<1> DEFINE a == Left(t)'
           b == Left(t)
<1>1. a \in [1..6 -> Nat] /\ b \in [1..6 -> Nat]
  BY DEF LeftTyped
<1>2. /\ b[1] = Stage(t) /\ b[2] = Unseen(t) /\ b[3] = ToOpen(t)
      /\ b[4] = ToFollow(t) /\ b[5] = ToVisit(t) /\ b[6] = ToLoad(t)
  BY DEF Left
<1>3. /\ a[1] = Stage(t)' /\ a[2] = Unseen(t)' /\ a[3] = ToOpen(t)'
      /\ a[4] = ToFollow(t)' /\ a[5] = ToVisit(t)' /\ a[6] = ToLoad(t)'
  BY DEF Left
<1> HIDE DEF a, b
<1>4. PICK i \in 1..6 : a[i] < b[i] /\ \A j \in 1..i-1 : a[j] = b[j]
  <2>1. \/ a[1] < b[1]
        \/ a[1] = b[1] /\ a[2] < b[2]
        \/ a[1] = b[1] /\ a[2] = b[2] /\ a[3] < b[3]
        \/ a[1] = b[1] /\ a[2] = b[2] /\ a[3] = b[3] /\ a[4] < b[4]
        \/ a[1] = b[1] /\ a[2] = b[2] /\ a[3] = b[3] /\ a[4] = b[4] /\ a[5] < b[5]
        \/ a[1] = b[1] /\ a[2] = b[2] /\ a[3] = b[3] /\ a[4] = b[4] /\ a[5] = b[5] /\ a[6] < b[6]
    BY <1>2, <1>3
  <2> QED
    BY <2>1
<1> QED
  BY <1>1, <1>4, LowerAt DEF a, b

(* Each step of a call.                                                    *)
LEMMA VisitLower ==
  ASSUME IsFiniteSet(Files), TypeOK, Walking, LeftTyped, LeftTyped',
         NEW t \in Threads, Visit(t)
  PROVE  Lower(6, Left(t)', Left(t))
<1>1. pc[t] = "visit" /\ target[t].file \in Files /\ pc'[t] \in {"slurp", "walk"}
  BY DEF Visit, Walking, Targeted, Targets, Goto, TypeOK
<1>2. Stage(t)' = Stage(t)
  BY <1>1 DEF Stage
<1>3. CASE disk[target[t].file] # NoFile /\ target[t].file \notin seen[t]
  <2>1. seen'[t] = seen[t] \cup {target[t].file}
    BY <1>3 DEF Visit, TypeOK
  <2> DEFINE M == Files \ seen[t]
             m == target[t].file
  <2>2. Files \ seen'[t] = M \ {m} /\ m \in M
    BY <1>1, <1>3, <2>1
  <2>3. IsFiniteSet(M)
    BY FS_Difference
  <2> HIDE DEF M, m
  <2>4. Cardinality(M \ {m}) = Cardinality(M) - 1 /\ Cardinality(M) \in Nat
    BY <2>2, <2>3, FS_RemoveElement, FS_CardinalityType
  <2>5. Unseen(t)' < Unseen(t)
    BY <2>2, <2>4 DEF Unseen, M
  <2> QED
    BY <1>2, <2>5, LeftLower
<1>4. CASE ~(disk[target[t].file] # NoFile /\ target[t].file \notin seen[t])
  <2>1. pc'[t] = "walk" /\ seen' = seen /\ stack' = stack
    BY <1>4 DEF Visit, Goto, TypeOK
  <2>2. /\ Unseen(t)' = Unseen(t) /\ ToOpen(t)' = ToOpen(t) /\ ToFollow(t)' = ToFollow(t)
        /\ ToVisit(t)' = 0 /\ ToVisit(t) = 1
    BY <1>1, <2>1 DEF Unseen, ToOpen, ToFollow, ToVisit
  <2> QED
    BY <1>2, <2>2, LeftLower
<1> QED
  BY <1>3, <1>4

LEMMA SlurpLower ==
  ASSUME TypeOK, Walking, LeftTyped, LeftTyped', NEW t \in Threads, Slurp(t)
  PROVE  Lower(6, Left(t)', Left(t))
<1> DEFINE text == disk[target[t].file]
<1>1. CASE text = NoFile
  <2>1. Stage(t) = 5 /\ Stage(t)' = 1
    BY <1>1 DEF Slurp, Fail, Goto, TypeOK, Stage
  <2> QED
    BY <2>1, LeftLower
<1>2. CASE text # NoFile
  <2>1. pc[t] = "slurp" /\ pc'[t] = "walk" /\ seen' = seen
    BY <1>2 DEF Slurp, Goto, TypeOK
  <2>2. Stage(t)' = Stage(t) /\ Unseen(t)' = Unseen(t)
    BY <2>1 DEF Stage, Unseen
  <2> DEFINE frame == [module |-> target[t].module, file |-> target[t].file, text |-> text, todo |-> Imports[text]]
  <2>3. stack'[t] = Append(stack[t], frame) /\ stack[t] \in Seq(Frames)
    BY <1>2 DEF Slurp, TypeOK
  <2>4. frame \in Frames
    <3>1. target[t].module \in Modules /\ target[t].file \in Files /\ text \in Texts
      BY <1>2, <2>1 DEF Walking, Targeted, Targets, TypeOK
    <3>2. Imports[text] \in Seq(Modules)
      BY <3>1, TextsAssumption
    <3> QED
      BY <3>1, <3>2 DEF Frames
  <2> HIDE DEF frame
  <2>5. Len(stack'[t]) = Len(stack[t]) + 1 /\ Len(stack[t]) \in Nat
    BY <2>3, <2>4
  <2>6. ToOpen(t)' = Len(stack'[t]) /\ ToOpen(t) = Len(stack[t]) + 2
    BY <2>1, <2>5 DEF ToOpen
  <2> QED
    BY <2>2, <2>5, <2>6, LeftLower
<1> QED
  BY <1>1, <1>2

LEMMA DescendLower ==
  ASSUME TypeOK, LeftTyped, LeftTyped', NEW t \in Threads, Descend(t)
  PROVE  Lower(6, Left(t)', Left(t))
<1> DEFINE n == Len(stack[t])
           top == stack[t][n]
<1>1. /\ n \in Nat \ {0} /\ Last(stack[t]) = top /\ top \in Frames
      /\ stack[t] # <<>> /\ top.todo # <<>> /\ stack[t] \in Seq(Frames)
  <2>1. stack[t] # <<>> /\ Last(stack[t]).todo # <<>>
    BY DEF Descend
  <2> QED
    BY <2>1, FrameTypes DEF TypeOK
<1>2. /\ pc[t] = "walk" /\ pc'[t] = "visit" /\ seen' = seen
      /\ stack'[t] = [stack[t] EXCEPT ![n].todo = Tail(@)]
  BY DEF Descend, Goto, TypeOK
<1>3. Stage(t)' = Stage(t) /\ Unseen(t)' = Unseen(t)
  BY <1>2 DEF Stage, Unseen
<1>4. top.todo \in Seq(Modules)
  BY <1>1 DEF Frames
<1>5. Len(Tail(top.todo)) = Len(top.todo) - 1 /\ Len(top.todo) \in Nat
  BY <1>1, <1>4
<1>6. /\ Len(stack'[t]) = n /\ stack'[t] # <<>>
      /\ stack'[t][n].todo = Tail(top.todo)
  <2>1. stack'[t][n] = [top EXCEPT !.todo = Tail(@)]
    BY <1>1, <1>2
  <2>2. stack'[t][n].todo = Tail(top.todo)
    BY <1>1, <2>1 DEF Frames
  <2>3. Len(stack'[t]) = n
    BY <1>1, <1>2
  <2> QED
    BY <1>1, <2>2, <2>3
<1>7. ToOpen(t)' = Len(stack'[t]) /\ ToOpen(t) = n
  BY <1>1, <1>2, <1>6 DEF ToOpen
<1>8. ToFollow(t)' = Len(Tail(top.todo)) /\ ToFollow(t) = Len(top.todo)
  BY <1>1, <1>6 DEF ToFollow, Last
<1> QED
  BY <1>3, <1>5, <1>6, <1>7, <1>8, LeftLower

LEMMA CompleteLower ==
  ASSUME TypeOK, LeftTyped, LeftTyped', NEW t \in Threads, Complete(t)
  PROVE  Lower(6, Left(t)', Left(t))
<1>1. /\ pc[t] = "walk" /\ pc' = pc /\ seen' = seen /\ stack[t] # <<>>
      /\ stack'[t] = Front(stack[t]) /\ stack[t] \in Seq(Frames)
  BY DEF Complete, TypeOK
<1>2. Stage(t)' = Stage(t) /\ Unseen(t)' = Unseen(t)
  BY <1>1 DEF Stage, Unseen
<1>3. Len(Front(stack[t])) = Len(stack[t]) - 1 /\ Len(stack[t]) \in Nat
  BY <1>1, FrontAndLast
<1>4. ToOpen(t)' = Len(Front(stack[t])) /\ ToOpen(t) = Len(stack[t])
  <2>1. ToOpen(t) = Len(stack[t]) + 0 /\ ToOpen(t)' = Len(stack'[t]) + 0
    BY <1>1 DEF ToOpen
  <2>2. Len(stack'[t]) = Len(stack[t]) - 1
    BY <1>1, <1>3
  <2> QED
    BY <1>3, <2>1, <2>2
<1> QED
  BY <1>2, <1>3, <1>4, LeftLower

LEMMA RunningLower ==
  ASSUME IsFiniteSet(Files), TypeOK, Walking, LeftTyped, LeftTyped',
         NEW t \in Threads, Running(t)
  PROVE  Lower(6, Left(t)', Left(t))
<1>1. CASE Copy(t) \/ Lookup(t) \/ Build(t)
  <2>1. Stage(t)' < Stage(t)
    BY <1>1 DEF Copy, Lookup, Build, Goto, Stage, TypeOK
  <2> QED
    BY <2>1, LeftLower
<1>2. CASE Reject(t) \/ BinaryFails(t) \/ LoadThrows(t) \/ NothingBuilt(t)
  <2>1. Stage(t)' < Stage(t)
    BY <1>2 DEF Reject, BinaryFails, LoadThrows, NothingBuilt, Fail, Goto, Stage, TypeOK
  <2> QED
    BY <2>1, LeftLower
<1>3. CASE Publish(t) \/ Cleanup(t) \/ Return(t)
  <2>1. Stage(t)' < Stage(t)
    BY <1>3 DEF Publish, Cleanup, Return, Goto, Stage, TypeOK
  <2> QED
    BY <2>1, LeftLower
<1>4. CASE Load(t)
  <2>1. /\ UNCHANGED <<pc, stack, seen, found>> /\ next'[t] = next[t] + 1
        /\ next[t] <= Len(found[t]) /\ next[t] \in Nat /\ Len(found[t]) \in Nat
    BY <1>4 DEF Load, TypeOK
  <2>2. /\ Stage(t)' = Stage(t) /\ Unseen(t)' = Unseen(t) /\ ToOpen(t)' = ToOpen(t)
        /\ ToFollow(t)' = ToFollow(t) /\ ToVisit(t)' = ToVisit(t)
    BY <2>1 DEF Stage, Unseen, ToOpen, ToFollow, ToVisit
  <2>3. ToLoad(t)' < ToLoad(t)
    BY <2>1 DEF ToLoad
  <2> QED
    BY <2>2, <2>3, LeftLower
<1> QED
  BY <1>1, <1>2, <1>3, <1>4, VisitLower, SlurpLower, DescendLower, CompleteLower DEF Running

LEMMA OthersWait ==
  ASSUME TypeOK, [Next]_vars, NEW t \in Threads, pc[t] # "idle", ~Running(t)
  PROVE  Left(t)' = Left(t)
<1> DEFINE Waits == /\ pc'[t] = pc[t] /\ seen'[t] = seen[t] /\ stack'[t] = stack[t]
                    /\ found'[t] = found[t] /\ next'[t] = next[t]
<1>1. Waits
  <2> USE DEF TypeOK, Goto
  <2>1. CASE Edit \/ UNCHANGED vars
    BY <2>1 DEF Edit, vars, locals
  <2>2. ASSUME NEW u \in Threads, Require(u) \/ Eval(u)
        PROVE  Waits
    BY <2>2 DEF Require, Eval
  <2>3. ASSUME NEW u \in Threads, Running(u)
        PROVE  Waits
    <3>1. u # t
      BY <2>3
    <3>2. CASE Copy(u) \/ Visit(u) \/ Slurp(u) \/ Descend(u) \/ Complete(u)
      BY <3>1, <3>2 DEF Copy, Visit, Slurp, Fail, Descend, Complete
    <3>3. CASE Lookup(u) \/ Build(u) \/ Reject(u) \/ BinaryFails(u)
      BY <3>1, <3>3 DEF Lookup, Build, Reject, Fail, BinaryFails, locals
    <3>4. CASE Load(u) \/ LoadThrows(u) \/ NothingBuilt(u)
      BY <3>1, <3>4 DEF Load, LoadThrows, NothingBuilt, Fail
    <3>5. CASE Publish(u) \/ Cleanup(u) \/ Return(u)
      BY <3>1, <3>5 DEF Publish, Cleanup, Return, locals
    <3> QED
      BY <2>3, <3>2, <3>3, <3>4, <3>5 DEF Running
  <2>4. Edit \/ UNCHANGED vars \/ \E u \in Threads : Require(u) \/ Eval(u) \/ Running(u)
    BY DEF Next
  <2> HIDE DEF Waits
  <2> QED
    BY <2>1, <2>2, <2>3, <2>4
<1>2. /\ Stage(t)' = Stage(t) /\ Unseen(t)' = Unseen(t) /\ ToOpen(t)' = ToOpen(t)
      /\ ToFollow(t)' = ToFollow(t) /\ ToVisit(t)' = ToVisit(t) /\ ToLoad(t)' = ToLoad(t)
  BY <1>1 DEF Stage, Unseen, ToOpen, ToFollow, ToVisit, ToLoad
<1> QED
  BY <1>2 DEF Left

(* A call cannot go on for ever, however its imports loop and however the  *)
(* files change under it: each step of it goes down in a well-founded      *)
(* order (LowerEnds), and no edit and no other thread puts it back.        *)
THEOREM CallsGoDown ==
  ASSUME IsFiniteSet(Files)
  PROVE  Spec => [][\A t \in Threads :
                      pc[t] # "idle" => IF Running(t) THEN Lower(6, Left(t)', Left(t))
                                                      ELSE Left(t)' = Left(t)]_vars
<1>1. Init => Walking
  BY DEF Init, Walking, Targeted
<1>2. TypeOK /\ Walking /\ [Next]_vars => Walking'
  BY TargetedStep
<1>3. TypeOK => LeftTyped
  BY TypedLeft
<1>4. TypeOK /\ Walking /\ LeftTyped /\ LeftTyped' /\ [Next]_vars =>
        [\A t \in Threads :
           pc[t] # "idle" => IF Running(t) THEN Lower(6, Left(t)', Left(t))
                                           ELSE Left(t)' = Left(t)]_vars
  BY RunningLower, OthersWait
<1> QED
  BY <1>1, <1>2, <1>3, <1>4, TypeCorrect, PTL DEF Spec
=============================================================================
