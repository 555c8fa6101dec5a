----------------------------- MODULE ReplLoader -----------------------------
(***************************************************************************)
(* gleam-clj.load: threads of a Clojure session compile and load Gleam     *)
(* files while a user edits them.  A call walks the import closure of its  *)
(* entry, looks the closure up in the cache, and on a miss stages it in a  *)
(* temporary project, builds it, loads every namespace and caches the key. *)
(* Each read of the file system and each write of shared state is a step.  *)
(*                                                                         *)
(* A file is its canonical path.  A module is a name, and several files    *)
(* may have one: the walk names an import as it is written, its entry      *)
(* after the file's own name, and the cache and the namespaces know names. *)
(***************************************************************************)
EXTENDS Integers, Sequences, SequencesExt

CONSTANTS
  Threads,
  Modules,     \* names of modules
  Files,       \* canonical paths
  Stem,        \* file -> its name without directories and .gleam
  Resolve,     \* file -> name -> the file that an import of the name in it means
  Texts,       \* source texts; a text is the same file content wherever it is
  NoFile, Torn,
  Imports,     \* text -> the local modules it imports, in order
  IllTyped,    \* texts the compiler rejects
  Faulty,      \* texts whose emitted code throws when it is loaded
  Edits,       \* <<file, old text, new text>>: what the user may save
  InitDisk,    \* the files at the start
  Snippets,    \* <<file, text>>: what eval-gleam may be called with, and the
               \*   file in the temporary directory that it copies it to
  Entries      \* files require-gleam may be called with

ASSUME TextsAssumption ==
  /\ NoFile \notin Texts /\ Torn \notin Texts /\ Torn # NoFile
  /\ Imports \in [Texts -> Seq(Modules)]
  /\ IllTyped \subseteq Texts /\ Faulty \subseteq Texts
  /\ InitDisk \in [Files -> Texts \cup {NoFile}]
  /\ Snippets \subseteq Files \X Texts /\ Entries \subseteq Files
  /\ Edits \subseteq Files \X (Texts \cup {NoFile}) \X (Texts \cup {NoFile})
(* A file of directory D means D/m.gleam by an import of m.                *)
ASSUME FilesAssumption ==
  /\ Stem \in [Files -> Modules] /\ Resolve \in [Files -> [Modules -> Files]]
  /\ \A f \in Files : Resolve[f][Stem[f]] = f
  /\ \A f \in Files, m, n \in Modules : Resolve[f][m] = Resolve[f][n] => m = n
(* The user keeps no file where eval-gleam writes its snippets, at         *)
(* <tmpdir>/<name>.gleam.  A snippet may have the name of any module.      *)
ASSUME SnippetsAssumption ==
  \A s \in Snippets : InitDisk[s[1]] = NoFile /\ \A e \in Edits : e[1] # s[1]

VARIABLES
  disk,     \* file -> its text, or NoFile
  live,     \* module -> [text, stale]: what its namespace was loaded from, and
            \*   the imports replaced since (it still refers to their old classes)
  loaded,   \* the cache: keys of the closures loaded this session
  temps,    \* threads whose temporary project exists
  pc, call, target, stack, seen, found, next, result   \* locals of each thread

locals == <<call, target, stack, seen, found, next, result>>
shared == <<disk, live, loaded, temps>>
vars == <<shared, pc, locals>>

NoTarget == [module |-> NoFile, file |-> NoFile]
NoCall == [entry |-> NoFile, reload |-> FALSE, text |-> NoFile]
Unloaded == [text |-> NoFile, stale |-> {}]
IsEval(t) == call[t].text # NoFile
ImportsOf(text) == ToSet(Imports[text])

Goto(t, label) == pc' = [pc EXCEPT ![t] = label]

Init ==
  /\ disk = InitDisk
  /\ live = [m \in Modules |-> Unloaded]
  /\ loaded = {} /\ temps = {}
  /\ pc = [t \in Threads |-> "idle"]
  /\ call = [t \in Threads |-> NoCall]
  /\ target = [t \in Threads |-> NoTarget]
  /\ stack = [t \in Threads |-> <<>>]
  /\ seen = [t \in Threads |-> {}]
  /\ found = [t \in Threads |-> <<>>]
  /\ next = [t \in Threads |-> 1]
  /\ result = [t \in Threads |-> "none"]

(* The user saves, creates or deletes a file.                              *)
Edit ==
  /\ \E e \in Edits : disk[e[1]] = e[2] /\ disk' = [disk EXCEPT ![e[1]] = e[3]]
  /\ UNCHANGED <<live, loaded, temps, pc, locals>>

-----------------------------------------------------------------------------
(* A call starts: require-gleam of a file, or eval-gleam of a text, which  *)
(* first copies the text to <tmpdir>/<name>.gleam and reloads that file.   *)
Require(t) ==
  /\ pc[t] = "idle"
  /\ \E f \in Entries, r \in BOOLEAN :
       /\ call' = [call EXCEPT ![t] = [entry |-> f, reload |-> r, text |-> NoFile]]
       /\ target' = [target EXCEPT ![t] = [module |-> Stem[f], file |-> f]]
  /\ Goto(t, "visit")
  /\ UNCHANGED <<shared, stack, seen, found, next, result>>

(* Mutant of Eval: the snippet is loaded without :reload.                  *)
Eval_NoReload(t) ==
  /\ pc[t] = "idle"
  /\ \E s \in Snippets :
       call' = [call EXCEPT ![t] = [entry |-> s[1], reload |-> FALSE, text |-> s[2]]]
  /\ Goto(t, "copy")
  /\ UNCHANGED <<shared, target, stack, seen, found, next, result>>

Eval(t) ==
  /\ pc[t] = "idle"
  /\ \E s \in Snippets :
       call' = [call EXCEPT ![t] = [entry |-> s[1], reload |-> TRUE, text |-> s[2]]]
  /\ Goto(t, "copy")
  /\ UNCHANGED <<shared, target, stack, seen, found, next, result>>

Copy(t) ==
  /\ pc[t] = "copy"
  /\ disk' = [disk EXCEPT ![call[t].entry] = call[t].text]
  /\ target' = [target EXCEPT ![t] = [module |-> Stem[call[t].entry], file |-> call[t].entry]]
  /\ Goto(t, "visit")
  /\ UNCHANGED <<live, loaded, temps, call, stack, seen, found, next, result>>

(* closure: a depth-first walk that checks a file exists, then slurps it.  *)
Visit(t) ==
  /\ pc[t] = "visit"
  /\ IF disk[target[t].file] # NoFile /\ target[t].file \notin seen[t]
       THEN /\ seen' = [seen EXCEPT ![t] = @ \cup {target[t].file}]
            /\ Goto(t, "slurp")
       ELSE /\ Goto(t, "walk") /\ UNCHANGED seen
  /\ UNCHANGED <<shared, call, target, stack, found, next, result>>

Fail(t) == /\ result' = [result EXCEPT ![t] = "error"]
           /\ Goto(t, "return")

(* Mutant of Slurp: a file that is gone reads as an empty one.             *)
Slurp_GoneIsEmpty(t) ==
  /\ pc[t] = "slurp"
  /\ LET text == disk[target[t].file]
     IN stack' = [stack EXCEPT ![t] =
          Append(@, [module |-> target[t].module, file |-> target[t].file, text |-> text,
                     todo |-> IF text = NoFile THEN <<>> ELSE Imports[text]])]
  /\ Goto(t, "walk")
  /\ UNCHANGED <<shared, call, target, seen, found, next, result>>

Slurp(t) ==
  /\ pc[t] = "slurp"
  /\ LET text == disk[target[t].file]
     IN IF text = NoFile
          THEN Fail(t) /\ UNCHANGED stack
          ELSE /\ stack' = [stack EXCEPT ![t] =
                    Append(@, [module |-> target[t].module, file |-> target[t].file,
                               text |-> text, todo |-> Imports[text]])]
               /\ Goto(t, "walk") /\ UNCHANGED result
  /\ UNCHANGED <<shared, call, target, seen, found, next>>

(* Mutant of Descend: the loop over the imports does not advance.          *)
Descend_Stays(t) ==
  /\ pc[t] = "walk" /\ stack[t] # <<>> /\ Last(stack[t]).todo # <<>>
  /\ LET top == Last(stack[t]) IN
       target' = [target EXCEPT ![t] = [module |-> Head(top.todo),
                                        file |-> Resolve[top.file][Head(top.todo)]]]
  /\ Goto(t, "visit")
  /\ UNCHANGED <<shared, call, stack, seen, found, next, result>>

(* Next import of the innermost open file, or the file is complete and     *)
(* joins the closure after everything it imports.                          *)
Descend(t) ==
  /\ pc[t] = "walk" /\ stack[t] # <<>> /\ Last(stack[t]).todo # <<>>
  /\ LET top == Len(stack[t])
         m == Head(stack[t][top].todo) IN
       /\ target' = [target EXCEPT ![t] = [module |-> m, file |-> Resolve[stack[t][top].file][m]]]
       /\ stack' = [stack EXCEPT ![t][top].todo = Tail(@)]
  /\ Goto(t, "visit")
  /\ UNCHANGED <<shared, call, seen, found, next, result>>

(* Mutant of Complete: the entry goes first, as cons would put it.         *)
Complete_Cons(t) ==
  /\ pc[t] = "walk" /\ stack[t] # <<>> /\ Last(stack[t]).todo = <<>>
  /\ LET top == Last(stack[t]) IN
       found' = [found EXCEPT ![t] =
                   <<[module |-> top.module, file |-> top.file, text |-> top.text]>> \o @]
  /\ stack' = [stack EXCEPT ![t] = Front(@)]
  /\ UNCHANGED <<shared, pc, call, target, seen, next, result>>

Complete(t) ==
  /\ pc[t] = "walk" /\ stack[t] # <<>> /\ Last(stack[t]).todo = <<>>
  /\ LET top == Last(stack[t]) IN
       found' = [found EXCEPT ![t] =
                   Append(@, [module |-> top.module, file |-> top.file, text |-> top.text])]
  /\ stack' = [stack EXCEPT ![t] = Front(@)]
  /\ UNCHANGED <<shared, pc, call, target, seen, next, result>>

-----------------------------------------------------------------------------
(* The key hashes module and source of every entry, not its path.          *)
Key(entries) ==
  [i \in DOMAIN entries |-> [module |-> entries[i].module, text |-> entries[i].text]]

(* Mutant of Lookup: the key leaves the sources out.                       *)
KeyModules(key) == [i \in DOMAIN key |-> key[i].module]
Lookup_ByModule(t) ==
  /\ pc[t] = "walk" /\ stack[t] = <<>>
  /\ IF ~call[t].reload /\ \E key \in loaded : KeyModules(key) = KeyModules(found[t])
       THEN /\ result' = [result EXCEPT ![t] = "hit"]
            /\ Goto(t, "return") /\ UNCHANGED temps
       ELSE /\ temps' = temps \cup {t}
            /\ Goto(t, "build") /\ UNCHANGED result
  /\ UNCHANGED <<disk, live, loaded, call, target, stack, seen, found, next>>

Lookup(t) ==
  /\ pc[t] = "walk" /\ stack[t] = <<>>
  /\ IF ~call[t].reload /\ Key(found[t]) \in loaded
       THEN /\ result' = [result EXCEPT ![t] = "hit"]
            /\ Goto(t, "return") /\ UNCHANGED temps
       ELSE /\ temps' = temps \cup {t}
            /\ Goto(t, "build") /\ UNCHANGED result
  /\ UNCHANGED <<disk, live, loaded, call, target, stack, seen, found, next>>

(* The temporary project: each entry is written to src/<module>.gleam, so  *)
(* of two files with one name only the later one is built.                 *)
Project(entries) ==
  {[module |-> entries[i].module, text |-> entries[i].text] :
     i \in {j \in DOMAIN entries :
              \A k \in DOMAIN entries : entries[k].module = entries[j].module => k <= j}}

Names(files) == {f.module : f \in files}
(* The compiler accepts a project whose texts are well typed, whose        *)
(* imports are all there, and where no set of modules imports itself.      *)
Compiles(files) ==
  /\ \A f \in files : f.text \notin IllTyped /\ ImportsOf(f.text) \subseteq Names(files)
  /\ \A S \in SUBSET files : S # {} => \E f \in S : ImportsOf(f.text) \cap Names(S) = {}

Build(t) ==
  /\ pc[t] = "build" /\ Compiles(Project(found[t]))
  /\ Goto(t, "load")
  /\ UNCHANGED <<shared, locals>>

(* Diagnostics: the temporary project is deleted and the error rethrown.   *)
Reject(t) ==
  /\ pc[t] = "build" /\ ~Compiles(Project(found[t]))
  /\ temps' = temps \ {t}
  /\ Fail(t)
  /\ UNCHANGED <<disk, live, loaded, call, target, stack, seen, found, next>>

(* The binary is missing or dies: the same path, whatever the sources.     *)
BinaryFails(t) ==
  /\ pc[t] = "build"
  /\ temps' = temps \ {t}
  /\ result' = [result EXCEPT ![t] = "unavailable"]
  /\ Goto(t, "return")
  /\ UNCHANGED <<disk, live, loaded, call, target, stack, seen, found, next>>

(* Namespace m is defined anew from text: its importers keep the old one.  *)
Redefine(m, text) ==
  live' = [n \in Modules |->
             IF n = m THEN [text |-> text, stale |-> {}]
             ELSE IF live[n].text \in Texts /\ m \in ImportsOf(live[n].text)
               THEN [live[n] EXCEPT !.stale = @ \cup {m}]
               ELSE live[n]]

Loadable(f) ==
  /\ f.text \notin Faulty
  /\ \A m \in ImportsOf(f.text) : live[m] # Unloaded

(* What the build made of the entry whose turn it is.                      *)
Built(t) == {f \in Project(found[t]) : f.module = found[t][next[t]].module}

(* Mutant of Load: a namespace that exists is not loaded again.            *)
Load_OnlyNew(t) ==
  /\ pc[t] = "load" /\ next[t] <= Len(found[t])
  /\ \E f \in Built(t) :
       /\ Loadable(f)
       /\ IF live[f.module] = Unloaded THEN Redefine(f.module, f.text) ELSE UNCHANGED live
  /\ next' = [next EXCEPT ![t] = @ + 1]
  /\ UNCHANGED <<disk, loaded, temps, pc, call, target, stack, seen, found, result>>

Load(t) ==
  /\ pc[t] = "load" /\ next[t] <= Len(found[t])
  /\ \E f \in Built(t) : Loadable(f) /\ Redefine(f.module, f.text)
  /\ next' = [next EXCEPT ![t] = @ + 1]
  /\ UNCHANGED <<disk, loaded, temps, pc, call, target, stack, seen, found, result>>

(* Mutant of LoadThrows: the half-loaded namespace is removed.             *)
LoadThrows_RemovesNs(t) ==
  /\ pc[t] = "load" /\ next[t] <= Len(found[t])
  /\ \E f \in Built(t) : ~Loadable(f) /\ live' = [live EXCEPT ![f.module] = Unloaded]
  /\ temps' = temps \ {t}
  /\ Fail(t)
  /\ UNCHANGED <<disk, loaded, call, target, stack, seen, found, next>>

(* load-file throws part of the way through the namespace it redefines.    *)
LoadThrows(t) ==
  /\ pc[t] = "load" /\ next[t] <= Len(found[t])
  /\ \E f \in Built(t) : ~Loadable(f) /\ Redefine(f.module, Torn)
  /\ temps' = temps \ {t}
  /\ Fail(t)
  /\ UNCHANGED <<disk, loaded, call, target, stack, seen, found, next>>

(* An entry file that does not exist stages nothing: there is no output to *)
(* read the namespace from.                                                *)
NothingBuilt(t) ==
  /\ pc[t] = "load" /\ found[t] = <<>>
  /\ temps' = temps \ {t}
  /\ Fail(t)
  /\ UNCHANGED <<disk, live, loaded, call, target, stack, seen, found, next>>

Publish(t) ==
  /\ pc[t] = "load" /\ found[t] # <<>> /\ next[t] > Len(found[t])
  /\ loaded' = loaded \cup {Key(found[t])}
  /\ result' = [result EXCEPT ![t] = "loaded"]
  /\ Goto(t, "cleanup")
  /\ UNCHANGED <<disk, live, temps, call, target, stack, seen, found, next>>

(* Mutant of Cleanup: all calls share one directory.                       *)
Cleanup_All(t) ==
  /\ pc[t] = "cleanup"
  /\ temps' = {}
  /\ Goto(t, "return")
  /\ UNCHANGED <<disk, live, loaded, locals>>

Cleanup(t) ==
  /\ pc[t] = "cleanup"
  /\ temps' = temps \ {t}
  /\ Goto(t, "return")
  /\ UNCHANGED <<disk, live, loaded, locals>>

(* Mutant of Return: the snippet is deleted only after a success.          *)
Return_KeepsFailed(t) ==
  /\ pc[t] = "return"
  /\ disk' = IF IsEval(t) /\ result[t] = "loaded"
               THEN [disk EXCEPT ![call[t].entry] = NoFile] ELSE disk
  /\ Goto(t, "idle")
  /\ call' = [call EXCEPT ![t] = NoCall]
  /\ target' = [target EXCEPT ![t] = NoTarget]
  /\ stack' = [stack EXCEPT ![t] = <<>>]
  /\ seen' = [seen EXCEPT ![t] = {}]
  /\ found' = [found EXCEPT ![t] = <<>>]
  /\ next' = [next EXCEPT ![t] = 1]
  /\ result' = [result EXCEPT ![t] = "none"]
  /\ UNCHANGED <<live, loaded, temps>>

(* The call returns or throws; eval-gleam deletes the snippet's file.      *)
Return(t) ==
  /\ pc[t] = "return"
  /\ disk' = IF IsEval(t) THEN [disk EXCEPT ![call[t].entry] = NoFile] ELSE disk
  /\ Goto(t, "idle")
  /\ call' = [call EXCEPT ![t] = NoCall]
  /\ target' = [target EXCEPT ![t] = NoTarget]
  /\ stack' = [stack EXCEPT ![t] = <<>>]
  /\ seen' = [seen EXCEPT ![t] = {}]
  /\ found' = [found EXCEPT ![t] = <<>>]
  /\ next' = [next EXCEPT ![t] = 1]
  /\ result' = [result EXCEPT ![t] = "none"]
  /\ UNCHANGED <<live, loaded, temps>>

Running(t) ==
  \/ Copy(t) \/ Visit(t) \/ Slurp(t) \/ Descend(t) \/ Complete(t)
  \/ Lookup(t) \/ Build(t) \/ Reject(t) \/ BinaryFails(t)
  \/ Load(t) \/ LoadThrows(t) \/ NothingBuilt(t)
  \/ Publish(t) \/ Cleanup(t) \/ Return(t)

Next == Edit \/ \E t \in Threads : Require(t) \/ Eval(t) \/ Running(t)

Spec == Init /\ [][Next]_vars
(* The JVM keeps running every thread, and the compiler always exits       *)
(* (Analyze!Terminates).                                                   *)
FairSpec == Spec /\ \A t \in Threads : WF_vars(Running(t))

-----------------------------------------------------------------------------
EntrySet == [module : Modules, file : Files, text : Texts]
Keyed == [module : Modules, text : Texts]
Frames == [module : Modules, file : Files, text : Texts, todo : Seq(Modules)]
Labels == {"idle", "copy", "visit", "slurp", "walk", "build", "load", "cleanup", "return"}

TypeOK ==
  /\ disk \in [Files -> Texts \cup {NoFile}]
  /\ live \in [Modules -> [text : Texts \cup {NoFile, Torn}, stale : SUBSET Modules]]
  /\ loaded \subseteq Seq(Keyed) /\ temps \subseteq Threads
  /\ pc \in [Threads -> Labels]
  /\ call \in [Threads -> [entry : Files \cup {NoFile}, reload : BOOLEAN,
                           text : Texts \cup {NoFile}]]
  /\ target \in [Threads -> [module : Modules, file : Files] \cup {NoTarget}]
  /\ stack \in [Threads -> Seq(Frames)]
  /\ seen \in [Threads -> SUBSET Files]
  /\ found \in [Threads -> Seq(EntrySet)]
  /\ next \in [Threads -> Nat \ {0}]
  /\ result \in [Threads -> {"none", "hit", "loaded", "error", "unavailable"}]

(* Every path out of a call, thrown or returned, deletes its temporary     *)
(* project, and none is deleted while the call still reads from it.        *)
TempsOwned == temps = {t \in Threads : pc[t] \in {"build", "load", "cleanup"}}

(* When a namespace of an accepted closure is loaded, every namespace its  *)
(* (:require ...) names is there: closure and load order never miss one.   *)
(* It needs disks on which no shared dependency is absent and back within  *)
(* one walk, the walk's test and read of a file being two steps; and, as   *)
(* an import is looked for beside the file that names it, none that one    *)
(* file names and does not find, and another finds later in the walk.      *)
RequiresAreLoaded ==
  \A t \in Threads :
    pc[t] = "load" /\ next[t] <= Len(found[t]) =>
      \A f \in Built(t) : \A m \in ImportsOf(f.text) : live[m] # Unloaded

(* The cache never answers for a closure that failed: a key was accepted   *)
(* by the compiler, has no file that throws, and all of it was loaded.     *)
CachedWasLoaded ==
  \A key \in loaded :
    /\ key # <<>> /\ Compiles(Project(key))
    /\ \A f \in Project(key) : f.text \notin Faulty /\ live[f.module] # Unloaded

(* A call that loads leaves every namespace of its closure defined from    *)
(* the text it read, referring to the classes its imports have now.        *)
LoadedIsCoherent ==
  \A t \in Threads :
    pc[t] = "cleanup" =>
      \A e \in ToSet(found[t]) : live[e.module] = [text |-> e.text, stale |-> {}]

(* The texts a file may ever have, the files that may ever be there, and   *)
(* the names a walk may give a file.                                       *)
Versions(f) ==
  ({InitDisk[f]} \cup {e[3] : e \in {x \in Edits : x[1] = f}}
     \cup {s[2] : s \in {x \in Snippets : x[1] = f}}) \ {NoFile}
Present == {f \in Files : Versions(f) # {}}
Called(f, m) == Stem[f] = m \/ \E g \in Files : Resolve[g][m] = f
(* A name that no two files have: not two directories, and no snippet that *)
(* is called like a file.                                                  *)
Sole(m) == \A f, g \in Present : Called(f, m) /\ Called(g, m) => f = g

(* A cache hit stands for a load: the namespaces of the closure are        *)
(* defined from the texts the call has just read.  A namespace whose name  *)
(* is not one file's may have been loaded from another file since.         *)
HitIsCurrent ==
  \A t \in Threads :
    pc[t] = "return" /\ result[t] = "hit" =>
      \A e \in ToSet(found[t]) : Sole(e.module) => live[e.module].text = e.text

(* eval-gleam of a text the compiler accepts ends with the namespace it    *)
(* returns defined from that text.                                         *)
EvalRunsItsSource ==
  \A t \in Threads :
    /\ pc[t] = "return" /\ IsEval(t) /\ result[t] # "unavailable"
    /\ Compiles({[module |-> Stem[call[t].entry], text |-> call[t].text]})
    /\ call[t].text \notin Faulty
    => /\ result[t] \in {"loaded", "hit"}
       /\ live[Stem[call[t].entry]].text = call[t].text

(* eval-gleam leaves no snippet file behind for a later import to find.    *)
SnippetsDeleted ==
  (\A t \in Threads : pc[t] = "idle") =>
    \A s \in Snippets : disk[s[1]] = NoFile

(* Every call returns or throws, however often files change under it.      *)
CallsReturn == \A t \in Threads : pc[t] # "idle" ~> pc[t] = "idle"
=============================================================================
