------------------------------- MODULE Gather -------------------------------
(***************************************************************************)
(* gather_typed_sources of main.rs: the sources handed to analyze() are    *)
(* the standard library, the project's src/ and test/, and the files of    *)
(* vendored packages found by following active imports with a worklist.    *)
(***************************************************************************)
EXTENDS Integers, Sequences, SequencesExt

CONSTANTS
  Modules,    \* module paths, the prelude `gleam` excluded
  Packages,   \* vendored packages: the source roots under build/packages
  Gleeunit    \* the module whose runtime is a hand-written shim

Fixed == {"stdlib", "src", "test"}

ASSUME GleeunitAssumption == Gleeunit \in Modules
ASSUME RootsAssumption ==
  IsFiniteSet(Modules) /\ IsFiniteSet(Packages) /\ Packages \cap Fixed = {}

FileSet == (Fixed \cup Packages) \X Modules   \* <<root, module>>
NotFound == <<>>

VARIABLES
  tree,        \* input: the files on disk
  imports,     \* input: file -> modules it imports on the active target
  malformed,   \* input: files that do not parse
  emitStdlib,  \* input: the project being built is the standard library
  depRoots,    \* the packages in the order read_dir lists them
  files,       \* Vec of [module, file, is_dep, emit]
  seen, queue, phase

disk == <<tree, imports, malformed, emitStdlib, depRoots>>
vars == <<disk, files, seen, queue, phase>>

Listed(root, emit) ==
  {[module |-> f[2], file |-> f, is_dep |-> root = "stdlib", emit |-> emit] :
     f \in {g \in tree : g[1] = root}}
Project == IF emitStdlib THEN {} ELSE Listed("src", TRUE) \cup Listed("test", TRUE)

Init ==
  /\ tree \in SUBSET FileSet
  /\ imports \in [tree -> SUBSET Modules]
  /\ malformed \in SUBSET tree
  /\ emitStdlib \in BOOLEAN
  /\ depRoots \in SetToSeqs(Packages)
  /\ \E std \in SetToSeqs(Listed("stdlib", emitStdlib)), own \in SetToSeqs(Project) :
       files = std \o own
  /\ seen = {f.module : f \in ToSet(files)}
  /\ queue = [k \in 1..Len(files) |-> files[k].file]
  /\ phase = "gather"

(* Mutant of Find: the first root is taken without looking for the file.   *)
Find_FirstRoot(m) == <<depRoots[1], m>>

(* The first package root that has the module, in directory order.         *)
Find(m) ==
  LET has == {k \in 1..Len(depRoots) : <<depRoots[k], m>> \in tree}
  IN IF has = {} THEN NotFound ELSE <<depRoots[Min(has)], m>>

(* Mutant of Wanted: what was queued before is wanted again.               *)
Wanted_Again(file) == IF file \in malformed THEN {} ELSE imports[file]

Wanted(file) == IF file \in malformed THEN {} ELSE imports[file] \ seen

(* Mutants of Pop: packages are read but not emitted; what is found is not *)
(* queued in its turn; the file stays on the queue.                        *)
Pop_NotEmitted ==
  /\ phase = "gather" /\ queue # <<>>
  /\ LET file == Last(queue) IN
       /\ \A m \in Wanted(file) : Find(m) # NotFound
       /\ \E new \in SetToSeqs(Wanted(file)) :
            /\ files' = files \o
                 [k \in 1..Len(new) |->
                    [module |-> new[k], file |-> Find(new[k]), is_dep |-> TRUE,
                     emit |-> FALSE]]
            /\ queue' = Front(queue) \o [k \in 1..Len(new) |-> Find(new[k])]
       /\ seen' = seen \cup Wanted(file)
  /\ UNCHANGED <<disk, phase>>
Pop_NotQueued ==
  /\ phase = "gather" /\ queue # <<>>
  /\ LET file == Last(queue) IN
       /\ \A m \in Wanted(file) : Find(m) # NotFound
       /\ \E new \in SetToSeqs(Wanted(file)) :
            /\ files' = files \o
                 [k \in 1..Len(new) |->
                    [module |-> new[k], file |-> Find(new[k]), is_dep |-> TRUE,
                     emit |-> new[k] # Gleeunit]]
            /\ queue' = Front(queue)
       /\ seen' = seen \cup Wanted(file)
  /\ UNCHANGED <<disk, phase>>
Pop_Peeks ==
  /\ phase = "gather" /\ queue # <<>>
  /\ LET file == Last(queue) IN
       /\ \A m \in Wanted(file) : Find(m) # NotFound
       /\ \E new \in SetToSeqs(Wanted(file)) :
            /\ files' = files \o
                 [k \in 1..Len(new) |->
                    [module |-> new[k], file |-> Find(new[k]), is_dep |-> TRUE,
                     emit |-> new[k] # Gleeunit]]
            /\ queue' = queue \o [k \in 1..Len(new) |-> Find(new[k])]
       /\ seen' = seen \cup Wanted(file)
  /\ UNCHANGED <<disk, phase>>

(* The last file queued is parsed, and the imports not seen yet are found  *)
(* and queued in the order of its definitions, which may be any.           *)
Pop ==
  /\ phase = "gather" /\ queue # <<>>
  /\ LET file == Last(queue) IN
       /\ \A m \in Wanted(file) : Find(m) # NotFound
       /\ \E new \in SetToSeqs(Wanted(file)) :
            /\ files' = files \o
                 [k \in 1..Len(new) |->
                    [module |-> new[k], file |-> Find(new[k]), is_dep |-> TRUE,
                     emit |-> new[k] # Gleeunit]]
            /\ queue' = Front(queue) \o [k \in 1..Len(new) |-> Find(new[k])]
       /\ seen' = seen \cup Wanted(file)
  /\ UNCHANGED <<disk, phase>>

(* An import found nowhere: panic, whatever was queued before it.          *)
NotFoundPanic ==
  /\ phase = "gather" /\ queue # <<>>
  /\ \E m \in Wanted(Last(queue)) : Find(m) = NotFound
  /\ phase' = "not_found"
  /\ UNCHANGED <<disk, files, seen, queue>>

Finish ==
  /\ phase = "gather" /\ queue = <<>>
  /\ phase' = "done"
  /\ UNCHANGED <<disk, files, seen, queue>>

Ended == phase \in {"done", "not_found"} /\ UNCHANGED vars

Step == Pop \/ NotFoundPanic \/ Finish
Next == Step \/ Ended
Spec == Init /\ [][Next]_vars
FairSpec == Spec /\ WF_vars(Step)
-----------------------------------------------------------------------------
TypeOK ==
  /\ tree \subseteq FileSet
  /\ imports \in [tree -> SUBSET Modules] /\ malformed \subseteq tree
  /\ emitStdlib \in BOOLEAN /\ depRoots \in Seq(Packages)
  /\ files \in Seq([module : Modules, file : tree, is_dep : BOOLEAN, emit : BOOLEAN])
  /\ seen \subseteq Modules /\ queue \in Seq(tree)
  /\ phase \in {"gather", "done", "not_found"}

(* A package file joins once, for a module no other source has, and only   *)
(* after a source that imports it.                                         *)
PackagesOnDemand ==
  \A k \in 1..Len(files) :
    files[k].file[1] \in Packages =>
      /\ \A j \in 1..Len(files) : files[j].module = files[k].module => j = k
      /\ \E j \in 1..k-1 : files[j].file \notin malformed
                            /\ files[k].module \in imports[files[j].file]

(* The namespaces an emitted module requires exist when it is loaded: they *)
(* are emitted too, or belong to the shipped library or the test shim.     *)
RequiresProvided ==
  phase = "done" =>
    \A f \in ToSet(files) : f.emit /\ f.file \notin malformed =>
      \A m \in imports[f.file] :
        \/ \E g \in ToSet(files) : g.module = m /\ g.emit
        \/ <<"stdlib", m>> \in tree
        \/ m = Gleeunit

(* Gathering ends: a file is queued once, however the imports loop.        *)
Terminates == <>(phase # "gather")

(* Gathering implements the abstract collection, whatever the order of the *)
(* worklist: it ends closed under import, or on an import nobody has.      *)
RootFiles == {f.file : f \in Listed("stdlib", emitStdlib) \cup Project}
FilesOf(m) ==
  LET own == {f \in RootFiles : f[2] = m} IN IF own # {} THEN own ELSE {Find(m)}
Collection == INSTANCE ImportClosure WITH
  roots <- {f[2] : f \in RootFiles},
  available <- {m \in Modules : Find(m) # NotFound},
  importsOf <- [m \in Modules |-> UNION {imports[f] : f \in (FilesOf(m) \cap tree) \ malformed}],
  collected <- seen,
  outcome <- CASE phase = "gather" -> "open" [] phase = "done" -> "closed"
               [] phase = "not_found" -> "missing"
CollectsClosure == Collection!Spec
=============================================================================
