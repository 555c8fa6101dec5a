---------------------------- MODULE Gather_proofs ----------------------------
(***************************************************************************)
(* Gathering collects the import closure of the roots, for any tree of     *)
(* files, any imports between them and any order of the worklist.          *)
(***************************************************************************)
EXTENDS Gather, SequenceLemmas

(* What joined is a root's file, or the one that is found for a module the *)
(* roots do not have; the roots' files are there from the start.           *)
Provided(f) ==
  /\ f.file[2] = f.module
  /\ \/ f.file \in RootFiles /\ (f.emit \/ f.file[1] = "stdlib")
     \/ /\ f.file = Find(f.module) /\ f.file # NotFound
        /\ \A r \in RootFiles : r[2] # f.module
        /\ f.emit \/ f.module = Gleeunit
Entries == {files[k] : k \in 1..Len(files)}
AllProvided ==
  /\ \A f \in Entries : Provided(f)
  /\ \A r \in RootFiles : \E f \in Entries : f.file = r

(* `seen` has the modules of the files that joined, and these are queued   *)
(* or have been followed.                                                  *)
SeenAreFiles == seen = {f.module : f \in Entries}
Followed(file) == file \in malformed \/ imports[file] \subseteq seen
QueuedOrFollowed ==
  /\ \A q \in 1..Len(queue) : \E f \in Entries : f.file = queue[q]
  /\ \A f \in Entries : Followed(f.file) \/ \E q \in 1..Len(queue) : queue[q] = f.file
DoneIsEmpty == phase = "done" => queue = <<>>

Inv == TypeOK /\ AllProvided /\ SeenAreFiles /\ QueuedOrFollowed /\ DoneIsEmpty /\ PackagesOnDemand

Source == [module : Modules, file : tree, is_dep : BOOLEAN, emit : BOOLEAN]
-----------------------------------------------------------------------------
(* What is found is a package's file, for the module it was looked up for. *)
LEMMA FoundFile ==
  ASSUME TypeOK, NEW m, Find(m) # NotFound
  PROVE  Find(m) \in tree /\ Find(m)[1] \in Packages /\ Find(m)[2] = m
<1> DEFINE has == {k \in 1..Len(depRoots) : <<depRoots[k], m>> \in tree}
<1>1. has # {} /\ Find(m) = <<depRoots[Min(has)], m>>
  BY DEF Find
<1>2. has \in SUBSET Nat
  OBVIOUS
<1>3. Min(has) \in has
  BY <1>1, <1>2, MinOfIndices
<1> QED
  BY <1>1, <1>3 DEF TypeOK

LEMMA ListingsFinite ==
  ASSUME tree \subseteq FileSet, NEW root, NEW emit
  PROVE  IsFiniteSet(Listed(root, emit)) /\ IsFiniteSet(Project)
<1>1. IsFiniteSet(Fixed)
  <2>1. IsFiniteSet({"stdlib"} \cup {"src"})
    BY FS_Singleton, FS_Union
  <2>2. IsFiniteSet(({"stdlib"} \cup {"src"}) \cup {"test"})
    BY <2>1, FS_Singleton, FS_Union
  <2>3. Fixed = ({"stdlib"} \cup {"src"}) \cup {"test"}
    BY DEF Fixed
  <2> QED
    BY <2>2, <2>3
<1>2. IsFiniteSet(FileSet)
  BY <1>1, FS_Union, FS_Product, RootsAssumption DEF FileSet
<1>3. ASSUME NEW r, NEW e
      PROVE  IsFiniteSet(Listed(r, e))
  <2> DEFINE S == {g \in tree : g[1] = r}
             Entry(f) == [module |-> f[2], file |-> f, is_dep |-> r = "stdlib", emit |-> e]
             T == {Entry(f) : f \in S}
  <2>1. IsFiniteSet(S)
    BY <1>2, FS_Subset
  <2>2. [f \in S |-> Entry(f)] \in Surjection(S, T)
    BY DEF Surjection
  <2>3. IsFiniteSet(T)
    <3> HIDE DEF S, T
    <3> QED
      BY <2>1, <2>2, FS_Surjection
  <2> QED
    BY <2>3 DEF Listed
<1>4. IsFiniteSet(Project)
  BY <1>3, FS_Union, FS_EmptySet DEF Project
<1> QED
  BY <1>3, <1>4

(* The files gathering starts with are those of the roots.                 *)
LEMMA StartFiles ==
  ASSUME Init
  PROVE  /\ files \in Seq(Source)
         /\ \A k \in 1..Len(files) :
              /\ files[k].file \in RootFiles /\ files[k].file[2] = files[k].module
              /\ files[k].emit \/ files[k].file[1] = "stdlib"
         /\ \A r \in RootFiles : \E k \in 1..Len(files) : files[k].file = r
<1> DEFINE Lib == Listed("stdlib", emitStdlib)
<1>1. PICK std \in SetToSeqs(Lib), own \in SetToSeqs(Project) : files = std \o own
  BY DEF Init
<1>2. tree \subseteq FileSet /\ emitStdlib \in BOOLEAN
  BY DEF Init
<1>3. IsFiniteSet(Lib) /\ IsFiniteSet(Project)
  BY <1>2, ListingsFinite
<1>4. ASSUME NEW root, NEW e \in BOOLEAN, NEW f \in Listed(root, e)
      PROVE  f \in Source /\ f.file[2] = f.module /\ f.file[1] = root /\ f.emit = e
  <2>1. PICK g \in tree : g[1] = root
                         /\ f = [module |-> g[2], file |-> g, is_dep |-> root = "stdlib", emit |-> e]
    BY <1>4 DEF Listed
  <2>2. g[2] \in Modules
    BY <1>2 DEF FileSet
  <2> DEFINE b == root = "stdlib"
  <2>3. b \in BOOLEAN
    OBVIOUS
  <2>4. f = [module |-> g[2], file |-> g, is_dep |-> b, emit |-> e]
    BY <2>1
  <2> HIDE DEF b
  <2> QED
    BY <2>1, <2>2, <2>3, <2>4 DEF Source
<1>5. \A f \in Lib : f \in Source /\ f.file[2] = f.module /\ f.file[1] = "stdlib"
  BY <1>2, <1>4
<1>6. \A f \in Project : f \in Source /\ f.file[2] = f.module /\ f.emit
  BY <1>4 DEF Project
<1>7. std \in Seq(Lib) /\ Lib = {std[k] : k \in 1..Len(std)}
  BY <1>1, <1>3, SeqsOfSet
<1>8. own \in Seq(Project) /\ Project = {own[k] : k \in 1..Len(own)}
  <2>1. IsFiniteSet(Project) /\ own \in SetToSeqs(Project)
    BY <1>1, <1>3
  <2> QED
    BY <2>1, SeqsOfSet
<1> HIDE DEF Lib
<1>9. std \in Seq(Source) /\ own \in Seq(Source)
  BY <1>5, <1>6, <1>7, <1>8, SeqMonotonic
<1>10. /\ files \in Seq(Source) /\ Len(files) = Len(std) + Len(own)
       /\ Len(std) \in Nat /\ Len(own) \in Nat
       /\ \A k \in 1..Len(files) : files[k] = IF k <= Len(std) THEN std[k] ELSE own[k - Len(std)]
  BY <1>1, <1>9
<1>11. \A f \in Lib \cup Project : \E k \in 1..Len(files) : files[k] = f
  <2>1. ASSUME NEW k \in 1..Len(std)
        PROVE  k \in 1..Len(files) /\ files[k] = std[k]
    BY <1>10
  <2>2. ASSUME NEW k \in 1..Len(own)
        PROVE  Len(std) + k \in 1..Len(files) /\ files[Len(std) + k] = own[k]
    BY <1>10
  <2> QED
    BY <1>7, <1>8, <2>1, <2>2
<1>12. \A k \in 1..Len(files) : files[k] \in Lib \cup Project
  <2> TAKE k \in 1..Len(files)
  <2>1. CASE k <= Len(std)
    BY <1>7, <1>10, <2>1
  <2>2. CASE k > Len(std)
    <3>1. k - Len(std) \in 1..Len(own)
      BY <1>10, <2>2
    <3> QED
      BY <1>8, <1>10, <2>2, <3>1
  <2> QED
    BY <1>10, <2>1, <2>2
<1>13. RootFiles = {f.file : f \in Lib \cup Project}
  BY DEF RootFiles, Lib
<1>14. \A k \in 1..Len(files) :
         /\ files[k].file \in RootFiles /\ files[k].file[2] = files[k].module
         /\ files[k].emit \/ files[k].file[1] = "stdlib"
  BY <1>5, <1>6, <1>12, <1>13
<1>15. \A r \in RootFiles : \E k \in 1..Len(files) : files[k].file = r
  BY <1>11, <1>13
<1> QED
  BY <1>10, <1>14, <1>15
-----------------------------------------------------------------------------
(* The file Pop adds for a module, as it is in `files`.                    *)
Added(m) == [module |-> m, file |-> Find(m), is_dep |-> TRUE, emit |-> m # Gleeunit]

LEMMA FilesType == TypeOK => files \in Seq(Source)
BY DEF TypeOK, Source

LEMMA SourceFields ==
  ASSUME NEW f \in Source
  PROVE  f.module \in Modules /\ f.file \in tree
BY DEF Source

LEMMA AddedType ==
  ASSUME TypeOK, NEW m \in Modules, Find(m) # NotFound
  PROVE  Added(m) \in Source
<1> DEFINE b == m # Gleeunit
<1>1. b \in BOOLEAN /\ Find(m) \in tree
  BY FoundFile
<1>2. Added(m) = [module |-> m, file |-> Find(m), is_dep |-> TRUE, emit |-> b]
  BY DEF Added
<1> HIDE DEF b
<1> QED
  BY <1>1, <1>2 DEF Source

(* What Pop does to the list and to the worklist.                          *)
LEMMA PopAdds ==
  ASSUME TypeOK, Pop
  PROVE  /\ Last(queue) \in tree /\ queue # <<>>
         /\ \E new \in Seq(Modules) :
              /\ Wanted(Last(queue)) = {new[k] : k \in 1..Len(new)}
              /\ \A i, j \in 1..Len(new) : new[i] = new[j] => i = j
              /\ \A k \in 1..Len(new) : Find(new[k]) # NotFound
              /\ Len(files') = Len(files) + Len(new)
              /\ \A k \in 1..Len(files) : files'[k] = files[k]
              /\ \A k \in 1..Len(new) : files'[Len(files) + k] = Added(new[k])
              /\ files' \in Seq(Source)
              /\ Len(queue') = Len(queue) - 1 + Len(new)
              /\ \A q \in 1..Len(queue)-1 : queue'[q] = queue[q]
              /\ \A k \in 1..Len(new) : queue'[Len(queue) - 1 + k] = Find(new[k])
              /\ queue' \in Seq(tree)
<1> DEFINE file == Last(queue)
<1>1. queue # <<>> /\ file \in tree /\ Front(queue) \in Seq(tree) /\ Len(Front(queue)) = Len(queue) - 1
      /\ \A q \in 1..Len(queue)-1 : Front(queue)[q] = queue[q]
  <2>1. queue # <<>> /\ queue \in Seq(tree)
    BY DEF Pop, TypeOK
  <2> QED
    BY <2>1, FrontAndLast
<1>2. Wanted(file) \subseteq Modules /\ IsFiniteSet(Wanted(file))
  <2>1. Wanted(file) \in SUBSET Modules
    BY <1>1 DEF Wanted, TypeOK
  <2> QED
    BY <2>1, FS_Subset, RootsAssumption
<1>3. PICK new \in SetToSeqs(Wanted(file)) :
        /\ files' = files \o [k \in 1..Len(new) |-> Added(new[k])]
        /\ queue' = Front(queue) \o [k \in 1..Len(new) |-> Find(new[k])]
  BY DEF Pop, Added
<1>4. /\ new \in Seq(Wanted(file)) /\ new \in Seq(Modules)
      /\ Wanted(file) = {new[k] : k \in 1..Len(new)}
      /\ \A i, j \in 1..Len(new) : new[i] = new[j] => i = j
  <2> DEFINE wanted == Wanted(file)
  <2>1. IsFiniteSet(wanted) /\ new \in SetToSeqs(wanted) /\ wanted \subseteq Modules
    BY <1>2, <1>3
  <2> HIDE DEF wanted
  <2>2. /\ new \in Seq(wanted) /\ wanted = {new[k] : k \in 1..Len(new)}
        /\ \A i, j \in 1..Len(new) : new[i] = new[j] => i = j
    BY <2>1, SeqsOfSet
  <2>3. new \in Seq(Modules)
    BY <2>1, <2>2, SeqMonotonic
  <2> QED
    BY <2>2, <2>3 DEF wanted
<1>5. ASSUME NEW k \in 1..Len(new)
      PROVE  Find(new[k]) # NotFound /\ Find(new[k]) \in tree /\ Added(new[k]) \in Source
  <2>1. new[k] \in Modules /\ new[k] \in Wanted(file)
    BY <1>4
  <2>2. Find(new[k]) # NotFound
    BY <2>1 DEF Pop
  <2> QED
    BY <2>1, <2>2, FoundFile, AddedType
<1> DEFINE F == [k \in 1..Len(new) |-> Added(new[k])]
           G == [k \in 1..Len(new) |-> Find(new[k])]
<1>6. F \in Seq(Source) /\ G \in Seq(tree) /\ Len(F) = Len(new) /\ Len(G) = Len(new) /\ Len(new) \in Nat
      /\ \A k \in 1..Len(new) : F[k] = Added(new[k]) /\ G[k] = Find(new[k])
  <2>1. F \in [1..Len(new) -> Source] /\ G \in [1..Len(new) -> tree] /\ Len(new) \in Nat
    BY <1>4, <1>5
  <2> QED
    BY <2>1
<1>7. files \in Seq(Source) /\ files' = files \o F /\ queue' = Front(queue) \o G
  BY <1>3, FilesType
<1> HIDE DEF F, G
<1>8. /\ Len(files') = Len(files) + Len(new)
      /\ \A k \in 1..Len(files) : files'[k] = files[k]
      /\ \A k \in 1..Len(new) : files'[Len(files) + k] = Added(new[k])
      /\ files' \in Seq(Source)
  <2>1. files \in Seq(Source) /\ F \in Seq(Source) /\ files' = files \o F
    BY <1>6, <1>7
  <2>2. /\ files' \in Seq(Source) /\ Len(files') = Len(files) + Len(F)
        /\ \A k \in 1..Len(files) : files'[k] = files[k]
        /\ \A k \in 1..Len(F) : files'[Len(files) + k] = F[k]
    BY <2>1, Appended
  <2> QED
    BY <1>6, <2>2
<1>9. /\ Len(queue') = Len(queue) - 1 + Len(new)
      /\ \A q \in 1..Len(queue)-1 : queue'[q] = queue[q]
      /\ \A k \in 1..Len(new) : queue'[Len(queue) - 1 + k] = Find(new[k])
      /\ queue' \in Seq(tree)
  <2> DEFINE H == Front(queue)
  <2>1. H \in Seq(tree) /\ G \in Seq(tree) /\ queue' = H \o G
    BY <1>1, <1>6, <1>7
  <2>2. /\ queue' \in Seq(tree) /\ Len(queue') = Len(H) + Len(G)
        /\ \A q \in 1..Len(H) : queue'[q] = H[q]
        /\ \A k \in 1..Len(G) : queue'[Len(H) + k] = G[k]
    BY <2>1, Appended
  <2> QED
    BY <1>1, <1>6, <2>2
<1> QED
  BY <1>1, <1>4, <1>5, <1>8, <1>9

-----------------------------------------------------------------------------
LEMMA InitType == Init => TypeOK
<1> SUFFICES ASSUME Init PROVE TypeOK
  OBVIOUS
<1>1. depRoots \in Seq(Packages)
  BY SeqsOfSet, RootsAssumption DEF Init
<1>2. files \in Seq(Source)
  BY StartFiles
<1>3. seen \subseteq Modules /\ queue \in Seq(tree)
  <2>1. seen = {files[k].module : k \in 1..Len(files)}
    <3>1. DOMAIN files = 1..Len(files)
      BY <1>2
    <3>2. ToSet(files) = {files[k] : k \in 1..Len(files)}
      BY <3>1 DEF ToSet
    <3> QED
      BY <3>2 DEF Init
  <2>2. queue = [k \in 1..Len(files) |-> files[k].file] /\ Len(files) \in Nat
    BY <1>2 DEF Init
  <2>3. \A k \in 1..Len(files) : files[k].module \in Modules /\ files[k].file \in tree
    BY <1>2, SourceFields
  <2> QED
    BY <2>1, <2>2, <2>3
<1> QED
  BY <1>1, <1>2, <1>3 DEF Init, TypeOK, Source

LEMMA StepType == TypeOK /\ [Next]_vars => TypeOK'
<1> SUFFICES ASSUME TypeOK, [Next]_vars PROVE TypeOK'
  OBVIOUS
<1> USE DEF disk
<1>1. CASE Pop
  <2>1. UNCHANGED <<tree, imports, malformed, emitStdlib, depRoots, phase>>
    BY <1>1 DEF Pop
  <2>2. files' \in Seq(Source)
        /\ queue' \in Seq(tree)
    BY <1>1, PopAdds
  <2>3. seen' \subseteq Modules
    <3>1. Last(queue) \in tree /\ seen' = seen \cup Wanted(Last(queue))
      BY <1>1, PopAdds DEF Pop
    <3>2. Wanted(Last(queue)) \subseteq Modules
      BY <3>1 DEF Wanted, TypeOK
    <3> QED
      BY <3>1, <3>2 DEF TypeOK
  <2> QED
    BY <2>1, <2>2, <2>3 DEF TypeOK, Source
<1>2. CASE NotFoundPanic
  BY <1>2 DEF NotFoundPanic, TypeOK
<1>3. CASE Finish
  BY <1>3 DEF Finish, TypeOK
<1>4. CASE Ended \/ UNCHANGED vars
  BY <1>4 DEF Ended, vars, TypeOK
<1> QED
  BY <1>1, <1>2, <1>3, <1>4 DEF Next, Step

(* The listings, the worklist and the flags have their types throughout.   *)
THEOREM TypeCorrect == Spec => []TypeOK
<1>1. TypeOK /\ [Next]_vars => TypeOK'
  BY StepType
<1> QED
  BY InitType, <1>1, PTL DEF Spec
-----------------------------------------------------------------------------
(* Nothing is saved meanwhile: what is found stays the same.               *)
LEMMA SameFind ==
  ASSUME UNCHANGED disk, NEW m
  PROVE  Find(m)' = Find(m)
BY DEF disk, Find

LEMMA SameRoots ==
  ASSUME UNCHANGED disk
  PROVE  RootFiles' = RootFiles
BY DEF disk, RootFiles, Listed, Project

LEMMA SameProvided ==
  ASSUME UNCHANGED disk, NEW f
  PROVE  Provided(f)' <=> Provided(f)
BY SameFind, SameRoots DEF Provided

(* Pop takes one file off the worklist and adds one for each module wanted.*)
LEMMA PopEntries ==
  ASSUME TypeOK, Pop
  PROVE  /\ Entries' = Entries \cup {Added(m) : m \in Wanted(Last(queue))}
         /\ \A m \in Wanted(Last(queue)) :
              /\ m \in Modules \ seen /\ Find(m) # NotFound
              /\ \E q \in 1..Len(queue') : queue'[q] = Find(m)
         /\ \A q \in 1..Len(queue') :
              \/ \E p \in 1..Len(queue) : queue'[q] = queue[p]
              \/ \E m \in Wanted(Last(queue)) : queue'[q] = Find(m)
         /\ \A p \in 1..Len(queue) :
              queue[p] = Last(queue) \/ \E q \in 1..Len(queue') : queue'[q] = queue[p]
<1> DEFINE W == Wanted(Last(queue))
<1>1. PICK new \in Seq(Modules) :
        /\ W = {new[k] : k \in 1..Len(new)}
        /\ \A k \in 1..Len(new) : Find(new[k]) # NotFound
        /\ Len(files') = Len(files) + Len(new)
        /\ \A k \in 1..Len(files) : files'[k] = files[k]
        /\ \A k \in 1..Len(new) : files'[Len(files) + k] = Added(new[k])
        /\ Len(queue') = Len(queue) - 1 + Len(new)
        /\ \A q \in 1..Len(queue)-1 : queue'[q] = queue[q]
        /\ \A k \in 1..Len(new) : queue'[Len(queue) - 1 + k] = Find(new[k])
  BY PopAdds
<1>2. Len(files) \in Nat /\ Len(queue) \in Nat \ {0} /\ Len(new) \in Nat
  <2>1. queue # <<>> /\ queue \in Seq(tree) /\ files \in Seq(Source)
    BY FilesType DEF Pop, TypeOK
  <2> QED
    BY <2>1, FrontAndLast
<1>3. ASSUME NEW k \in 1..Len(new)
      PROVE  Len(files) + k \in 1..Len(files') /\ Len(queue) - 1 + k \in 1..Len(queue')
  BY <1>1, <1>2
<1>4. ASSUME NEW n \in 1..Len(files'), n \notin 1..Len(files)
      PROVE  \E k \in 1..Len(new) : n = Len(files) + k
  <2>1. n - Len(files) \in 1..Len(new) /\ n = Len(files) + (n - Len(files))
    BY <1>1, <1>2, <1>4
  <2> QED
    BY <2>1
<1>5. Entries' = Entries \cup {Added(m) : m \in W}
  <2>1. 1..Len(files) \subseteq 1..Len(files')
    BY <1>1, <1>2
  <2>2. ASSUME NEW f \in Entries'
        PROVE  f \in Entries \/ \E m \in W : f = Added(m)
    <3>1. PICK n \in 1..Len(files') : f = files'[n]
      BY DEF Entries
    <3>2. CASE n \in 1..Len(files)
      BY <1>1, <3>1, <3>2 DEF Entries
    <3>3. CASE n \notin 1..Len(files)
      <4>1. PICK k \in 1..Len(new) : n = Len(files) + k
        BY <1>4, <3>3
      <4>2. f = Added(new[k]) /\ new[k] \in W
        BY <1>1, <3>1, <4>1
      <4> QED
        BY <4>2
    <3> QED
      BY <3>2, <3>3
  <2>3. ASSUME NEW f \in Entries
        PROVE  f \in Entries'
    BY <1>1, <2>1 DEF Entries
  <2>4. ASSUME NEW m \in W
        PROVE  Added(m) \in Entries'
    <3>1. PICK k \in 1..Len(new) : m = new[k]
      BY <1>1
    <3>2. Len(files) + k \in 1..Len(files') /\ files'[Len(files) + k] = Added(m)
      BY <1>1, <1>3, <3>1
    <3> QED
      BY <3>2 DEF Entries
  <2> QED
    BY <2>2, <2>3, <2>4
<1>6. \A m \in W : /\ m \in Modules \ seen /\ Find(m) # NotFound
                   /\ \E q \in 1..Len(queue') : queue'[q] = Find(m)
  <2> TAKE m \in W
  <2>1. PICK k \in 1..Len(new) : m = new[k]
    BY <1>1
  <2>2. m \in Modules /\ Find(m) # NotFound /\ queue'[Len(queue) - 1 + k] = Find(m)
    BY <1>1, <2>1
  <2>3. m \notin seen
    BY DEF Wanted
  <2> QED
    BY <1>3, <2>2, <2>3
<1>7. ASSUME NEW q \in 1..Len(queue')
      PROVE  \/ \E p \in 1..Len(queue) : queue'[q] = queue[p]
             \/ \E m \in W : queue'[q] = Find(m)
  <2>1. CASE q \in 1..Len(queue)-1
    BY <1>1, <1>2, <2>1
  <2>2. CASE q \notin 1..Len(queue)-1
    <3> DEFINE k == q - (Len(queue) - 1)
    <3>1. k \in 1..Len(new) /\ q = Len(queue) - 1 + k
      BY <1>1, <1>2, <2>2
    <3>2. queue'[q] = Find(new[k]) /\ new[k] \in W
      BY <1>1, <3>1
    <3> QED
      BY <3>2
  <2> QED
    BY <2>1, <2>2
<1>8. ASSUME NEW p \in 1..Len(queue)
      PROVE  queue[p] = Last(queue) \/ \E q \in 1..Len(queue') : queue'[q] = queue[p]
  <2>1. CASE p = Len(queue)
    BY <2>1 DEF Last
  <2>2. CASE p # Len(queue)
    <3>1. p \in 1..Len(queue)-1 /\ p \in 1..Len(queue')
      BY <1>1, <1>2, <2>2
    <3> QED
      BY <1>1, <3>1
  <2> QED
    BY <2>1, <2>2
<1> QED
  BY <1>5, <1>6, <1>7, <1>8

(* Steps other than Pop.                                                   *)
LEMMA QuietSteps ==
  ASSUME Next \/ UNCHANGED vars, ~Pop
  PROVE  UNCHANGED <<tree, imports, malformed, emitStdlib, depRoots, files, seen, queue>>
         /\ UNCHANGED disk /\ (phase' = "done" => phase = "done" \/ queue = <<>>)
BY DEF Next, Step, NotFoundPanic, Finish, Ended, vars, disk

LEMMA StepProvided == Inv /\ [Next]_vars => AllProvided'
<1> SUFFICES ASSUME Inv, [Next]_vars PROVE AllProvided'
  OBVIOUS
<1>1. CASE Pop
  <2> DEFINE W == Wanted(Last(queue))
  <2>1. TypeOK /\ UNCHANGED disk
    BY <1>1 DEF Inv, Pop
  <2>2. Entries' = Entries \cup {Added(m) : m \in W}
        /\ \A m \in W : m \in Modules \ seen /\ Find(m) # NotFound
    BY <1>1, <2>1, PopEntries
  <2>3. ASSUME NEW m \in W
        PROVE  Provided(Added(m))
    <3>1. Find(m) # NotFound /\ Find(m)[2] = m
      BY <2>1, <2>2, FoundFile
    <3>2. ASSUME NEW r \in RootFiles
          PROVE  r[2] # m
      <4>1. PICK f \in Entries : f.file = r
        BY DEF Inv, AllProvided
      <4>2. f.module = r[2] /\ f.module \in seen
        BY <4>1 DEF Inv, AllProvided, Provided, SeenAreFiles
      <4> QED
        BY <2>2, <4>2
    <3> QED
      BY <3>1, <3>2 DEF Provided, Added
  <2>4. \A f \in Entries' : Provided(f)'
    BY <2>1, <2>2, <2>3, SameProvided DEF Inv, AllProvided
  <2>5. \A r \in RootFiles' : \E f \in Entries' : f.file = r
    BY <2>1, <2>2, SameRoots DEF Inv, AllProvided
  <2> QED
    BY <2>4, <2>5 DEF AllProvided
<1>2. CASE ~Pop
  <2>1. UNCHANGED disk /\ UNCHANGED files
    BY <1>2, QuietSteps
  <2>2. Entries' = Entries
    BY <2>1 DEF Entries
  <2> QED
    BY <2>1, <2>2, SameProvided, SameRoots DEF Inv, AllProvided
<1> QED
  BY <1>1, <1>2

LEMMA StepSeen == Inv /\ [Next]_vars => SeenAreFiles'
<1> SUFFICES ASSUME Inv, [Next]_vars PROVE SeenAreFiles'
  OBVIOUS
<1>1. CASE Pop
  <2>1. Entries' = Entries \cup {Added(m) : m \in Wanted(Last(queue))}
    BY <1>1, PopEntries DEF Inv
  <2>2. seen' = seen \cup Wanted(Last(queue))
    BY <1>1 DEF Pop
  <2>3. \A m : Added(m).module = m
    BY DEF Added
  <2> QED
    BY <2>1, <2>2, <2>3 DEF Inv, SeenAreFiles
<1>2. CASE ~Pop
  BY <1>2, QuietSteps DEF Inv, SeenAreFiles, Entries
<1> QED
  BY <1>1, <1>2

LEMMA StepFollowed == Inv /\ [Next]_vars => QueuedOrFollowed' /\ DoneIsEmpty'
<1> SUFFICES ASSUME Inv, [Next]_vars PROVE QueuedOrFollowed' /\ DoneIsEmpty'
  OBVIOUS
<1>1. CASE Pop
  <2> DEFINE last == Last(queue)
             W == Wanted(last)
  <2>1. /\ Entries' = Entries \cup {Added(m) : m \in W}
        /\ \A m \in W : \E q \in 1..Len(queue') : queue'[q] = Find(m)
        /\ \A q \in 1..Len(queue') : \/ \E p \in 1..Len(queue) : queue'[q] = queue[p]
                                     \/ \E m \in W : queue'[q] = Find(m)
        /\ \A p \in 1..Len(queue) :
             queue[p] = last \/ \E q \in 1..Len(queue') : queue'[q] = queue[p]
    BY <1>1, PopEntries DEF Inv
  <2>2. seen' = seen \cup W /\ UNCHANGED <<malformed, imports, phase>>
    BY <1>1 DEF Pop, disk
  <2>3. \A m : Added(m).file = Find(m)
    BY DEF Added
  <2>4. \A q \in 1..Len(queue') : \E f \in Entries' : f.file = queue'[q]
    <3> TAKE q \in 1..Len(queue')
    <3>1. CASE \E p \in 1..Len(queue) : queue'[q] = queue[p]
      BY <2>1, <3>1 DEF Inv, QueuedOrFollowed
    <3>2. CASE \E m \in W : queue'[q] = Find(m)
      BY <2>1, <2>3, <3>2
    <3> QED
      BY <2>1, <3>1, <3>2
  <2>5. last \in malformed \/ imports[last] \subseteq seen'
    BY <2>2 DEF Wanted
  <2>6. ASSUME NEW f \in Entries'
        PROVE  \/ f.file \in malformed \/ imports[f.file] \subseteq seen'
               \/ \E q \in 1..Len(queue') : queue'[q] = f.file
    <3>1. CASE f \in Entries
      <4>1. CASE f.file \in malformed \/ imports[f.file] \subseteq seen
        BY <2>2, <4>1
      <4>2. CASE \E p \in 1..Len(queue) : queue[p] = f.file
        BY <2>1, <2>5, <4>2
      <4> QED
        BY <3>1, <4>1, <4>2 DEF Inv, QueuedOrFollowed, Followed
    <3>2. CASE \E m \in W : f = Added(m)
      BY <2>1, <2>3, <3>2
    <3> QED
      BY <2>1, <3>1, <3>2
  <2>7. phase' # "done"
    BY <1>1, <2>2 DEF Pop
  <2> QED
    BY <2>2, <2>4, <2>6, <2>7 DEF QueuedOrFollowed, Followed, DoneIsEmpty
<1>2. CASE ~Pop
  BY <1>2, QuietSteps DEF Inv, QueuedOrFollowed, DoneIsEmpty, Followed, Entries
<1> QED
  BY <1>1, <1>2

LEMMA StepOnDemand == Inv /\ [Next]_vars => PackagesOnDemand'
<1> SUFFICES ASSUME Inv, [Next]_vars PROVE PackagesOnDemand'
  OBVIOUS
<1>1. CASE Pop
  <2> DEFINE last == Last(queue)
             W == Wanted(last)
  <2>1. TypeOK
    BY DEF Inv
  <2>2. PICK new \in Seq(Modules) :
          /\ W = {new[k] : k \in 1..Len(new)}
          /\ \A i, j \in 1..Len(new) : new[i] = new[j] => i = j
          /\ Len(files') = Len(files) + Len(new)
          /\ \A k \in 1..Len(files) : files'[k] = files[k]
          /\ \A k \in 1..Len(new) : files'[Len(files) + k] = Added(new[k])
    BY <1>1, <2>1, PopAdds
  <2>3. Len(files) \in Nat /\ Len(new) \in Nat /\ queue # <<>> /\ queue \in Seq(tree)
    BY <1>1, <2>1, FilesType DEF Pop, TypeOK
  <2>4. UNCHANGED <<malformed, imports>>
    BY <1>1 DEF Pop, disk
  <2>5. \A m : Added(m).module = m
    BY DEF Added
  <2>6. ASSUME NEW k \in 1..Len(files')
        PROVE  \/ k \in 1..Len(files) /\ files'[k] = files[k] /\ files[k].module \in seen
               \/ \E n \in 1..Len(new) :
                    k = Len(files) + n /\ files'[k].module = new[n] /\ new[n] \in W /\ new[n] \notin seen
    <3>1. CASE k \in 1..Len(files)
      BY <2>2, <3>1 DEF Inv, SeenAreFiles, Entries
    <3>2. CASE k \notin 1..Len(files)
      <4> DEFINE n == k - Len(files)
      <4>1. n \in 1..Len(new) /\ k = Len(files) + n
        BY <2>2, <2>3, <3>2
      <4>2. files'[k] = Added(new[n]) /\ new[n] \in W
        BY <2>2, <4>1
      <4>3. files'[k].module = new[n] /\ new[n] \notin seen
        BY <2>5, <4>2 DEF Wanted
      <4> QED
        BY <4>1, <4>2, <4>3
    <3> QED
      BY <3>1, <3>2
  <2>7. PICK origin \in 1..Len(files) : files[origin].file = last
    <3>1. Len(queue) \in 1..Len(queue) /\ last = queue[Len(queue)]
      <4>1. Len(queue) \in Nat \ {0}
        BY <2>3, FrontAndLast
      <4> QED
        BY <4>1 DEF Last
    <3> QED
      BY <3>1 DEF Inv, QueuedOrFollowed, Entries
  <2>8. ASSUME NEW k \in 1..Len(files'), files'[k].file[1] \in Packages
        PROVE  /\ \A j \in 1..Len(files') : files'[j].module = files'[k].module => j = k
               /\ \E j \in 1..k-1 : files'[j].file \notin malformed
                                     /\ files'[k].module \in imports[files'[j].file]
    <3>1. CASE k \in 1..Len(files)
      <4>1. files'[k] = files[k] /\ files[k].module \in seen
        BY <2>2, <3>1 DEF Inv, SeenAreFiles, Entries
      <4>2. \A j \in 1..Len(files) : files[j].module = files[k].module => j = k
        BY <2>8, <3>1, <4>1 DEF Inv, PackagesOnDemand
      <4>3. PICK j \in 1..k-1 : files[j].file \notin malformed
                                 /\ files[k].module \in imports[files[j].file]
        BY <2>8, <3>1, <4>1 DEF Inv, PackagesOnDemand
      <4>4. files'[j] = files[j]
        BY <2>2, <2>3, <3>1
      <4> QED
        BY <2>6, <4>1, <4>2, <4>3, <4>4
    <3>2. CASE k \notin 1..Len(files)
      <4>1. PICK n \in 1..Len(new) :
              k = Len(files) + n /\ files'[k].module = new[n] /\ new[n] \in W /\ new[n] \notin seen
        BY <2>6, <3>2
      <4>2. ASSUME NEW j \in 1..Len(files'), files'[j].module = files'[k].module
            PROVE  j = k
        <5>1. files'[j].module = new[n] /\ new[n] \notin seen
          BY <4>1, <4>2
        <5>2. PICK i \in 1..Len(new) : j = Len(files) + i /\ files'[j].module = new[i]
          BY <2>6, <5>1
        <5>3. i = n
          BY <2>2, <5>1, <5>2
        <5> QED
          BY <4>1, <5>2, <5>3
      <4>3. origin \in 1..k-1 /\ files'[origin] = files[origin]
        BY <2>2, <2>3, <4>1
      <4>4. last \notin malformed /\ new[n] \in imports[last]
        BY <4>1 DEF Wanted
      <4> QED
        BY <2>7, <4>1, <4>2, <4>3, <4>4
    <3> QED
      BY <3>1, <3>2
  <2> QED
    BY <2>4, <2>8 DEF PackagesOnDemand
<1>2. CASE ~Pop
  BY <1>2, QuietSteps DEF Inv, PackagesOnDemand
<1> QED
  BY <1>1, <1>2

LEMMA InitInv == Init => Inv
<1> SUFFICES ASSUME Init PROVE Inv
  OBVIOUS
<1>1. TypeOK
  BY InitType
<1>2. /\ \A k \in 1..Len(files) :
           /\ files[k].file \in RootFiles /\ files[k].file[2] = files[k].module
           /\ files[k].emit \/ files[k].file[1] = "stdlib"
      /\ \A r \in RootFiles : \E k \in 1..Len(files) : files[k].file = r
  BY StartFiles
<1>3. AllProvided
  BY <1>2 DEF AllProvided, Provided, Entries
<1>4. DOMAIN files = 1..Len(files) /\ Len(files) \in Nat
  BY <1>1, FilesType
<1>5. SeenAreFiles
  BY <1>4 DEF Init, SeenAreFiles, Entries, ToSet
<1>6. QueuedOrFollowed /\ DoneIsEmpty
  <2>1. queue = [k \in 1..Len(files) |-> files[k].file] /\ Len(queue) = Len(files) /\ phase = "gather"
    BY <1>4 DEF Init
  <2> QED
    BY <2>1 DEF QueuedOrFollowed, DoneIsEmpty, Entries
<1>7. PackagesOnDemand
  <2>1. \A r \in RootFiles : r[1] \in Fixed
    BY DEF RootFiles, Listed, Project, Fixed
  <2> QED
    BY <1>2, <2>1, RootsAssumption DEF PackagesOnDemand
<1> QED
  BY <1>1, <1>3, <1>5, <1>6, <1>7 DEF Inv

LEMMA Invariance == Spec => []Inv
<1>1. Inv /\ [Next]_vars => Inv'
  BY StepType, StepProvided, StepSeen, StepFollowed, StepOnDemand DEF Inv
<1> QED
  BY InitInv, <1>1, PTL DEF Spec

(* A package file joins once, for a module no other source has, and after  *)
(* a source that imports it.                                               *)
THEOREM JoinsOnDemand == Spec => []PackagesOnDemand
<1>1. Inv => PackagesOnDemand
  BY DEF Inv
<1> QED
  BY Invariance, <1>1, PTL
-----------------------------------------------------------------------------
LEMMA InvProvides == Inv => RequiresProvided
<1> SUFFICES ASSUME Inv, phase = "done",
                    NEW f \in ToSet(files), f.emit, f.file \notin malformed,
                    NEW m \in imports[f.file]
             PROVE  \/ \E g \in ToSet(files) : g.module = m /\ g.emit
                    \/ <<"stdlib", m>> \in tree
                    \/ m = Gleeunit
  BY DEF RequiresProvided
<1>1. TypeOK /\ queue = <<>>
  BY DEF Inv, DoneIsEmpty
<1>2. ToSet(files) = Entries
  <2>1. DOMAIN files = 1..Len(files)
    BY <1>1, FilesType
  <2> QED
    BY <2>1 DEF ToSet, Entries
<1>3. m \in seen
  <2>1. ~\E q \in 1..Len(queue) : queue[q] = f.file
    BY <1>1
  <2> QED
    BY <1>2, <2>1 DEF Inv, QueuedOrFollowed, Followed
<1>4. PICK g \in Entries : g.module = m
  BY <1>3 DEF Inv, SeenAreFiles
<1>5. Provided(g)
  BY DEF Inv, AllProvided
<1>6. g.file \in tree /\ tree \subseteq FileSet
  <2>1. g \in Source
    BY <1>1, FilesType DEF Entries
  <2> QED
    BY <1>1, <2>1, SourceFields DEF TypeOK
<1>7. ASSUME g.file[1] = "stdlib"
      PROVE  <<"stdlib", m>> \in tree
  <2>1. g.file = <<g.file[1], g.file[2]>>
    BY <1>6 DEF FileSet
  <2> QED
    BY <1>4, <1>5, <1>6, <1>7, <2>1 DEF Provided
<1> QED
  BY <1>2, <1>4, <1>5, <1>7 DEF Provided

(* When gathering ends, a module that an emitted module imports is emitted *)
(* too, or belongs to the shipped library or to the test shim.             *)
THEOREM GatheredIsProvided == Spec => []RequiresProvided
BY Invariance, InvProvides, PTL
-----------------------------------------------------------------------------
(* The files the abstraction attributes to a module are those that joined  *)
(* for it.                                                                 *)
LEMMA EntryIsFileOf ==
  ASSUME Inv, NEW f \in Entries
  PROVE  f.file \in FilesOf(f.module) /\ f.module \in seen /\ f.module \in Modules /\ f.file \in tree
<1>1. f \in Source
  BY FilesType DEF Inv, Entries
<1>2. f.module \in seen
  BY DEF Inv, SeenAreFiles
<1>3. Provided(f)
  BY DEF Inv, AllProvided
<1>4. f.file \in FilesOf(f.module)
  BY <1>3 DEF FilesOf, Provided
<1> QED
  BY <1>1, <1>2, <1>4, SourceFields

LEMMA FileOfIsEntry ==
  ASSUME Inv, NEW m \in seen, NEW file \in FilesOf(m)
  PROVE  \E f \in Entries : f.file = file
<1>1. CASE file \in RootFiles
  BY <1>1 DEF Inv, AllProvided
<1>2. CASE file \notin RootFiles
  <2>1. file = Find(m) /\ \A r \in RootFiles : r[2] # m
    BY <1>2 DEF FilesOf
  <2>2. PICK f \in Entries : f.module = m
    BY DEF Inv, SeenAreFiles
  <2>3. Provided(f)
    BY DEF Inv, AllProvided
  <2> QED
    BY <2>1, <2>2, <2>3 DEF Provided
<1> QED
  BY <1>1, <1>2

(* What the last file queued wants is wanted in the abstraction.           *)
LEMMA WantedIsWanted ==
  ASSUME Inv, queue # <<>>
  PROVE  Wanted(Last(queue)) \subseteq Collection!Wanted /\ Wanted(Last(queue)) \subseteq Modules
<1> DEFINE last == Last(queue)
           importsOf == [m \in Modules |-> UNION {imports[f] : f \in (FilesOf(m) \cap tree) \ malformed}]
<1>1. Len(queue) \in 1..Len(queue) /\ last = queue[Len(queue)] /\ last \in tree
  <2>1. queue \in Seq(tree) /\ queue # <<>>
    BY DEF Inv, TypeOK
  <2>2. Len(queue) \in Nat \ {0} /\ last \in tree
    BY <2>1, FrontAndLast
  <2> QED
    BY <2>2 DEF Last
<1>2. PICK f \in Entries : f.file = last
  BY <1>1 DEF Inv, QueuedOrFollowed
<1>3. last \in FilesOf(f.module) /\ f.module \in seen /\ f.module \in Modules
  BY <1>2, EntryIsFileOf
<1>4. ASSUME NEW m \in Wanted(last)
      PROVE  m \in imports[last] /\ last \notin malformed /\ m \notin seen /\ m \in Modules
  BY <1>1 DEF Wanted, Inv, TypeOK
<1>5. ASSUME NEW m \in Wanted(last)
      PROVE  m \in importsOf[f.module]
  BY <1>1, <1>3, <1>4
<1>6. Collection!Wanted = (UNION {importsOf[m] : m \in seen}) \ seen
  BY DEF Collection!Wanted
<1>7. ASSUME NEW m \in Wanted(last)
      PROVE  m \in Collection!Wanted /\ m \in Modules
  <2> DEFINE mine == importsOf[f.module]
             all == {importsOf[n] : n \in seen}
  <2>1. mine \in all /\ m \in mine /\ m \notin seen
    BY <1>3, <1>4, <1>5
  <2>2. Collection!Wanted = (UNION all) \ seen
    BY <1>6
  <2> HIDE DEF mine, all
  <2>3. m \in (UNION all) \ seen
    BY <2>1
  <2> QED
    BY <1>4, <2>2, <2>3
<1> QED
  BY <1>7

(* Once the worklist is empty nothing is wanted.                           *)
LEMMA NothingWanted ==
  ASSUME Inv, queue = <<>>
  PROVE  Collection!Wanted = {}
<1> DEFINE importsOf == [m \in Modules |-> UNION {imports[f] : f \in (FilesOf(m) \cap tree) \ malformed}]
<1>1. Collection!Wanted = (UNION {importsOf[m] : m \in seen}) \ seen
  BY DEF Collection!Wanted
<1>2. ASSUME NEW m \in seen, NEW x \in importsOf[m]
      PROVE  x \in seen
  <2>1. m \in Modules
    BY DEF Inv, TypeOK
  <2>2. PICK file \in (FilesOf(m) \cap tree) \ malformed : x \in imports[file]
    BY <1>2, <2>1
  <2>3. PICK f \in Entries : f.file = file
    BY <2>2, FileOfIsEntry
  <2>4. ~\E q \in 1..Len(queue) : queue[q] = file
    OBVIOUS
  <2> QED
    BY <2>2, <2>3, <2>4 DEF Inv, QueuedOrFollowed, Followed
<1>3. UNION {importsOf[m] : m \in seen} \subseteq seen
  <2> HIDE DEF importsOf
  <2> QED
    BY <1>2
<1> QED
  <2> DEFINE all == UNION {importsOf[m] : m \in seen}
  <2>1. Collection!Wanted = all \ seen /\ all \subseteq seen
    BY <1>1, <1>3
  <2> HIDE DEF all
  <2> QED
    BY <2>1

LEMMA SameCollection ==
  ASSUME UNCHANGED disk
  PROVE  UNCHANGED <<{f[2] : f \in RootFiles}, {m \in Modules : Find(m) # NotFound},
                     [m \in Modules |-> UNION {imports[f] : f \in (FilesOf(m) \cap tree) \ malformed}]>>
<1>1. \A m : Find(m)' = Find(m)
  BY SameFind
<1>2. RootFiles' = RootFiles
  BY SameRoots
<1>3. \A m : FilesOf(m)' = FilesOf(m)
  BY <1>1, <1>2 DEF FilesOf
<1> QED
  BY <1>1, <1>2, <1>3 DEF disk, NotFound

(* The initial states of gathering are initial states of the collection.   *)
LEMMA InitCollects == Init => Collection!Init
<1> SUFFICES ASSUME Init PROVE Collection!Init
  OBVIOUS
<1>1. SeenAreFiles /\ phase = "gather"
  BY InitInv DEF Inv, Init
<1>2. /\ \A k \in 1..Len(files) : files[k].file \in RootFiles /\ files[k].file[2] = files[k].module
      /\ \A r \in RootFiles : \E k \in 1..Len(files) : files[k].file = r
  BY StartFiles
<1>3. seen = {f[2] : f \in RootFiles}
  BY <1>1, <1>2 DEF SeenAreFiles, Entries
<1> QED
  BY <1>1, <1>3 DEF Collection!Init

(* Every step is a step of the collection, or changes nothing it shows.    *)
LEMMA StepCollects == Inv /\ [Next]_vars => [Collection!Next]_(Collection!vars)
<1> SUFFICES ASSUME Inv, [Next]_vars PROVE Collection!Next \/ UNCHANGED Collection!vars
  OBVIOUS
<1>1. CASE Pop
  <2> DEFINE W == Wanted(Last(queue))
  <2>1. UNCHANGED disk /\ phase = "gather" /\ phase' = "gather" /\ queue # <<>>
        /\ seen' = seen \cup W /\ \A m \in W : Find(m) # NotFound
    BY <1>1 DEF Pop
  <2>2. CASE W = {}
    <3>1. seen' = seen
      BY <2>1, <2>2
    <3> QED
      BY <2>1, <3>1, SameCollection DEF Collection!vars
  <2>3. CASE W # {}
    <3>1. W \in SUBSET (Collection!Wanted \cap {m \in Modules : Find(m) # NotFound})
      BY <2>1, WantedIsWanted
    <3> HIDE DEF W
    <3> QED
      BY <2>1, <2>3, <3>1, SameCollection DEF Collection!Next, Collection!Collect
  <2> QED
    BY <2>2, <2>3
<1>2. CASE NotFoundPanic
  <2>1. UNCHANGED disk /\ seen' = seen /\ phase = "gather" /\ phase' = "not_found" /\ queue # <<>>
    BY <1>2 DEF NotFoundPanic
  <2>2. PICK m \in Wanted(Last(queue)) : Find(m) = NotFound
    BY <1>2 DEF NotFoundPanic
  <2>3. Collection!Wanted \ {x \in Modules : Find(x) # NotFound} # {}
    BY <2>1, <2>2, WantedIsWanted
  <2> QED
    BY <2>1, <2>3, SameCollection DEF Collection!Next, Collection!Missing
<1>3. CASE Finish
  <2>1. UNCHANGED disk /\ seen' = seen /\ phase = "gather" /\ phase' = "done" /\ queue = <<>>
    BY <1>3 DEF Finish
  <2> QED
    BY <2>1, NothingWanted, SameCollection DEF Collection!Next, Collection!Close
<1>4. CASE Ended \/ UNCHANGED vars
  <2>1. UNCHANGED disk /\ seen' = seen /\ phase' = phase
    BY <1>4 DEF Ended, vars
  <2> QED
    BY <2>1, SameCollection DEF Collection!vars
<1> QED
  BY <1>1, <1>2, <1>3, <1>4 DEF Next, Step

(* Whatever the order of the worklist, gathering collects the closure of   *)
(* the roots under active imports, or stops on an import nobody has.       *)
THEOREM ImplementsClosure == Spec => CollectsClosure
<1>1. Init => Collection!Init
  BY InitCollects
<1>2. Inv /\ [Next]_vars => [Collection!Next]_(Collection!vars)
  BY StepCollects
<1> QED
  BY Invariance, <1>1, <1>2, PTL DEF Spec, CollectsClosure, Collection!Spec
-----------------------------------------------------------------------------
(* What gathering has left to do: the modules not seen, the files queued   *)
(* and the end itself.                                                     *)
Left == Cardinality(Modules \ seen) + Len(queue) + IF phase = "gather" THEN 1 ELSE 0

LEMMA StepLeft ==
  ASSUME TypeOK, Step
  PROVE  Left \in Nat /\ Left' = Left - 1
<1>1. Len(queue) \in Nat /\ Cardinality(Modules \ seen) \in Nat
  <2>1. IsFiniteSet(Modules \ seen)
    BY RootsAssumption, FS_Difference
  <2>2. Cardinality(Modules \ seen) \in Nat
    BY <2>1, FS_CardinalityType
  <2> QED
    BY <2>2 DEF TypeOK
<1>2. CASE Pop
  <2> DEFINE W == Wanted(Last(queue))
  <2>1. PICK new \in Seq(Modules) :
          /\ W = {new[k] : k \in 1..Len(new)}
          /\ \A i, j \in 1..Len(new) : new[i] = new[j] => i = j
          /\ Len(queue') = Len(queue) - 1 + Len(new)
    BY <1>2, PopAdds
  <2>2. W \in SUBSET (Modules \ seen)
    <3>1. Last(queue) \in tree
      BY <1>2, PopAdds
    <3> QED
      BY <3>1 DEF Wanted, TypeOK
  <2>3. phase = "gather" /\ phase' = "gather" /\ seen' = seen \cup W
    BY <1>2 DEF Pop
  <2> HIDE DEF W
  <2>4. Cardinality(W) = Len(new) /\ Len(new) \in Nat
    <3>1. Len(new) \in Nat /\ new \in [1..Len(new) -> W]
      BY <2>1
    <3>2. new \in Seq(W)
      BY <3>1
    <3> QED
      BY <2>1, <3>1, <3>2, ListingLength
  <2>5. Cardinality(Modules \ seen') = Cardinality(Modules \ seen) - Cardinality(W)
    <3> DEFINE M == Modules \ seen
    <3>1. IsFiniteSet(M)
      BY RootsAssumption, FS_Difference
    <3>2. Modules \ seen' = M \ W /\ W \in SUBSET M
      BY <2>2, <2>3
    <3> HIDE DEF M
    <3>3. Cardinality(M \ W) = Cardinality(M) - Cardinality(W)
      BY <3>1, <3>2, TakenAway
    <3> QED
      BY <3>2, <3>3 DEF M
  <2>6. Left = Cardinality(Modules \ seen) + Len(queue) + 1
        /\ Left' = Cardinality(Modules \ seen') + Len(queue') + 1
    BY <2>3 DEF Left
  <2>7. Len(queue') = Len(queue) - 1 + Cardinality(W) /\ Cardinality(W) \in Nat
    BY <2>1, <2>4
  <2> DEFINE unseen == Cardinality(Modules \ seen)
             unseen1 == Cardinality(Modules \ seen')
             found == Cardinality(W)
             length1 == Len(queue')
  <2> HIDE DEF unseen, unseen1, found, length1
  <2>8. /\ Left = unseen + Len(queue) + 1 /\ Left' = unseen1 + length1 + 1
        /\ length1 = Len(queue) - 1 + found /\ unseen1 = unseen - found
        /\ unseen \in Nat /\ found \in Nat /\ Len(queue) \in Nat
    BY <1>1, <2>5, <2>6, <2>7 DEF unseen, unseen1, found, length1
  <2> QED
    BY <2>8
<1>3. CASE NotFoundPanic \/ Finish
  <2>1. phase = "gather" /\ phase' # "gather" /\ UNCHANGED <<seen, queue>>
    BY <1>3 DEF NotFoundPanic, Finish
  <2> QED
    BY <1>1, <2>1 DEF Left
<1> QED
  BY <1>2, <1>3 DEF Step

(* Gathering cannot go on for ever, however the imports loop: each step of *)
(* the worklist brings the end nearer by one.                              *)
THEOREM EachStepCounts == Spec => [][Left' = Left - 1 /\ Left \in Nat]_vars
<1>1. TypeOK /\ [Next]_vars => [Left' = Left - 1 /\ Left \in Nat]_vars
  BY StepLeft DEF Next, Ended
<1> QED
  BY TypeCorrect, <1>1, PTL DEF Spec
=============================================================================
