--------------------------- MODULE Analyze_proofs ---------------------------
(***************************************************************************)
(* Proofs about Analyze, for every number of sources and every import      *)
(* graph.                                                                  *)
(***************************************************************************)
EXTENDS Analyze, FiniteSetTheorems, WellFoundedInduction, TLAPS

(* What the loops of the sort and of the inference maintain.               *)
Pushed == {order[k] : k \in 1..Len(order)}

CountInv ==
  /\ IsFiniteSet(done)
  /\ Cardinality(done) = Len(order)
  /\ Len(order) <= N

EdgesInv ==
  phase \in {"rounds", "scan"} => \A i \in Sources \ done : depsOf[i] = Deps(i)

(* While a round has pushed nothing, what it passed over is blocked.       *)
RoundInv ==
  phase = "scan" =>
    /\ before <= Len(order) /\ before < N
    /\ Len(order) = before =>
         \A i \in Sources \ done : i < cursor => Deps(i) \ done # {}

InferInv ==
  /\ \A p \in Paths : interfaces[p] # NoSource =>
       interfaces[p] \in DOMAIN out /\ path[interfaces[p]] = p
  /\ phase \in {"infer", "done", "unknown_module", "type_error"} =>
       /\ Len(order) >= N
       /\ \A k \in 1..cursor : interfaces[path[order[k]]] # NoSource
  /\ phase = "unknown_module" => cursor < Len(order) /\ ~Resolves(Current)

Inv == TypeOK /\ CountInv /\ DependenciesFirst /\ EdgesInv /\ RoundInv
         /\ StuckMeansCycle /\ InferInv /\ TypedAgainstItsImports

-----------------------------------------------------------------------------
LEMMA DepsType ==
  ASSUME NEW i
  PROVE  Deps(i) \subseteq Sources
BY DEF Deps, DepsVia

(* The indices form a finite set of N elements.                            *)
LEMMA SourcesFinite ==
  /\ IsFiniteSet(Sources)
  /\ Cardinality(Sources) = N
<1>1. 0 \in Int /\ N - 1 \in Int
  BY SourceCount
<1>2. IsFiniteSet(0..N-1) /\ Cardinality(0..N-1) = IF 0 > N-1 THEN 0 ELSE (N-1) - 0 + 1
  BY <1>1, FS_Interval
<1> QED
  BY <1>2, SourceCount DEF Sources

(* Types and the count of pushed sources go together: the bound on the     *)
(* cursor of the inference is the number of sources pushed.                *)
LEMMA TypeInit == Init => TypeOK /\ CountInv
<1>1. Init => TypeOK
  BY SourceCount DEF Init, TypeOK, Terminal, NoSource
<1>2. Init => CountInv
  BY FS_EmptySet, SourceCount DEF Init, CountInv
<1> QED
  BY <1>1, <1>2

LEMMA PushCounts ==
  ASSUME TypeOK, CountInv, Push
  PROVE  CountInv'
<1>1. cursor \in Sources /\ cursor \notin done
  BY SourceCount DEF Push, Ready, Sources, TypeOK
<1>2. IsFiniteSet(done') /\ Cardinality(done') = Cardinality(done) + 1
  BY <1>1, FS_AddElement DEF Push, CountInv
<1>3. Cardinality(done') <= N
  <2>1. done' \subseteq Sources
    BY <1>1 DEF Push, TypeOK
  <2> QED
    BY <2>1, SourcesFinite, FS_Subset
<1>4. Len(order') = Len(order) + 1
  BY <1>1 DEF Push, TypeOK
<1> QED
  BY <1>2, <1>3, <1>4 DEF CountInv

LEMMA TypeStep ==
  ASSUME TypeOK, CountInv, [Next]_vars
  PROVE  TypeOK' /\ CountInv'
<1>1. CountInv'
  <2>1. CASE Push
    BY <2>1, PushCounts
  <2>2. CASE UNCHANGED <<order, done>>
    BY <2>2 DEF CountInv
  <2> QED
    BY <2>1, <2>2
       DEF Next, Step, Ended, Parse, ParseError, BuildGraph, StartRound, Skip,
           EndRound, StartInfer, Infer, UnknownModule, TypeError, Finish, vars, sorting
<1>2. TypeOK'
  <2> USE SourceCount DEF TypeOK, input, sorting, Terminal
  <2>1. CASE Parse
    BY <2>1 DEF Parse
  <2>2. CASE ParseError
    BY <2>2 DEF ParseError
  <2>3. CASE BuildGraph
    BY <2>3, DepsType DEF BuildGraph
  <2>4. CASE StartRound
    BY <2>4 DEF StartRound
  <2>5. CASE Push
    <3>1. cursor \in Sources
      BY <2>5 DEF Push, Sources
    <3> QED
      BY <2>5, <3>1 DEF Push
  <2>6. CASE Skip
    BY <2>6 DEF Skip
  <2>7. CASE EndRound
    BY <2>7 DEF EndRound
  <2>8. CASE StartInfer
    BY <2>8 DEF StartInfer
  <2>9. CASE Infer
    <3>1. Current \in Sources /\ cursor + 1 \in 0..N
      BY <2>9 DEF Infer, Current, CountInv
    <3>2. interfaces' \in [Paths -> Sources \cup {NoSource}]
      BY <2>9, <3>1 DEF Infer
    <3>3. [p \in active[Current] |-> interfaces[p]] \in [active[Current] -> Sources]
      BY <2>9, <3>1 DEF Infer, Resolves
    <3>4. DOMAIN out' \subseteq Sources /\ \A i \in DOMAIN out' : out'[i] \in [active[i] -> Sources]
      BY <2>9, <3>1, <3>3 DEF Infer
    <3> QED
      BY <2>9, <3>1, <3>2, <3>4 DEF Infer
  <2>10. CASE UnknownModule
    BY <2>10 DEF UnknownModule
  <2>11. CASE TypeError
    BY <2>11 DEF TypeError
  <2>12. CASE Finish
    BY <2>12 DEF Finish
  <2>13. CASE UNCHANGED vars
    BY <2>13 DEF vars
  <2> QED
    BY <2>1, <2>2, <2>3, <2>4, <2>5, <2>6, <2>7, <2>8, <2>9, <2>10, <2>11,
       <2>12, <2>13 DEF Next, Step, Ended
<1> QED
  BY <1>1, <1>2

(* Every variable keeps its type; in particular the sort never pushes more *)
(* sources than there are, so the cursor stays within the vectors.         *)
THEOREM TypeCorrect == Spec => []TypeOK
<1>1. Init => TypeOK /\ CountInv
  BY TypeInit
<1>2. (TypeOK /\ CountInv) /\ [Next]_vars => (TypeOK /\ CountInv)'
  BY TypeStep
<1> QED
  BY <1>1, <1>2, PTL DEF Spec

-----------------------------------------------------------------------------
(* The input never changes, and with it the edges of the sort.             *)
LEMMA InputFixed ==
  ASSUME [Next]_vars
  PROVE  /\ path' = path /\ active' = active /\ dropped' = dropped
         /\ \A i : Deps(i)' = Deps(i)
<1>1. path' = path /\ active' = active /\ dropped' = dropped
  BY DEF Next, Step, Ended, Parse, ParseError, BuildGraph, StartRound, Push, Skip,
         EndRound, StartInfer, Infer, UnknownModule, TypeError, Finish, vars, input
<1> QED
  BY <1>1 DEF Deps, DepsVia, IsIndexed

(* Only Push changes the order; it appends the one source it marks done.   *)
LEMMA OrderGrows ==
  ASSUME TypeOK, [Next]_vars
  PROVE  \/ UNCHANGED <<order, done>>
         \/ Push
BY DEF Next, Step, Ended, Parse, ParseError, BuildGraph, StartRound, Skip,
       EndRound, StartInfer, Infer, UnknownModule, TypeError, Finish, vars, sorting

LEMMA PushShape ==
  ASSUME TypeOK, Push
  PROVE  /\ cursor \in Sources /\ cursor \notin done
         /\ done' = done \cup {cursor}
         /\ order' = Append(order, cursor)
         /\ Len(order) \in Nat /\ Len(order') = Len(order) + 1
         /\ \A k \in 1..Len(order) : order'[k] = order[k]
         /\ order'[Len(order) + 1] = cursor
         /\ \A i \in Sources : i # cursor => depsOf'[i] = depsOf[i]
BY SourceCount DEF Push, Ready, Sources, TypeOK

LEMMA EdgesStep ==
  ASSUME TypeOK, EdgesInv, [Next]_vars
  PROVE  EdgesInv'
<1> USE DEF EdgesInv
<1>1. CASE BuildGraph
  BY <1>1, InputFixed DEF BuildGraph
<1>2. CASE Push
  BY <1>2, InputFixed, PushShape DEF Push
<1>3. CASE phase' \in {"rounds", "scan"} => phase \in {"rounds", "scan"} /\ UNCHANGED <<depsOf, done>>
  BY <1>3, InputFixed
<1> QED
  BY <1>1, <1>2, <1>3
     DEF Next, Step, Ended, Parse, ParseError, StartRound, Skip, EndRound,
         StartInfer, Infer, UnknownModule, TypeError, Finish, vars, sorting

LEMMA OrderStep ==
  ASSUME TypeOK, EdgesInv, DependenciesFirst, [Next]_vars
  PROVE  DependenciesFirst'
<1>1. CASE UNCHANGED <<order, done>>
  BY <1>1, InputFixed DEF DependenciesFirst
<1>2. CASE Push
  <2> DEFINE n == Len(order)
  <2>1. n \in Nat /\ Len(order') = n + 1 /\ order'[n + 1] = cursor
        /\ done' = done \cup {cursor} /\ \A k \in 1..n : order'[k] = order[k]
    BY <1>2, PushShape
  <2>2. \A k \in 1..n+1 : k = n + 1 \/ k \in 1..n
    BY <2>1
  <2>3. 1..n \subseteq 1..n+1
    BY <2>1
  <2>4. done' = {order'[k] : k \in 1..n+1}
    <3>1. \A k \in 1..n+1 : order'[k] \in done'
      BY <2>1, <2>2 DEF DependenciesFirst
    <3>2. \A x \in done' : \E k \in 1..n+1 : order'[k] = x
      <4> SUFFICES ASSUME NEW x \in done' PROVE \E k \in 1..n+1 : order'[k] = x
        OBVIOUS
      <4>1. CASE x = cursor
        BY <4>1, <2>1
      <4>2. CASE x \in done
        <5>1. PICK k \in 1..n : order[k] = x
          BY <4>2 DEF DependenciesFirst
        <5> QED
          BY <5>1, <2>1, <2>3
      <4> QED
        BY <4>1, <4>2, <2>1
    <3> QED
      BY <3>1, <3>2
  <2>5. \A j, k \in 1..n+1 : order'[j] = order'[k] => j = k
    <3>1. \A k \in 1..n : order'[k] # cursor
      BY <2>1, <1>2, PushShape DEF DependenciesFirst
    <3> QED
      BY <2>1, <2>2, <3>1 DEF DependenciesFirst
  <2>6. ASSUME NEW k \in 1..n+1, NEW d \in Deps(order'[k])
        PROVE  \E j \in 1..k-1 : order'[j] = d
    <3>1. CASE k \in 1..n
      <4>1. PICK j \in 1..k-1 : order[j] = d
        BY <3>1, <2>1, <2>6 DEF DependenciesFirst
      <4>2. j \in 1..n
        BY <3>1, <2>1
      <4> QED
        BY <4>1, <4>2, <2>1
    <3>2. CASE k = n + 1
      <4>1. d \in done
        <5>1. depsOf[cursor] = Deps(cursor)
          BY <1>2, PushShape DEF Push, EdgesInv
        <5> QED
          BY <5>1, <3>2, <2>1, <2>6, <1>2 DEF Push, Ready
      <4>2. PICK j \in 1..n : order[j] = d
        BY <4>1 DEF DependenciesFirst
      <4> QED
        BY <4>2, <3>2, <2>1
    <3> QED
      BY <3>1, <3>2, <2>2
  <2> QED
    BY <2>1, <2>4, <2>5, <2>6, InputFixed DEF DependenciesFirst
<1> QED
  BY <1>1, <1>2, OrderGrows

LEMMA RoundStep ==
  ASSUME TypeOK, CountInv, EdgesInv, RoundInv, [Next]_vars
  PROVE  RoundInv'
<1> USE SourceCount DEF RoundInv
<1>1. CASE StartRound
  BY <1>1 DEF StartRound, Sources, TypeOK
<1>2. CASE Push
  BY <1>2, PushShape DEF Push, TypeOK
<1>3. CASE Skip
  <2>1. phase = "scan" /\ cursor \in Sources /\ cursor' = cursor + 1
        /\ UNCHANGED <<before, order, done>>
    BY <1>3 DEF Skip, sorting, Sources, TypeOK
  <2>2. cursor \notin done => Deps(cursor) \ done # {}
    BY <1>3, <2>1 DEF Skip, Ready, EdgesInv
  <2>3. \A i \in Sources : i < cursor + 1 => i < cursor \/ i = cursor
    BY <2>1 DEF Sources
  <2> QED
    BY <2>1, <2>2, <2>3, InputFixed
<1>4. CASE UNCHANGED vars
  BY <1>4, InputFixed DEF vars, sorting
<1>5. CASE phase' # "scan"
  BY <1>5
<1> QED
  BY <1>1, <1>2, <1>3, <1>4, <1>5
     DEF Next, Step, Ended, Parse, ParseError, BuildGraph, EndRound,
         StartInfer, Infer, UnknownModule, TypeError, Finish

LEMMA StuckStep ==
  ASSUME TypeOK, CountInv, RoundInv, StuckMeansCycle, [Next]_vars
  PROVE  StuckMeansCycle'
<1>1. CASE EndRound /\ Len(order) = before
  <2>1. before < N /\ cursor = N /\ done' = done /\ phase = "scan"
    BY <1>1 DEF EndRound, RoundInv, sorting
  <2>2. done # Sources
    BY <2>1, <1>1, SourcesFinite, SourceCount DEF CountInv, TypeOK
  <2>3. \A i \in Sources : i < N
    BY SourceCount DEF Sources
  <2>4. \A i \in Sources \ done : Deps(i) \ done # {}
    BY <2>1, <2>3, <1>1 DEF RoundInv
  <2> QED
    BY <2>1, <2>2, <2>4, InputFixed DEF StuckMeansCycle, TypeOK
<1>2. CASE UNCHANGED vars
  BY <1>2, InputFixed DEF StuckMeansCycle, vars, sorting
<1>3. CASE phase' # "cycle"
  BY <1>3 DEF StuckMeansCycle
<1> QED
  BY <1>1, <1>2, <1>3
     DEF Next, Step, Ended, Parse, ParseError, BuildGraph, StartRound, Push, Skip,
         EndRound, StartInfer, Infer, UnknownModule, TypeError, Finish

LEMMA InferStep ==
  ASSUME TypeOK, CountInv, InferInv, TypedAgainstItsImports, [Next]_vars
  PROVE  InferInv' /\ TypedAgainstItsImports'
<1> USE SourceCount
<1>1. CASE StartInfer
  BY <1>1 DEF StartInfer, InferInv, TypedAgainstItsImports, TypeOK, input, sorting
<1>2. CASE Infer
  <2>1. /\ Current \in Sources /\ path[Current] \in Paths /\ Current # NoSource
        /\ active[Current] \subseteq Paths
        /\ Current = order[cursor + 1]
    BY <1>2 DEF Infer, Current, TypeOK, NoSource, Sources
  <2>2. /\ order' = order /\ path' = path /\ active' = active
        /\ phase' = phase /\ phase = "infer" /\ cursor' = cursor + 1
    BY <1>2 DEF Infer, input, sorting
  <2>3. \A p \in Paths : interfaces'[p] = IF p = path[Current] THEN Current ELSE interfaces[p]
    BY <1>2, <2>1 DEF Infer, TypeOK
  <2>4. /\ DOMAIN out' = DOMAIN out \cup {Current}
        /\ \A i \in DOMAIN out' : \A p \in active[i] :
              out'[i][p] = IF i = Current THEN interfaces[p] ELSE out[i][p]
    BY <1>2 DEF Infer
  <2>5. \A p \in active[Current] : interfaces[p] # NoSource
    BY <1>2 DEF Infer, Resolves
  <2>6. \A p \in Paths : interfaces'[p] # NoSource =>
            interfaces'[p] \in DOMAIN out' /\ path[interfaces'[p]] = p
    BY <2>1, <2>3, <2>4 DEF InferInv
  <2>7. ASSUME NEW k \in 1..cursor+1
        PROVE  interfaces'[path[order[k]]] # NoSource
    <3>1. CASE k = cursor + 1
      BY <3>1, <2>1, <2>3
    <3>2. CASE k \in 1..cursor
      <4>1. order[k] \in Sources /\ path[order[k]] \in Paths
        BY <3>2, <1>2 DEF Infer, TypeOK
      <4> QED
        BY <4>1, <3>2, <2>1, <2>2, <2>3 DEF InferInv
    <3> QED
      BY <3>1, <3>2 DEF TypeOK
  <2>8. \A i \in DOMAIN out' : \A p \in active[i] :
           out'[i][p] \in DOMAIN out' /\ path[out'[i][p]] = p
    BY <2>1, <2>4, <2>5 DEF TypedAgainstItsImports, InferInv
  <2> QED
    BY <2>2, <2>6, <2>7, <2>8 DEF InferInv, TypedAgainstItsImports
<1>3. CASE UnknownModule
  BY <1>3 DEF UnknownModule, InferInv, TypedAgainstItsImports, Resolves, Current, input, sorting
<1>4. CASE TypeError \/ Finish
  BY <1>4 DEF TypeError, Finish, InferInv, TypedAgainstItsImports, input, sorting
<1>5. CASE UNCHANGED vars
  BY <1>5 DEF vars, input, sorting, InferInv, TypedAgainstItsImports, Resolves, Current
<1>6. CASE /\ phase' \notin {"infer", "done", "unknown_module", "type_error"}
           /\ UNCHANGED <<input, interfaces, out>>
  BY <1>6 DEF InferInv, TypedAgainstItsImports, input
<1> QED
  BY <1>1, <1>2, <1>3, <1>4, <1>5, <1>6
     DEF Next, Step, Ended, Parse, ParseError, BuildGraph, StartRound, Push, Skip,
         EndRound

-----------------------------------------------------------------------------
LEMMA InvInit == Init => Inv
<1> SUFFICES ASSUME Init PROVE Inv
  OBVIOUS
<1>1. TypeOK /\ CountInv
  BY TypeInit
<1>2. DependenciesFirst /\ EdgesInv /\ RoundInv /\ StuckMeansCycle
  BY DEF Init, DependenciesFirst, EdgesInv, RoundInv, StuckMeansCycle
<1>3. InferInv /\ TypedAgainstItsImports
  BY DEF Init, InferInv, TypedAgainstItsImports
<1> QED
  BY <1>1, <1>2, <1>3 DEF Inv

LEMMA InvStep == Inv /\ [Next]_vars => Inv'
BY TypeStep, EdgesStep, OrderStep, RoundStep, StuckStep, InferStep DEF Inv

LEMMA Invariance == Spec => []Inv
BY InvInit, InvStep, PTL DEF Spec

(* The order lists each source once, after everything it imports.          *)
THEOREM OrderIsTopological == Spec => []DependenciesFirst
BY Invariance, PTL DEF Inv

(* A reported import cycle is there: the sources left import each other.   *)
THEOREM CycleIsReal == Spec => []StuckMeansCycle
BY Invariance, PTL DEF Inv

(* An analyzed module was typed against analyzed sources of its imports.   *)
THEOREM ImportsAreTyped == Spec => []TypedAgainstItsImports
BY Invariance, PTL DEF Inv

(* A path some source has is the path of an indexed one: the last.         *)
LEMMA LastSourceOfAPath ==
  ASSUME TypeOK, NEW p, NEW s \in Sources, path[s] = p
  PROVE  \E d \in Sources : path[d] = p /\ IsIndexed(d)
<1> USE SourceCount
<1> DEFINE T == {n \in Nat : \E i \in Sources : path[i] = p /\ n = N - i}
<1>1. T \subseteq Nat /\ T # {}
  <2>1. N - s \in T
    BY DEF Sources
  <2> QED
    BY <2>1
<1>2. PICK m \in T : \A n \in T : ~(<<n, m>> \in OpToRel(<, Nat))
  <2> HIDE DEF T
  <2> QED
    BY <1>1, NatLessThanWellFounded, WFMin
<1>3. \A n \in T : ~(n < m)
  BY <1>2 DEF OpToRel
<1>4. PICK d \in Sources : path[d] = p /\ m = N - d
  BY <1>2
<1>5. ASSUME NEW j \in Sources, j > d, path[j] = p
      PROVE  FALSE
  <2>1. N - j \in T /\ N - j < m
    BY <1>4, <1>5 DEF Sources
  <2> QED
    BY <2>1, <1>3
<1> QED
  BY <1>4, <1>5 DEF IsIndexed

(* A module reported unknown is: no source has its path.                   *)
THEOREM UnknownIsReal == Spec => []UnknownMeansMissing
<1>1. Inv => UnknownMeansMissing
  <2> SUFFICES ASSUME Inv, phase = "unknown_module"
               PROVE  \E p \in active[Current] : \A i \in Sources : path[i] # p
    BY DEF UnknownMeansMissing
  <2> USE SourceCount DEF Inv
  <2>1. cursor + 1 \in 1..Len(order) /\ cursor \in Nat /\ Current = order[cursor + 1]
    BY DEF InferInv, TypeOK, Current
  <2>2. PICK p \in active[Current] : interfaces[p] = NoSource
    BY DEF InferInv, Resolves
  <2>3. ASSUME NEW s \in Sources, path[s] = p
        PROVE  FALSE
    <3>1. PICK d \in Sources : path[d] = p /\ IsIndexed(d)
      BY <2>3, LastSourceOfAPath
    <3>2. d \in Deps(Current)
      BY <3>1 DEF Deps, DepsVia
    <3>3. PICK j \in 1..cursor : order[j] = d
      <4>1. cursor = (cursor + 1) - 1
        BY <2>1
      <4>2. d \in Deps(order[cursor + 1])
        BY <2>1, <3>2
      <4>3. \E j \in 1..(cursor + 1) - 1 : order[j] = d
        BY <2>1, <4>2 DEF DependenciesFirst
      <4> QED
        BY <4>1, <4>3
    <3> QED
      BY <3>1, <3>3, <2>2 DEF InferInv
  <2> QED
    BY <2>2, <2>3
<1> QED
  BY <1>1, Invariance, PTL
-----------------------------------------------------------------------------
(* What analyze() has left to do at most: the sources to parse, a round of *)
(* N + 2 steps for each source not pushed and one more to give up, and the *)
(* sources to infer.                                                       *)
RoundSteps == N + 2
InferSteps == N + 2
Left ==
  CASE phase = "parse" -> (N - cursor) + 1 + (N + 1) * RoundSteps + InferSteps
    [] phase = "rounds" -> (N - Len(order) + 1) * RoundSteps + InferSteps
    [] phase = "scan" -> (N - before) * RoundSteps + (N - cursor) + 1 + InferSteps
    [] phase = "infer" -> (N - cursor) + 1
    [] OTHER -> 0

LEMMA MoreRounds ==
  ASSUME NEW a \in Nat, NEW b \in Nat, NEW k \in Nat, a <= b
  PROVE  /\ a * k \in Nat /\ b * k \in Nat /\ a * k <= b * k
         /\ (a + 1) * k = a * k + k
<1>1. ASSUME NEW x \in Nat, NEW y \in Nat PROVE x * y \in Nat
  BY <1>1
<1>2. b - a \in Nat
  OBVIOUS
<1>3. (b - a) * k \in Nat
  BY <1>1, <1>2
<1>4. b * k = a * k + (b - a) * k
  OBVIOUS
<1>5. (a + 1) * k = a * k + k
  OBVIOUS
<1> QED
  BY <1>1, <1>3, <1>4, <1>5

LEMMA StepLeft ==
  ASSUME Inv, Step
  PROVE  Left \in Nat /\ Left' \in Nat /\ Left' < Left
<1> DEFINE k == N + 2
<1>1. N \in Nat /\ k \in Nat /\ cursor \in 0..N /\ Len(order) \in 0..N /\ before \in 0..N
  BY SourceCount DEF Inv, TypeOK, CountInv
<1>2. \A a, b \in Nat : a <= b =>
        a * k \in Nat /\ b * k \in Nat /\ a * k <= b * k /\ (a + 1) * k = a * k + k
  BY <1>1, MoreRounds
<1>3. CASE Parse \/ ParseError
  <2>1. /\ phase = "parse" /\ cursor < N
        /\ phase' = "parse_error" \/ (phase' = "parse" /\ cursor' = cursor + 1)
    BY <1>3 DEF Parse, ParseError
  <2>2. (N + 1) * k \in Nat
    BY <1>1, <1>2
  <2> DEFINE rounds == (N + 1) * k
  <2>3. Left = (N - cursor) + 1 + rounds + k
    BY <2>1 DEF Left, RoundSteps, InferSteps
  <2>4. Left' = 0 \/ Left' = (N - (cursor + 1)) + 1 + rounds + k
    BY <2>1 DEF Left, RoundSteps, InferSteps
  <2> HIDE DEF rounds
  <2> QED
    BY <1>1, <2>1, <2>2, <2>3, <2>4 DEF rounds
<1>4. CASE BuildGraph
  <2>1. phase = "parse" /\ cursor = N /\ phase' = "rounds" /\ order' = order
    BY <1>4 DEF BuildGraph
  <2>2. N - Len(order) + 1 \in Nat /\ N + 1 \in Nat /\ N - Len(order) + 1 <= N + 1
    BY <1>1
  <2> DEFINE all == (N + 1) * k
             rest == (N - Len(order) + 1) * k
  <2>3. all \in Nat /\ rest \in Nat /\ rest <= all
    BY <1>2, <2>2
  <2>4. Left = (N - cursor) + 1 + all + k /\ Left' = rest + k
    BY <2>1 DEF Left, RoundSteps, InferSteps
  <2> HIDE DEF all, rest
  <2> QED
    BY <1>1, <2>1, <2>3, <2>4
<1>5. CASE StartRound
  <2>1. phase = "rounds" /\ phase' = "scan" /\ before' = Len(order) /\ cursor' = 0
    BY <1>5 DEF StartRound
  <2>2. N - Len(order) \in Nat
    BY <1>1
  <2> DEFINE n == N - Len(order)
             rest == n * k
  <2>3. rest \in Nat /\ (n + 1) * k = rest + k
    BY <1>2, <2>2
  <2>4. Left = (n + 1) * k + k /\ Left' = rest + (N - 0) + 1 + k
    BY <2>1 DEF Left, RoundSteps, InferSteps
  <2> HIDE DEF rest, n
  <2>5. Left = rest + k + k
    BY <2>3, <2>4
  <2> QED
    BY <1>1, <2>3, <2>4, <2>5
<1>6. CASE Push \/ Skip
  <2>1. phase = "scan" /\ phase' = "scan" /\ before' = before /\ cursor < N /\ cursor' = cursor + 1
    BY <1>6 DEF Push, Skip, sorting
  <2>2. N - before \in Nat
    BY <1>1
  <2> DEFINE rest == (N - before) * k
  <2>3. rest \in Nat
    BY <1>2, <2>2
  <2>4. Left = rest + (N - cursor) + 1 + k /\ Left' = rest + (N - (cursor + 1)) + 1 + k
    BY <2>1 DEF Left, RoundSteps, InferSteps
  <2> HIDE DEF rest
  <2> QED
    BY <1>1, <2>1, <2>3, <2>4
<1>7. CASE EndRound
  <2>1. /\ phase = "scan" /\ cursor = N /\ order' = order
        /\ phase' = "cycle" \/ (phase' = "rounds" /\ Len(order) # before)
    BY <1>7 DEF EndRound, sorting
  <2>2. before <= Len(order)
    BY <2>1 DEF Inv, RoundInv
  <2> DEFINE n == N - before
             m == N - Len(order) + 1
             rest == n * k
             next == m * k
  <2>3. n \in Nat /\ m \in Nat /\ (phase' = "rounds" => m <= n)
    BY <1>1, <2>1, <2>2
  <2>4. Left = rest + (N - cursor) + 1 + k
    BY <2>1 DEF Left, RoundSteps, InferSteps
  <2>5. Left' = 0 \/ (phase' = "rounds" /\ Left' = next + k)
    BY <2>1 DEF Left, RoundSteps, InferSteps
  <2> HIDE DEF n, m
  <2>6. rest \in Nat /\ next \in Nat /\ (phase' = "rounds" => next <= rest)
    BY <1>2, <2>3
  <2> HIDE DEF rest, next
  <2> QED
    BY <1>1, <2>1, <2>4, <2>5, <2>6
<1>8. CASE StartInfer
  <2>1. phase = "rounds" /\ phase' = "infer" /\ cursor' = 0
    BY <1>8 DEF StartInfer
  <2>2. N - Len(order) + 1 \in Nat
    BY <1>1
  <2> DEFINE rest == (N - Len(order) + 1) * k
  <2>3. rest \in Nat
    BY <1>2, <2>2
  <2>4. Left = rest + k /\ Left' = (N - 0) + 1
    BY <2>1 DEF Left, RoundSteps, InferSteps
  <2> HIDE DEF rest
  <2> QED
    BY <1>1, <2>3, <2>4
<1>9. CASE Infer \/ UnknownModule \/ TypeError \/ Finish
  <2>1. /\ phase = "infer"
        /\ \/ phase' = "infer" /\ cursor < Len(order) /\ cursor' = cursor + 1
           \/ phase' \in {"unknown_module", "type_error", "done"}
    BY <1>9 DEF Infer, UnknownModule, TypeError, Finish
  <2>2. /\ Left = (N - cursor) + 1
        /\ Left' = 0 \/ (cursor < Len(order) /\ Left' = (N - (cursor + 1)) + 1)
    BY <2>1 DEF Left
  <2> QED
    BY <1>1, <2>2
<1> QED
  BY <1>3, <1>4, <1>5, <1>6, <1>7, <1>8, <1>9 DEF Step

(* analyze() always comes to an end: the rounds of the sort cannot spin,   *)
(* and all of it takes a number of steps at most quadratic in the sources. *)
THEOREM AnalysisIsBounded ==
  Spec => Left = (N + 1) * (N + 4) + 1 /\ [][Left' < Left /\ Left \in Nat /\ Left' \in Nat]_vars
<1>1. Init => Left = (N + 1) * (N + 4) + 1
  <2>1. (N - 0) + 1 + (N + 1) * (N + 2) + (N + 2) = (N + 1) * (N + 4) + 1
    BY SourceCount
  <2> QED
    BY <2>1 DEF Init, Left, RoundSteps, InferSteps
<1>2. Inv /\ [Next]_vars => [Left' < Left /\ Left \in Nat /\ Left' \in Nat]_vars
  BY StepLeft DEF Next, Ended
<1> QED
  BY Invariance, <1>1, <1>2, PTL DEF Spec
=============================================================================
