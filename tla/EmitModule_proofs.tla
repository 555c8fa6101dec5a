-------------------------- MODULE EmitModule_proofs --------------------------
(***************************************************************************)
(* A module is written block by block and then definition by definition:   *)
(* what is proved of each half holds of the whole, which runs them in turn.*)
(* The first half, the blocks of any set of custom types, is proved about  *)
(* here; DP is the second half as the theorems of Definitions_proofs name  *)
(* it.                                                                     *)
(***************************************************************************)
EXTENDS EmitModule, SequenceLemmas

DP == INSTANCE Definitions_proofs WITH phase <- defPhase
-----------------------------------------------------------------------------
(* While a block is written its remaining fields are fields of its type.   *)
OfCurrent ==
  /\ current = 0 => fields = {}
  /\ current # 0 => fields \subseteq deps[T!From]
  /\ typePhase = "done" => fields = {}

(* What the search has met can be reached from the field's type and is not *)
(* the current type; what a type it is done with refers to, it has met.    *)
Met == seen \cup Elements(stack)
Searching ==
  typePhase = "search" =>
    /\ target \in fields /\ target # T!From
    /\ target \in Met /\ T!From \notin Met
    /\ \A t \in Met : T!Reaches(target, t)
    /\ \A t \in seen : deps[t] \subseteq Met

(* A schema is called only for a field whose type cannot come back.        *)
CallsLeave == \A e \in calls : e[2] \in deps[e[1]] /\ ~T!Reaches(e[2], e[1])

Inv == T!TypeOK /\ OfCurrent /\ Searching /\ CallsLeave /\ T!CutsOnlyCycles /\ T!NamesResolve
-----------------------------------------------------------------------------
(* The sequence operators of the first half are those of this module.      *)
LEMMA SameSize == \A S : T!Cardinality(S) = Cardinality(S)
BY DEF T!Cardinality, Cardinality

LEMMA SameOperators ==
  /\ \A s : T!Last(s) = Last(s) /\ T!Front(s) = Front(s) /\ T!ToSet(s) = ToSet(s)
  /\ \A S : T!SetToSeqs(S) = SetToSeqs(S)
BY SameSize DEF T!Last, Last, T!Front, Front, T!ToSet, ToSet, T!SetToSeqs, SetToSeqs

(* The types are the entries of a vector without repetition.               *)
LEMMA TypeEntries ==
  ASSUME T!TypesAssumption
  PROVE  /\ Len(Types) \in Nat /\ IsFiniteSet(T!TypeSet)
         /\ T!TypeSet = {Types[i] : i \in 1..Len(Types)}
         /\ \A i, j \in 1..Len(Types) : Types[i] = Types[j] => i = j
<1>1. Len(Types) \in Nat /\ DOMAIN Types = 1..Len(Types)
  BY DEF T!TypesAssumption
<1>2. T!TypeSet = {Types[i] : i \in 1..Len(Types)}
  BY <1>1, SameOperators DEF T!TypeSet, ToSet
<1>3. \A i, j \in 1..Len(Types) : Types[i] = Types[j] => i = j
  BY <1>1 DEF T!TypesAssumption, T!IsInjective
<1>4. IsFiniteSet(1..Len(Types))
  BY <1>1, FS_Interval
<1>5. [i \in 1..Len(Types) |-> Types[i]] \in Surjection(1..Len(Types), T!TypeSet)
  BY <1>2 DEF Surjection
<1>6. IsFiniteSet(T!TypeSet)
  BY <1>4, <1>5, FS_Surjection
<1> QED
  BY <1>1, <1>2, <1>3, <1>6

LEMMA Positions ==
  ASSUME T!TypesAssumption, NEW t \in T!TypeSet
  PROVE  T!Position(t) \in 1..Len(Types) /\ Types[T!Position(t)] = t
<1>1. \E i \in 1..Len(Types) : Types[i] = t
  BY TypeEntries
<1> QED
  BY <1>1 DEF T!Position

(* Reaching is transitive along references.                                *)
LEMMA ReachStep ==
  ASSUME NEW a, NEW b, T!Reaches(a, b), NEW c \in deps[b]
  PROVE  T!Reaches(a, c)
BY DEF T!Reaches, T!Closed

LEMMA ReachSelf ==
  ASSUME NEW a
  PROVE  T!Reaches(a, a)
BY DEF T!Reaches

LEMMA SameReaches ==
  ASSUME UNCHANGED deps, NEW a, NEW b
  PROVE  T!Reaches(a, b)' <=> T!Reaches(a, b)
BY DEF T!Reaches, T!Closed

(* A closed set that has one type and not another separates them.          *)
LEMMA Separated ==
  ASSUME NEW S \in SUBSET T!TypeSet, \A t \in S : deps[t] \subseteq S,
         NEW a \in S, NEW b, b \notin S
  PROVE  ~T!Reaches(a, b)
BY DEF T!Reaches, T!Closed
-----------------------------------------------------------------------------
LEMMA CurrentType ==
  ASSUME T!TypesAssumption, T!TypeOK, current # 0
  PROVE  T!From \in T!TypeSet
<1>1. current \in 1..Len(Types)
  BY TypeEntries DEF T!TypeOK
<1> QED
  BY <1>1, TypeEntries DEF T!From

(* The predicate of a field's type stands in for it.                       *)
LEMMA CutType ==
  ASSUME T!TypesAssumption, T!TypeOK, current # 0, NEW b \in T!TypeSet, T!Cut(b)
  PROVE  fields' \subseteq fields /\ preds' \subseteq T!TypeSet \X T!TypeSet
         /\ preds' = preds \cup {<<T!From, b>>} /\ typePhase' = "block"
BY CurrentType DEF T!Cut, T!TypeOK

(* What the search does to the set of types it has met.                    *)
LEMMA MetRevisit ==
  ASSUME T!TypesAssumption, T!TypeOK, T!Revisit
  PROVE  stack' \in Seq(T!TypeSet) /\ Met' = Met
<1>1. stack \in Seq(T!TypeSet) /\ stack # <<>> /\ stack' = Front(stack) /\ seen' = seen
      /\ Last(stack) \in seen
  BY SameOperators DEF T!TypeOK, T!Revisit
<1>2. Elements(stack) = Elements(Front(stack)) \cup {Last(stack)}
  BY <1>1, PopElements
<1>3. Front(stack) \in Seq(T!TypeSet)
  BY <1>1, FrontAndLast
<1> QED
  BY <1>1, <1>2, <1>3 DEF Met

LEMMA MetExpand ==
  ASSUME T!TypesAssumption, T!TypeOK, T!Expand
  PROVE  /\ stack' \in Seq(T!TypeSet) /\ Last(stack) \in T!TypeSet /\ Last(stack) \in Met
         /\ Met' = Met \cup deps[Last(stack)]
<1> DEFINE last == Last(stack)
<1>1. stack \in Seq(T!TypeSet) /\ stack # <<>> /\ seen' = seen \cup {last}
  BY SameOperators DEF T!TypeOK, T!Expand
<1>2. PICK order \in SetToSeqs(deps[last]) : stack' = Front(stack) \o order
  BY SameOperators DEF T!Expand
<1>3. last \in T!TypeSet /\ Front(stack) \in Seq(T!TypeSet)
  BY <1>1, FrontAndLast
<1>4. deps[last] \subseteq T!TypeSet /\ IsFiniteSet(deps[last])
  <2>1. deps[last] \in SUBSET T!TypeSet
    BY <1>3 DEF T!TypeOK
  <2> QED
    BY <2>1, TypeEntries, FS_Subset
<1>5. order \in Seq(T!TypeSet) /\ deps[last] = Elements(order)
  <2>1. order \in Seq(deps[last]) /\ deps[last] = {order[i] : i \in 1..Len(order)}
    BY <1>4, SeqsOfSet
  <2> QED
    BY <1>4, <2>1, SeqMonotonic DEF Elements
<1>6. Elements(stack) = Elements(Front(stack)) \cup {last}
  BY <1>1, PopElements
<1>7. stack' \in Seq(T!TypeSet) /\ Elements(stack') = Elements(Front(stack)) \cup Elements(order)
  BY <1>2, <1>3, <1>5, AppendElements
<1> QED
  BY <1>1, <1>3, <1>5, <1>6, <1>7 DEF Met
-----------------------------------------------------------------------------
LEMMA InitInv == T!TypesAssumption /\ T!Init => Inv
<1> SUFFICES ASSUME T!TypesAssumption, T!Init PROVE Inv
  OBVIOUS
<1>1. T!TypeOK
  BY TypeEntries DEF T!Init, T!TypeOK
<1> QED
  BY <1>1 DEF T!Init, Inv, OfCurrent, Searching, CallsLeave, T!CutsOnlyCycles, T!NamesResolve

(* A field is emitted only inside a block.                                 *)
LEMMA InBlock ==
  ASSUME T!TypesAssumption, Inv, fields # {}
  PROVE  current # 0 /\ T!From \in T!TypeSet /\ fields \subseteq deps[T!From] /\ typePhase # "done"
BY CurrentType DEF Inv, OfCurrent

LEMMA StepType == T!TypesAssumption /\ Inv /\ [T!Next]_(T!vars) => T!TypeOK'
<1> SUFFICES ASSUME T!TypesAssumption, Inv, [T!Next]_(T!vars) PROVE T!TypeOK'
  OBVIOUS
<1> USE DEF T!source, T!search
<1>0. T!TypeOK /\ Len(Types) \in Nat
  BY TypeEntries DEF Inv
<1>1. CASE T!Block
  <2>1. current + 1 \in 1..Len(Types)
    BY <1>0, <1>1 DEF T!Block, T!TypeOK
  <2>2. deps[Types[current + 1]] \subseteq T!TypeSet
    BY <1>0, <2>1, TypeEntries DEF T!TypeOK
  <2> QED
    BY <1>0, <1>1, <2>1, <2>2 DEF T!Block, T!TypeOK
<1>2. CASE T!Field
  <2>1. PICK b \in fields :
          \/ b = T!From /\ T!Cut(b) /\ UNCHANGED T!search
          \/ /\ b # T!From /\ target' = b /\ seen' = {} /\ stack' = <<b>>
             /\ typePhase' = "search" /\ UNCHANGED <<preds, fields>>
    BY <1>2 DEF T!Field
  <2>2. b \in T!TypeSet /\ current # 0 /\ UNCHANGED <<T!source, current, calls, forward>>
    BY <1>0, <1>2, InBlock DEF T!TypeOK, T!Field
  <2>3. CASE b = T!From
    BY <1>0, <2>1, <2>2, <2>3, CutType DEF T!TypeOK
  <2>4. CASE b # T!From
    <3>1. <<b>> \in Seq(T!TypeSet)
      BY <2>2
    <3> QED
      BY <1>0, <2>1, <2>2, <2>4, <3>1 DEF T!TypeOK
  <2> QED
    BY <2>3, <2>4
<1>3. CASE T!Revisit
  BY <1>0, <1>3, MetRevisit, SameOperators DEF T!Revisit, T!TypeOK
<1>4. CASE T!Expand
  BY <1>0, <1>4, MetExpand, SameOperators DEF T!Expand, T!TypeOK
<1>5. CASE T!CycleFound
  <2>1. target \in T!TypeSet /\ current # 0 /\ <<>> \in Seq(T!TypeSet)
    BY <1>0, <1>5, InBlock DEF Inv, Searching, T!CycleFound, T!TypeOK
  <2> QED
    BY <1>0, <1>5, <2>1, CutType DEF T!CycleFound, T!TypeOK
<1>6. CASE T!NoCycle
  <2>1. target \in T!TypeSet /\ T!From \in T!TypeSet
    BY <1>0, <1>6, InBlock DEF Inv, Searching, T!NoCycle, T!TypeOK
  <2> QED
    BY <1>0, <1>6, <2>1 DEF T!NoCycle, T!TypeOK
<1>7. CASE T!Forward
  <2>1. T!Early(calls) \subseteq T!TypeSet /\ T!Early(preds) \subseteq T!TypeSet
    BY <1>0 DEF T!Early, T!TypeOK
  <2> QED
    BY <1>0, <1>7, <2>1 DEF T!Forward, T!TypeOK
<1>8. CASE UNCHANGED T!vars
  BY <1>0, <1>8 DEF T!vars, T!TypeOK
<1> QED
  BY <1>1, <1>2, <1>3, <1>4, <1>5, <1>6, <1>7, <1>8 DEF T!Next, T!Step

LEMMA StepCurrent == T!TypesAssumption /\ Inv /\ [T!Next]_(T!vars) => OfCurrent'
<1> SUFFICES ASSUME T!TypesAssumption, Inv, [T!Next]_(T!vars) PROVE OfCurrent'
  OBVIOUS
<1> USE DEF T!source, T!search
<1>1. CASE T!Block
  <2>1. current + 1 # 0
    BY DEF Inv, T!TypeOK
  <2> QED
    BY <1>1, <2>1 DEF T!Block, OfCurrent, T!From
<1>2. CASE UNCHANGED <<deps, current>> /\ fields' \subseteq fields /\ typePhase' # "done"
  BY <1>2 DEF Inv, OfCurrent, T!From
<1>3. CASE T!Field
  BY <1>2, <1>3 DEF T!Field, T!Cut
<1>4. CASE T!Revisit \/ T!Expand
  BY <1>2, <1>4, SameOperators DEF T!Revisit, T!Expand
<1>5. CASE T!CycleFound \/ T!NoCycle
  BY <1>2, <1>5 DEF T!CycleFound, T!NoCycle, T!Cut
<1>6. CASE T!Forward
  BY <1>6 DEF T!Forward, OfCurrent
<1>7. CASE UNCHANGED T!vars
  BY <1>7 DEF T!vars, OfCurrent, Inv, T!From
<1> QED
  BY <1>1, <1>3, <1>4, <1>5, <1>6, <1>7 DEF T!Next, T!Step

LEMMA StepSearching == T!TypesAssumption /\ Inv /\ [T!Next]_(T!vars) => Searching'
<1> SUFFICES ASSUME T!TypesAssumption, Inv, [T!Next]_(T!vars), typePhase' = "search"
             PROVE  /\ target' \in fields' /\ target' # T!From'
                    /\ target' \in Met' /\ T!From' \notin Met'
                    /\ \A t \in Met' : T!Reaches(target, t)'
                    /\ \A t \in seen' : deps'[t] \subseteq Met'
  BY DEF Searching
<1> USE DEF T!source, T!search
<1>1. CASE T!Field
  <2>1. PICK b \in fields : b # T!From /\ target' = b /\ seen' = {} /\ stack' = <<b>> /\ fields' = fields
    BY <1>1 DEF T!Field, T!Cut
  <2>2. Elements(<<b>>) = {b}
    BY DEF Elements
  <2>3. Met' = {b} /\ T!From' = T!From
    BY <1>1, <2>1, <2>2 DEF Met, T!Field, T!From
  <2>4. T!Reaches(target, b)'
    BY <2>1, ReachSelf DEF T!Reaches
  <2> QED
    BY <2>1, <2>3, <2>4
<1>2. CASE typePhase = "search" /\ (T!Revisit \/ T!Expand \/ UNCHANGED T!vars)
  <2>1. UNCHANGED <<deps, target, fields>> /\ T!From' = T!From
    BY <1>2 DEF T!Revisit, T!Expand, T!vars, T!From
  <2>2. /\ target \in fields /\ target # T!From
        /\ target \in Met /\ T!From \notin Met
        /\ \A t \in Met : T!Reaches(target, t)
        /\ \A t \in seen : deps[t] \subseteq Met
    BY <1>2 DEF Inv, Searching
  <2>3. \A t : T!Reaches(target, t)' <=> T!Reaches(target, t)
    BY <2>1 DEF T!Reaches, T!Closed
  <2>4. CASE seen' = seen /\ Met' = Met
    BY <2>1, <2>2, <2>3, <2>4
  <2>5. CASE T!Revisit
    <3>1. seen' = seen /\ Met' = Met
      BY <2>5, MetRevisit, SameOperators DEF T!Revisit, Inv
    <3> QED
      BY <2>4, <3>1
  <2>6. CASE T!Expand
    <3> DEFINE last == Last(stack)
    <3>1. last \in Met /\ Met' = Met \cup deps[last]
      BY <2>6, MetExpand DEF Inv
    <3>2. seen' = seen \cup {last} /\ T!From \notin deps[last]
      BY <2>6, SameOperators DEF T!Expand
    <3>3. \A t \in deps[last] : T!Reaches(target, t)
      BY <2>2, <3>1, ReachStep
    <3> HIDE DEF last
    <3> QED
      BY <2>1, <2>2, <2>3, <3>1, <3>2, <3>3
  <2>7. CASE UNCHANGED T!vars
    BY <2>4, <2>7 DEF T!vars, Met
  <2> QED
    BY <1>2, <2>5, <2>6, <2>7
<1> QED
  BY <1>1, <1>2 DEF T!Next, T!Step, T!Block, T!Revisit, T!Expand, T!CycleFound, T!NoCycle,
         T!Forward, T!Cut, T!vars
LEMMA StepCalls == T!TypesAssumption /\ Inv /\ [T!Next]_(T!vars) => CallsLeave'
<1> SUFFICES ASSUME T!TypesAssumption, Inv, [T!Next]_(T!vars) PROVE CallsLeave'
  OBVIOUS
<1>1. UNCHANGED deps
  BY DEF T!Next, T!Step, T!Block, T!Field, T!Revisit, T!Expand, T!CycleFound, T!NoCycle,
         T!Forward, T!vars, T!source
<1>2. \A a, b : T!Reaches(a, b)' <=> T!Reaches(a, b)
  BY <1>1, SameReaches
<1>3. CASE T!NoCycle
  <2>1. typePhase = "search" /\ stack = <<>> /\ calls' = calls \cup {<<T!From, target>>}
    BY <1>3 DEF T!NoCycle
  <2>2. Met = seen
    BY <2>1 DEF Met, Elements
  <2>3. target \in seen /\ T!From \notin seen /\ \A t \in seen : deps[t] \subseteq seen
    BY <2>1, <2>2 DEF Inv, Searching
  <2>4. seen \in SUBSET T!TypeSet
    BY DEF Inv, T!TypeOK
  <2>5. ~T!Reaches(target, T!From)
    BY <2>3, <2>4, Separated
  <2>6. target \in deps[T!From]
    BY <2>1, InBlock DEF Inv, Searching
  <2> QED
    BY <1>1, <1>2, <2>1, <2>5, <2>6 DEF Inv, CallsLeave
<1>4. CASE calls' = calls
  BY <1>1, <1>2, <1>4 DEF Inv, CallsLeave
<1> QED
  BY <1>3, <1>4 DEF T!Next, T!Step, T!Block, T!Field, T!Revisit, T!Expand, T!CycleFound, T!Forward, T!vars

LEMMA StepCuts == T!TypesAssumption /\ Inv /\ [T!Next]_(T!vars) => T!CutsOnlyCycles'
<1> SUFFICES ASSUME T!TypesAssumption, Inv, [T!Next]_(T!vars) PROVE T!CutsOnlyCycles'
  OBVIOUS
<1>1. UNCHANGED deps
  BY DEF T!Next, T!Step, T!Block, T!Field, T!Revisit, T!Expand, T!CycleFound, T!NoCycle,
         T!Forward, T!vars, T!source
<1>2. \A a, b : T!Reaches(a, b)' <=> T!Reaches(a, b)
  BY <1>1, SameReaches
<1>3. ASSUME NEW b, T!Reaches(b, T!From), T!Cut(b)
      PROVE  T!CutsOnlyCycles'
  BY <1>2, <1>3 DEF T!Cut, Inv, T!CutsOnlyCycles
<1>4. CASE T!CycleFound
  <2>1. typePhase = "search" /\ stack # <<>> /\ T!From \in deps[Last(stack)] /\ T!Cut(target)
    BY <1>4, SameOperators DEF T!CycleFound
  <2>2. Last(stack) \in Met
    BY <2>1, PopElements DEF Inv, T!TypeOK, Met
  <2>3. T!Reaches(target, T!From)
    BY <2>1, <2>2, ReachStep DEF Inv, Searching
  <2> QED
    BY <1>3, <2>1, <2>3
<1>5. CASE preds' = preds
  BY <1>2, <1>5 DEF Inv, T!CutsOnlyCycles
<1>6. CASE T!Field
  BY <1>3, <1>5, <1>6, ReachSelf DEF T!Field
<1> QED
  BY <1>4, <1>5, <1>6 DEF T!Next, T!Step, T!Block, T!Revisit, T!Expand, T!NoCycle, T!Forward, T!vars

LEMMA StepNames == T!TypesAssumption /\ Inv /\ [T!Next]_(T!vars) => T!NamesResolve'
<1> SUFFICES ASSUME T!TypesAssumption, Inv, [T!Next]_(T!vars), typePhase' = "done" PROVE T!NamesResolve'
  BY DEF T!NamesResolve
<1>1. CASE T!Forward
  <2>1. /\ UNCHANGED <<single, javaLang, claimed, calls, preds>>
        /\ forward' = {<<"schema", t>> : t \in T!Early(calls)}
                       \cup {<<"pred", t>> : t \in {u \in T!Early(preds) : T!Declarable(u)}}
    BY <1>1 DEF T!Forward, T!source
  <2>2. T!TypeOK /\ Len(Types) \in Nat
    BY TypeEntries DEF Inv
  <2>3. ASSUME NEW e \in calls
        PROVE  T!Position(e[2]) < T!Position(e[1]) \/ <<"schema", e[2]>> \in forward'
    <3>1. e[1] \in T!TypeSet /\ e[2] \in T!TypeSet
      BY <2>2 DEF T!TypeOK
    <3>2. e[1] # e[2]
      BY ReachSelf DEF Inv, CallsLeave
    <3>3. T!Position(e[1]) \in Nat /\ T!Position(e[2]) \in Nat /\ T!Position(e[1]) # T!Position(e[2])
      BY <2>2, <3>1, <3>2, Positions
    <3>4. CASE T!Position(e[1]) < T!Position(e[2])
      <4>1. e[2] \in T!Early(calls)
        BY <3>4 DEF T!Early
      <4> QED
        BY <2>1, <4>1
    <3> QED
      BY <3>3, <3>4
  <2>4. ASSUME NEW e \in preds, T!Declarable(e[2])
        PROVE  T!Position(e[2]) <= T!Position(e[1]) \/ <<"pred", e[2]>> \in forward'
    <3>1. T!Position(e[1]) \in Nat /\ T!Position(e[2]) \in Nat
      BY <2>2, Positions DEF T!TypeOK
    <3>2. CASE T!Position(e[1]) < T!Position(e[2])
      <4>1. e[2] \in T!Early(preds)
        BY <3>2 DEF T!Early
      <4> QED
        BY <2>1, <2>4, <4>1
    <3> QED
      BY <3>1, <3>2
  <2>5. \A t : T!Declarable(t)' <=> T!Declarable(t)
    BY <2>1 DEF T!Declarable, T!Test
  <2> QED
    BY <2>1, <2>3, <2>4, <2>5 DEF T!NamesResolve
<1>2. CASE typePhase = "done" /\ UNCHANGED T!vars
  BY <1>2 DEF T!vars, T!source, Inv, T!NamesResolve, T!Declarable, T!Test
<1> QED
  BY <1>1, <1>2 DEF T!Next, T!Step, T!Block, T!Field, T!Revisit, T!Expand, T!CycleFound, T!NoCycle,
         T!Cut, T!vars

LEMMA Invariance == ASSUME T!TypesAssumption PROVE T!Spec => []Inv
<1>1. T!Init => Inv
  BY InitInv
<1>2. Inv /\ [T!Next]_(T!vars) => Inv'
  BY StepType, StepCurrent, StepSearching, StepCalls, StepCuts, StepNames DEF Inv
<1> QED
  BY <1>1, <1>2, PTL DEF T!Spec
-----------------------------------------------------------------------------
(* Along a call the set of types that can be reached gets smaller, so no   *)
(* set of schema functions can go on calling itself.                       *)
LEMMA CallsEnd ==
  ASSUME T!TypesAssumption, T!TypeOK, CallsLeave
  PROVE  T!SchemaBuildEnds
<1> SUFFICES ASSUME NEW S \in SUBSET T!TypeSet, S # {}, \A a \in S : \E b \in S : <<a, b>> \in calls
             PROVE  FALSE
  BY DEF T!SchemaBuildEnds
<1> DEFINE Within(a) == {t \in T!TypeSet : T!Reaches(a, t)}
           size(a) == Cardinality(Within(a))
           sizes == {size(a) : a \in S}
<1>1. \A a : IsFiniteSet(Within(a)) /\ size(a) \in Nat
  <2> TAKE a
  <2>1. IsFiniteSet(T!TypeSet) /\ Within(a) \in SUBSET T!TypeSet
    BY TypeEntries
  <2>2. IsFiniteSet(Within(a))
    BY <2>1, FS_Subset
  <2> QED
    BY <2>2, FS_CardinalityType
<1>2. ASSUME NEW a \in S, NEW b \in S, <<a, b>> \in calls
      PROVE  size(b) < size(a)
  <2>1. a \in T!TypeSet /\ T!Reaches(a, b) /\ ~T!Reaches(b, a)
    BY <1>2, ReachStep, ReachSelf DEF CallsLeave
  <2>2. Within(b) \in SUBSET Within(a)
    BY <2>1 DEF T!Reaches
  <2>3. a \in Within(a) /\ a \notin Within(b)
    BY <2>1, ReachSelf
  <2>4. Within(b) # Within(a)
    BY <2>3
  <2>5. size(b) <= size(a) /\ size(b) # size(a)
    <3> DEFINE A == Within(a)
               B == Within(b)
    <3>1. IsFiniteSet(A) /\ B \in SUBSET A /\ A # B
      BY <1>1, <2>2, <2>4
    <3>2. Cardinality(B) <= Cardinality(A) /\ Cardinality(A) # Cardinality(B)
      <4> HIDE DEF A, B
      <4> QED
        BY <3>1, FS_Subset
    <3> QED
      BY <3>2
  <2> QED
    <3>1. size(a) \in Nat /\ size(b) \in Nat
      BY <1>1
    <3> HIDE DEF size
    <3> QED
      BY <2>5, <3>1
<1>3. PICK n \in sizes : \A l \in sizes : n <= l
  <2>1. sizes \in SUBSET Nat /\ sizes # {}
    BY <1>1
  <2> HIDE DEF sizes
  <2> QED
    BY <2>1, LeastIndex
<1>4. PICK a \in S : n = size(a)
  OBVIOUS
<1>5. PICK b \in S : <<a, b>> \in calls
  OBVIOUS
<1>6. size(b) < size(a) /\ size(a) <= size(b) /\ size(a) \in Nat /\ size(b) \in Nat
  <2>1. size(b) \in sizes
    OBVIOUS
  <2> QED
    BY <1>1, <1>2, <1>3, <1>4, <1>5, <2>1
<1> HIDE DEF size
<1> QED
  BY <1>6

-----------------------------------------------------------------------------
(* What is left to do, in lexicographic order: the end, the blocks, the    *)
(* fields of this one, the search for one of them; in the search the types *)
(* not seen and those on the stack.                                        *)
Open == IF typePhase # "done" THEN 1 ELSE 0
Blocks == Len(Types) - current
Fields == Cardinality(fields)
Searches == IF typePhase = "block" THEN 1 ELSE 0
Unseen == Cardinality(T!TypeSet \ seen)
Remaining ==
  [i \in 1..6 |->
     CASE i = 1 -> Open [] i = 2 -> Blocks [] i = 3 -> Fields
       [] i = 4 -> Searches [] i = 5 -> Unseen [] i = 6 -> Len(stack)]
RemainingTyped ==
  /\ Open \in Nat /\ Blocks \in Nat /\ Fields \in Nat
  /\ Searches \in Nat /\ Unseen \in Nat /\ Len(stack) \in Nat
  /\ Remaining \in [1..6 -> Nat]
GoesDown == Lower(6, Remaining', Remaining)

LEMMA TypedRemaining == T!TypesAssumption /\ T!TypeOK => RemainingTyped
<1> SUFFICES ASSUME T!TypesAssumption, T!TypeOK PROVE RemainingTyped
  OBVIOUS
<1>1. Open \in Nat /\ Searches \in Nat
  BY DEF Open, Searches
<1>2. Blocks \in Nat /\ Len(stack) \in Nat
  BY TypeEntries DEF Blocks, T!TypeOK
<1>3. Fields \in Nat /\ Unseen \in Nat
  <2>1. fields \in SUBSET T!TypeSet /\ IsFiniteSet(T!TypeSet)
    BY TypeEntries DEF T!TypeOK
  <2>2. IsFiniteSet(T!TypeSet \ seen)
    BY <2>1, FS_Difference
  <2> QED
    BY <2>1, <2>2, ProperPart, FS_CardinalityType DEF Fields, Unseen
<1> QED
  BY <1>1, <1>2, <1>3 DEF RemainingTyped, Remaining

LEMMA RemainingLower ==
  ASSUME RemainingTyped, RemainingTyped',
         \/ Open' < Open
         \/ /\ Open' = Open
            /\ \/ Blocks' < Blocks
               \/ /\ Blocks' = Blocks
                  /\ \/ Fields' < Fields
                     \/ /\ Fields' = Fields
                        /\ \/ Searches' < Searches
                           \/ /\ Searches' = Searches
                              /\ \/ Unseen' < Unseen
                                 \/ Unseen' = Unseen /\ Len(stack)' < Len(stack)
  PROVE  GoesDown
<1> DEFINE a == Remaining'
           b == Remaining
<1>1. a \in [1..6 -> Nat] /\ b \in [1..6 -> Nat]
  BY DEF RemainingTyped
<1>2. /\ b[1] = Open /\ b[2] = Blocks /\ b[3] = Fields
      /\ b[4] = Searches /\ b[5] = Unseen /\ b[6] = Len(stack)
  BY DEF Remaining
<1>3. /\ a[1] = Open' /\ a[2] = Blocks' /\ a[3] = Fields'
      /\ a[4] = Searches' /\ a[5] = Unseen' /\ a[6] = Len(stack)'
  BY DEF Remaining
<1> HIDE DEF a, b
<1>4. PICK i \in 1..6 : a[i] < b[i] /\ \A j \in 1..i-1 : a[j] = b[j]
  <2>1. \/ a[1] < b[1]
        \/ a[1] = b[1] /\ a[2] < b[2]
        \/ a[1] = b[1] /\ a[2] = b[2] /\ a[3] < b[3]
        \/ a[1] = b[1] /\ a[2] = b[2] /\ a[3] = b[3] /\ a[4] < b[4]
        \/ a[1] = b[1] /\ a[2] = b[2] /\ a[3] = b[3] /\ a[4] = b[4] /\ a[5] < b[5]
        \/ a[1] = b[1] /\ a[2] = b[2] /\ a[3] = b[3] /\ a[4] = b[4] /\ a[5] = b[5] /\ a[6] < b[6]
    BY <1>2, <1>3
  <2> QED
    BY <2>1
<1> QED
  BY <1>1, <1>4, LowerAt DEF a, b, GoesDown

LEMMA StepLower == T!TypesAssumption /\ Inv /\ RemainingTyped /\ RemainingTyped' /\ T!Step => GoesDown
<1> SUFFICES ASSUME T!TypesAssumption, Inv, RemainingTyped, RemainingTyped', T!Step PROVE GoesDown
  OBVIOUS
<1>1. CASE T!Block
  <2>1. typePhase = "block" /\ typePhase' = typePhase /\ current' = current + 1 /\ current \in Int
        /\ Len(Types) \in Nat
    BY <1>1, TypeEntries DEF T!Block, Inv, T!TypeOK
  <2>2. Open' = Open /\ Blocks' < Blocks
    BY <2>1 DEF Open, Blocks
  <2> QED
    BY <2>2, RemainingLower
(* A field that is dealt with is one field less.                           *)
<1>2. ASSUME fields' \subseteq fields, fields' # fields, UNCHANGED current,
             typePhase # "done", typePhase' # "done"
      PROVE  GoesDown
  <2>1. Open' = Open /\ Blocks' = Blocks
    BY <1>2 DEF Open, Blocks
  <2>2. IsFiniteSet(fields) /\ fields' \in SUBSET fields
    <3>1. fields \in SUBSET T!TypeSet /\ IsFiniteSet(T!TypeSet)
      BY TypeEntries DEF Inv, T!TypeOK
    <3> QED
      BY <1>2, <3>1, FS_Subset
  <2>3. Fields' < Fields
    BY <1>2, <2>2, ProperPart DEF Fields
  <2> QED
    BY <2>1, <2>3, RemainingLower
<1>3. ASSUME NEW b \in fields, T!Cut(b)
      PROVE  fields' \subseteq fields /\ fields' # fields /\ typePhase' = "block"
  BY <1>3 DEF T!Cut
<1>4. CASE T!Field
  <2>1. PICK b \in fields : \/ b = T!From /\ T!Cut(b)
                            \/ typePhase' = "search" /\ fields' = fields
    BY <1>4 DEF T!Field
  <2>2. UNCHANGED current /\ typePhase = "block"
    BY <1>4 DEF T!Field
  <2>3. CASE T!Cut(b)
    BY <1>2, <1>3, <2>2, <2>3
  <2>4. CASE typePhase' = "search" /\ fields' = fields
    <3>1. Open' = Open /\ Blocks' = Blocks /\ Fields' = Fields /\ Searches' < Searches
      BY <2>2, <2>4 DEF Open, Blocks, Fields, Searches
    <3> QED
      BY <3>1, RemainingLower
  <2> QED
    BY <2>1, <2>3, <2>4
<1>5. ASSUME typePhase = "search", UNCHANGED <<current, fields, typePhase>>
      PROVE  Open' = Open /\ Blocks' = Blocks /\ Fields' = Fields /\ Searches' = Searches
  BY <1>5 DEF Open, Blocks, Fields, Searches
<1>6. CASE T!Revisit
  <2>1. stack \in Seq(T!TypeSet) /\ stack # <<>> /\ stack' = Front(stack) /\ seen' = seen
    BY <1>6, SameOperators DEF T!Revisit, Inv, T!TypeOK
  <2>2. Len(stack)' < Len(stack)
    BY <2>1, FrontAndLast
  <2>3. Unseen' = Unseen
    BY <2>1 DEF Unseen
  <2> QED
    BY <1>5, <1>6, <2>2, <2>3, RemainingLower DEF T!Revisit
<1>7. CASE T!Expand
  <2> DEFINE last == Last(stack)
  <2>1. last \in T!TypeSet /\ last \notin seen /\ seen' = seen \cup {last}
    BY <1>7, MetExpand, SameOperators DEF T!Expand, Inv
  <2>2. IsFiniteSet(T!TypeSet \ seen) /\ (T!TypeSet \ seen') \in SUBSET (T!TypeSet \ seen)
        /\ T!TypeSet \ seen' # T!TypeSet \ seen
    BY <2>1, TypeEntries, FS_Difference
  <2>3. Unseen' < Unseen
    BY <2>2, ProperPart DEF Unseen
  <2> QED
    BY <1>5, <1>7, <2>3, RemainingLower DEF T!Expand
<1>8. CASE T!CycleFound
  <2>1. target \in fields /\ T!Cut(target) /\ typePhase = "search" /\ UNCHANGED current
    BY <1>8, SameOperators DEF T!CycleFound, Inv, Searching
  <2> QED
    BY <1>2, <1>3, <2>1
<1>9. CASE T!NoCycle
  <2>1. target \in fields /\ fields' = fields \ {target} /\ typePhase = "search" /\ typePhase' = "block"
        /\ UNCHANGED current
    BY <1>9 DEF T!NoCycle, Inv, Searching
  <2> QED
    BY <1>2, <2>1
<1>10. CASE T!Forward
  <2>1. Open' < Open
    BY <1>10 DEF T!Forward, Open
  <2> QED
    BY <2>1, RemainingLower
<1> QED
  BY <1>1, <1>4, <1>6, <1>7, <1>8, <1>9, <1>10 DEF T!Step

(* The blocks of a module are written in the end, whatever its types refer *)
(* to: local_cycle sees a type once, and a field is dealt with once.       *)
LEMMA BlocksGoDown == ASSUME T!TypesAssumption PROVE T!Spec => [][GoesDown]_(T!vars)
<1>1. Inv => RemainingTyped
  BY TypedRemaining DEF Inv
<1>2. Inv /\ RemainingTyped /\ RemainingTyped' /\ [T!Next]_(T!vars) => [GoesDown]_(T!vars)
  BY StepLower DEF T!Next
<1> QED
  BY Invariance, <1>1, <1>2, PTL DEF T!Spec
-----------------------------------------------------------------------------
LEMMA DefinitionsInit == D!Init => DP!Init
BY DEF D!Init, DP!Init, D!Functions, DP!Functions, D!IsDependencyOrder, DP!IsDependencyOrder,
       D!UpTo, DP!UpTo, D!Reaches, DP!Reaches, D!References, DP!References,
       D!ClosedUnderReference, DP!ClosedUnderReference, D!ToSet, DP!ToSet

LEMMA DefinitionsStep == D!Step => DP!Step
<1> USE DEF D!source, DP!source, D!Functions, DP!Functions
<1>1. D!Roots => DP!Roots
  BY DEF D!Roots, DP!Roots
<1>2. D!Reach => DP!Reach
  BY DEF D!Reach, DP!Reach, D!Called, DP!Called
<1>3. D!Reached => DP!Reached
  BY DEF D!Reached, DP!Reached
<1>4. D!StartGroup => DP!StartGroup
  BY DEF D!StartGroup, DP!StartGroup, D!Declares, DP!Declares
<1>5. D!EmitName => DP!EmitName
  BY DEF D!EmitName, DP!EmitName, D!Dropped, DP!Dropped, D!Suppressed, DP!Suppressed
<1>6. D!EndGroup => DP!EndGroup
  BY DEF D!EndGroup, DP!EndGroup
<1>7. D!Finish => DP!Finish
  BY DEF D!Finish, DP!Finish
<1> QED
  BY <1>1, <1>2, <1>3, <1>4, <1>5, <1>6, <1>7 DEF D!Step, DP!Step
-----------------------------------------------------------------------------
(* Each step of emit_module is a step of one half and leaves the other as  *)
(* it is.                                                                  *)
LEMMA TypesRun == Spec => T!Spec
<1>1. Init => T!Init
  BY DEF Init
<1>2. [Next]_vars => [T!Next]_(T!vars)
  BY DEF Next, EmitTypes, EmitDefinitions, vars, typeVars, T!vars, T!source, T!search, T!Next
<1> QED
  BY <1>1, <1>2, PTL DEF Spec, T!Spec

LEMMA DefinitionsRun == Spec => DP!Spec
<1>1. Init => DP!Init
  BY DefinitionsInit DEF Init
<1>2. [Next]_vars => [DP!Next]_(DP!vars)
  BY DefinitionsStep DEF Next, EmitTypes, EmitDefinitions, vars, defVars, DP!vars, DP!source, DP!Next
<1> QED
  BY <1>1, <1>2, PTL DEF Spec, DP!Spec

LEMMA TypesAreDistinct == T!TypesAssumption
BY EmitAssumption

LEMMA BlocksInvariant == Spec => []Inv
BY TypesRun, TypesAreDistinct, Invariance, PTL
-----------------------------------------------------------------------------
(* The locals of emit_module have their types throughout.                  *)
THEOREM TypeCorrect == Spec => []TypeOK
<1>1. Inv => T!TypeOK
  BY DEF Inv
<1>2. DP!Spec => []DP!TypeOK
  BY DP!TypeCorrect
<1>3. DP!TypeOK => D!TypeOK
  BY DEF D!TypeOK, DP!TypeOK, D!Functions, DP!Functions
<1> QED
  BY <1>1, <1>2, <1>3, BlocksInvariant, DefinitionsRun, PTL DEF TypeOK

(* Composing schemas terminates, however the types of a module refer to    *)
(* one another.                                                            *)
THEOREM SchemasEnd == Spec => []SchemaBuildEnds
<1>1. Inv => SchemaBuildEnds
  BY CallsEnd, TypesAreDistinct DEF Inv, SchemaBuildEnds
<1> QED
  BY <1>1, BlocksInvariant, PTL

(* The payload of a field goes unchecked only on a cycle of types.         *)
THEOREM CutsAreCycles == Spec => []CutsOnlyCycles
<1>1. Inv => CutsOnlyCycles
  BY DEF Inv, CutsOnlyCycles
<1> QED
  BY <1>1, BlocksInvariant, PTL

(* Every name a type block refers to is above it or declared ahead.        *)
THEOREM BlocksResolve == Spec => []NamesResolve
<1>1. Inv => NamesResolve
  BY DEF Inv, NamesResolve
<1> QED
  BY <1>1, BlocksInvariant, PTL

(* Every name a definition refers to is declared or defined above it.      *)
THEOREM NamesInOrder == Spec => []ResolvesInOrder
<1>1. DP!Spec => []DP!ResolvesInOrder
  BY DP!NamesInOrder
<1>2. DP!ResolvesInOrder => ResolvesInOrder
  BY DEF ResolvesInOrder, D!ResolvesInOrder, DP!ResolvesInOrder, D!Missing, DP!Missing,
         D!Uses, DP!Uses, D!DefinedBefore, DP!DefinedBefore
<1> QED
  BY <1>1, <1>2, DefinitionsRun, PTL

(* A constant never captures a function that is only declared.             *)
THEOREM ConstantsAreBound == Spec => []ConstantsHoldFunctions
<1>1. DP!Spec => []DP!ConstantsHoldFunctions
  BY DP!ConstantsAreBound
<1>2. DP!ConstantsHoldFunctions => ConstantsHoldFunctions
  BY DEF ConstantsHoldFunctions, D!ConstantsHoldFunctions, DP!ConstantsHoldFunctions
<1> QED
  BY <1>1, <1>2, DefinitionsRun, PTL

(* The interface of every module is emitted, each name once.               *)
THEOREM InterfaceIsComplete == Spec => []InterfaceEmitted
<1>1. DP!Spec => []DP!InterfaceEmitted
  BY DP!InterfaceIsComplete
<1>2. DP!InterfaceEmitted => InterfaceEmitted
  BY DEF InterfaceEmitted, D!InterfaceEmitted, DP!InterfaceEmitted, D!Suppressed, DP!Suppressed
<1> QED
  BY <1>1, <1>2, DefinitionsRun, PTL

(* A module is written in the end, for any types and definitions: each     *)
(* step takes the half that runs down a well-founded order (LowerEnds of   *)
(* SequenceLemmas), and the second half leaves the first as it was.        *)
THEOREM ModuleGoesDown ==
  ASSUME IsFiniteSet(Names)
  PROVE  Spec => [][GoesDown \/ (UNCHANGED Remaining /\ DP!GoesDown)]_vars
<1>1. T!Spec => [][GoesDown]_(T!vars)
  BY BlocksGoDown, TypesAreDistinct
<1>2. DP!Spec => [][DP!GoesDown]_(DP!vars)
  <2>1. DP!IsFiniteSet(Names)
    BY DEF IsFiniteSet, DP!IsFiniteSet
  <2> QED
    BY <2>1, DP!DefinitionsGoDown
<1>3. [Next]_vars /\ [GoesDown]_(T!vars) /\ [DP!GoesDown]_(DP!vars)
        => [GoesDown \/ (UNCHANGED Remaining /\ DP!GoesDown)]_vars
  <2> SUFFICES ASSUME [Next]_vars, [GoesDown]_(T!vars), [DP!GoesDown]_(DP!vars),
                      vars' # vars, ~GoesDown
               PROVE  UNCHANGED Remaining /\ DP!GoesDown
    OBVIOUS
  <2>1. UNCHANGED T!vars
    OBVIOUS
  <2>2. UNCHANGED typeVars /\ vars' # vars
    BY <2>1 DEF T!vars, T!source, T!search, typeVars
  <2>3. ~UNCHANGED DP!vars
    BY <2>2 DEF DP!vars, DP!source, vars, defVars
  <2>4. UNCHANGED Remaining
    BY <2>1 DEF T!vars, T!source, T!search, Remaining, Open, Blocks, Fields,
                Searches, Unseen
  <2> QED
    BY <2>3, <2>4
<1> QED
  BY <1>1, <1>2, <1>3, TypesRun, DefinitionsRun, PTL DEF Spec
=============================================================================
