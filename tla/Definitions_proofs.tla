-------------------------- MODULE Definitions_proofs --------------------------
(***************************************************************************)
(* The definitions of any module: its interface is emitted once, a name is *)
(* declared or defined before it is used, and a constant holds functions   *)
(* that are defined.                                                       *)
(***************************************************************************)
EXTENDS Definitions, SequenceLemmas

(* What is known of the module, and never changes while it is written.     *)
Input ==
  /\ constants \in SUBSET (Names \ {Main})
  /\ public \in SUBSET Functions /\ overridden \in SUBSET Functions
  /\ walked \in [Names -> SUBSET Names] /\ unwalked \in [Names -> SUBSET Names]
  /\ \A c \in constants : unwalked[c] = {} /\ ~Reaches(c, c)
  /\ suppressMain \in BOOLEAN
  /\ IsDependencyOrder

(* The pass keeps the interface and what the constants hold, and what a    *)
(* name it is done with calls is kept too.                                 *)
Reachability ==
  /\ phase # "roots" =>
       /\ public \subseteq reachable
       /\ \A c \in constants : walked[c] \cap Functions \subseteq reachable
       /\ \A n \in reachable \ frontier : Called(n) \subseteq reachable
  /\ phase \in {"emit", "done"} => frontier = {}

Place(i, a) == i \in 1..Len(groups) /\ a \in 1..Len(groups[i])
(* The names whose turn has come.                                          *)
Passed(i, a) == i < g \/ (i = g /\ a < k)
Turn(n) == \E i, a \in Nat : Place(i, a) /\ groups[i][a] = n /\ Passed(i, a)
Def(n) == [op |-> "def", name |-> n]
Written(n) == \E i \in 1..Len(forms) : forms[i] = Def(n)

(* The definitions written are those whose turn has come, each of them     *)
(* once, but for what is left out; the current group is declared.          *)
Waiting == phase \in {"roots", "reach"} => g = 1 /\ k = 0 /\ forms = <<>>
WrittenInTurn == \A n \in Names : Written(n) <=> Turn(n) /\ ~Dropped(n) /\ ~Suppressed(n)
WrittenOnce == \A i, j \in 1..Len(forms) : forms[i].op = "def" /\ forms[i] = forms[j] => i = j
GroupDeclared ==
  k # 0 /\ g <= Len(groups) /\ Len(groups[g]) > 1 =>
    \A a \in 1..Len(groups[g]) : \E i \in 1..Len(forms) : forms[i].name = groups[g][a]
ConstantsUndeclared == \A i \in 1..Len(forms) : forms[i].op = "declare" => forms[i].name \notin constants
DoneIsPast == phase = "done" => g > Len(groups)

Inv ==
  /\ Input /\ TypeOK /\ Reachability
  /\ Waiting /\ WrittenInTurn /\ WrittenOnce /\ GroupDeclared /\ ConstantsUndeclared /\ DoneIsPast
  /\ ResolvesInOrder /\ ConstantsHoldFunctions
-----------------------------------------------------------------------------
(* Facts about the groups of a dependency order.                           *)
LEMMA Groups ==
  ASSUME Input
  PROVE  /\ Len(groups) \in Nat
         /\ \A i \in 1..Len(groups) :
              /\ groups[i] \in Seq(Names) /\ Len(groups[i]) \in Nat
              /\ ToSet(groups[i]) = {groups[i][a] : a \in 1..Len(groups[i])}
              /\ \A a \in 1..Len(groups[i]) : groups[i][a] \in Names
<1>1. groups \in Seq(Seq(Names))
  BY DEF Input, IsDependencyOrder
<1>2. ASSUME NEW i \in 1..Len(groups)
      PROVE  /\ groups[i] \in Seq(Names) /\ Len(groups[i]) \in Nat
             /\ ToSet(groups[i]) = {groups[i][a] : a \in 1..Len(groups[i])}
             /\ \A a \in 1..Len(groups[i]) : groups[i][a] \in Names
  <2>1. groups[i] \in Seq(Names)
    BY <1>1
  <2>2. DOMAIN groups[i] = 1..Len(groups[i])
    BY <2>1
  <2>3. ToSet(groups[i]) = {groups[i][a] : a \in 1..Len(groups[i])}
    BY <2>2 DEF ToSet
  <2> QED
    BY <2>1, <2>3
<1>3. Len(groups) \in Nat
  BY <1>1
<1> QED
  BY <1>2, <1>3

LEMMA Placed ==
  ASSUME Input
  PROVE  /\ \A i, j, a, b : Place(i, a) /\ Place(j, b) /\ groups[i][a] = groups[j][b] => i = j /\ a = b
         /\ \A i : \A n \in UpTo(i) : i \in 1..Len(groups) =>
              \E j, b \in Nat : Place(j, b) /\ j <= i /\ groups[j][b] = n
         /\ \A n \in Names : \E i, a \in Nat : Place(i, a) /\ groups[i][a] = n
<1>1. \A i, j, a, b : Place(i, a) /\ Place(j, b) /\ groups[i][a] = groups[j][b] => i = j /\ a = b
  BY DEF Input, IsDependencyOrder, Place
<1>2. ASSUME NEW i, NEW n \in UpTo(i), i \in 0..Len(groups)
      PROVE  \E j, b \in Nat : Place(j, b) /\ j <= i /\ groups[j][b] = n
  <2>1. Len(groups) \in Nat
    BY Groups
  <2>2. PICK j \in 1..i : n \in ToSet(groups[j])
    BY DEF UpTo
  <2>3. j \in 1..Len(groups) /\ j \in Nat /\ j <= i
    BY <1>2, <2>1
  <2>4. PICK b \in 1..Len(groups[j]) : groups[j][b] = n
    BY <2>2, <2>3, Groups
  <2>5. b \in Nat
    BY <2>3, Groups
  <2> QED
    BY <2>3, <2>4, <2>5 DEF Place
<1>3. ASSUME NEW n \in Names
      PROVE  \E i, a \in Nat : Place(i, a) /\ groups[i][a] = n
  <2>1. n \in UpTo(Len(groups)) /\ Len(groups) \in 0..Len(groups)
    BY Groups DEF Input, IsDependencyOrder
  <2> QED
    BY <1>2, <2>1
<1> QED
  BY <1>1, <1>2, <1>3

(* What a name refers to is in its group or in an earlier one.             *)
LEMMA ReferencesPlaced ==
  ASSUME Input, NEW i, NEW a, Place(i, a), NEW m \in References(groups[i][a])
  PROVE  \E j, b \in Nat : Place(j, b) /\ j <= i /\ groups[j][b] = m
<1>1. i \in 1..Len(groups) /\ groups[i][a] \in ToSet(groups[i])
  BY Groups DEF Place
<1>2. m \in UpTo(i)
  BY <1>1 DEF Input, IsDependencyOrder
<1> QED
  BY <1>1, <1>2, Placed

(* A name reaches what it refers to, and what that reaches.                *)
LEMMA ReachTransitive ==
  ASSUME NEW a, NEW b, NEW c, Reaches(a, b), Reaches(b, c)
  PROVE  Reaches(a, c)
<1> SUFFICES ASSUME NEW S \in SUBSET (Names \ {c}), References(a) \subseteq S, ClosedUnderReference(S)
             PROVE  FALSE
  BY DEF Reaches
<1>1. b \in S
  BY DEF Reaches
<1>2. References(b) \subseteq S
  BY <1>1 DEF ClosedUnderReference
<1> QED
  BY <1>2 DEF Reaches

(* A constant is alone in its group and does not refer to itself.          *)
LEMMA ConstantAlone ==
  ASSUME Input, NEW i, NEW a, Place(i, a), groups[i][a] \in constants
  PROVE  Len(groups[i]) = 1 /\ a = 1 /\ groups[i][a] \notin References(groups[i][a])
<1> DEFINE c == groups[i][a]
<1>1. ~Reaches(c, c)
  BY DEF Input
<1>2. c \notin References(c)
  BY <1>1 DEF Reaches, ClosedUnderReference
<1>3. ASSUME NEW b \in 1..Len(groups[i]), b # a
      PROVE  FALSE
  <2> DEFINE m == groups[i][b]
  <2>1. Place(i, b) /\ i \in 1..Len(groups)
    BY <1>3 DEF Place
  <2>2. m # c
    BY <1>3, <2>1, Placed
  <2>3. m \in ToSet(groups[i]) /\ c \in ToSet(groups[i])
    BY <2>1, Groups DEF Place
  <2>4. \A x \in ToSet(groups[i]) : \A y \in ToSet(groups[i]) \ {x} : Reaches(x, y)
    BY <2>1 DEF Input, IsDependencyOrder
  <2> HIDE DEF c, m
  <2>5. Reaches(c, m) /\ Reaches(m, c)
    BY <2>2, <2>3, <2>4
  <2> QED
    BY <1>1, <2>5, ReachTransitive
<1>4. Len(groups[i]) \in Nat /\ a \in 1..Len(groups[i])
  BY Groups DEF Place
<1>5. Len(groups[i]) = 1 /\ a = 1
  <2> DEFINE n == Len(groups[i])
  <2>1. \A b \in 1..n : b = a
    BY <1>3
  <2>2. n \in Nat /\ a \in 1..n
    BY <1>4
  <2> HIDE DEF n
  <2>3. 1 \in 1..n /\ n \in 1..n
    BY <2>2
  <2>4. n = 1 /\ a = 1
    BY <2>1, <2>2, <2>3
  <2> QED
    BY <2>4 DEF n
<1> QED
  BY <1>2, <1>5
-----------------------------------------------------------------------------
LEMMA SameSource == [Next]_vars => UNCHANGED source
BY DEF Next, Step, Roots, Reach, Reached, StartGroup, EmitName, EndGroup, Finish, vars

LEMMA SameInput ==
  ASSUME UNCHANGED source
  PROVE  Input' <=> Input
BY DEF source, Input, Functions, IsDependencyOrder, UpTo, Reaches, References, ClosedUnderReference

LEMMA CalledType ==
  ASSUME Input, NEW n \in Names
  PROVE  Called(n) \subseteq Functions
BY DEF Called

(* The current name and its group.                                         *)
LEMMA CurrentGroup ==
  ASSUME Input, TypeOK, g <= Len(groups)
  PROVE  g \in 1..Len(groups) /\ groups[g] \in Seq(Names) /\ Len(groups[g]) \in Nat
<1>1. Len(groups) \in Nat
  BY Groups
<1>2. g \in 1..Len(groups)
  BY <1>1 DEF TypeOK
<1> QED
  BY <1>2, Groups

Form == [op : {"declare", "def"}, name : Names]

LEMMA FormsType == TypeOK => forms \in Seq(Form) /\ Len(forms) \in Nat
BY DEF TypeOK, Form

(* Starting a group appends the declares of its names, if it has several.  *)
LEMMA StartAppends ==
  ASSUME Input, TypeOK, StartGroup
  PROVE  /\ forms' \in Seq(Form) /\ Len(forms) <= Len(forms')
         /\ \A i \in 1..Len(forms) : forms'[i] = forms[i]
         /\ \A i \in 1..Len(forms') : i \notin 1..Len(forms) =>
              /\ forms'[i].op = "declare" /\ Len(groups[g]) > 1
              /\ \E a \in 1..Len(groups[g]) : forms'[i].name = groups[g][a]
         /\ Len(groups[g]) > 1 =>
              \A a \in 1..Len(groups[g]) : \E i \in 1..Len(forms') : forms'[i].name = groups[g][a]
<1>1. g \in 1..Len(groups) /\ groups[g] \in Seq(Names) /\ Len(groups[g]) \in Nat
  BY CurrentGroup DEF StartGroup
<1>2. forms \in Seq(Form) /\ Len(forms) \in Nat
  BY FormsType
<1>3. CASE ~(Len(groups[g]) > 1)
  BY <1>2, <1>3 DEF StartGroup
<1>4. CASE Len(groups[g]) > 1
  <2> DEFINE d == Declares(groups[g])
             n == Len(groups[g])
  <2>1. d \in Seq(Form) /\ Len(d) = n
        /\ \A a \in 1..n : d[a].op = "declare" /\ d[a].name = groups[g][a]
    <3>1. \A a \in 1..n : groups[g][a] \in Names
      BY <1>1
    <3>2. d = [a \in 1..n |-> [op |-> "declare", name |-> groups[g][a]]]
      BY DEF Declares
    <3>3. d \in [1..n -> Form]
      BY <3>1, <3>2 DEF Form
    <3>4. d \in Seq(Form) /\ Len(d) = n
      BY <1>1, <3>3
    <3> QED
      BY <3>2, <3>4
  <2>2. forms' = forms \o d
    BY <1>4 DEF StartGroup
  <2> HIDE DEF d
  <2>3. forms \in Seq(Form) /\ d \in Seq(Form) /\ forms' = forms \o d
    BY <1>2, <2>1, <2>2
  <2>4. /\ forms' \in Seq(Form) /\ Len(forms') = Len(forms) + Len(d)
        /\ \A i \in 1..Len(forms) : forms'[i] = forms[i]
        /\ \A i \in 1..Len(d) : forms'[Len(forms) + i] = d[i]
    BY <2>3, Appended
  <2>5. ASSUME NEW i \in 1..Len(forms'), i \notin 1..Len(forms)
        PROVE  \E a \in 1..n : forms'[i] = d[a]
    <3>1. i - Len(forms) \in 1..n /\ i = Len(forms) + (i - Len(forms))
      BY <1>1, <1>2, <2>1, <2>4, <2>5
    <3> QED
      BY <2>1, <2>4, <3>1
  <2>6. ASSUME NEW a \in 1..n
        PROVE  Len(forms) + a \in 1..Len(forms') /\ forms'[Len(forms) + a] = d[a]
    BY <1>1, <1>2, <2>1, <2>4
  <2>7. Len(forms) <= Len(forms')
    BY <1>1, <1>2, <2>1, <2>4
  <2>8. ASSUME NEW i \in 1..Len(forms'), i \notin 1..Len(forms)
        PROVE  forms'[i].op = "declare" /\ \E a \in 1..n : forms'[i].name = groups[g][a]
    BY <2>1, <2>5, <2>8
  <2>9. ASSUME NEW a \in 1..n
        PROVE  \E i \in 1..Len(forms') : forms'[i].name = groups[g][a]
    BY <2>1, <2>6
  <2> QED
    BY <1>4, <2>4, <2>7, <2>8, <2>9
<1> QED
  BY <1>3, <1>4

(* Emitting a name appends its definition, unless it is left out.          *)
LEMMA EmitAppends ==
  ASSUME Input, TypeOK, EmitName
  PROVE  /\ Place(g, k) /\ g \in Nat /\ k \in Nat /\ groups[g][k] \in Names
         /\ forms' \in Seq(Form) /\ \A i \in 1..Len(forms) : forms'[i] = forms[i]
         /\ IF Dropped(groups[g][k]) \/ Suppressed(groups[g][k]) THEN forms' = forms
            ELSE Len(forms') = Len(forms) + 1 /\ forms'[Len(forms) + 1] = Def(groups[g][k])
<1> DEFINE n == groups[g][k]
<1>1. g \in 1..Len(groups) /\ groups[g] \in Seq(Names) /\ Len(groups[g]) \in Nat
  BY CurrentGroup DEF EmitName
<1>2. k \in 1..Len(groups[g]) /\ n \in Names /\ g \in Nat /\ k \in Nat
  BY <1>1 DEF EmitName, TypeOK
<1>3. forms \in Seq(Form) /\ Len(forms) \in Nat
  BY FormsType
<1>4. Place(g, k)
  BY <1>1, <1>2 DEF Place
<1>5. CASE Dropped(n) \/ Suppressed(n)
  BY <1>2, <1>3, <1>4, <1>5 DEF EmitName
<1>6. CASE ~(Dropped(n) \/ Suppressed(n))
  <2>1. forms' = Append(forms, Def(n)) /\ Def(n) \in Form
    BY <1>2, <1>6 DEF EmitName, Def, Form
  <2>2. /\ forms' \in Seq(Form) /\ Len(forms') = Len(forms) + 1
        /\ forms'[Len(forms) + 1] = Def(n) /\ \A i \in 1..Len(forms) : forms'[i] = forms[i]
    BY <1>3, <2>1
  <2> QED
    BY <1>2, <1>4, <1>6, <2>2
<1> QED
  BY <1>5, <1>6
-----------------------------------------------------------------------------
LEMMA InitType == Init => Input /\ TypeOK
<1> SUFFICES ASSUME Init PROVE Input /\ TypeOK
  OBVIOUS
<1>1. Input
  BY DEF Init, Input
<1>2. groups \in Seq(Seq(Names)) /\ Len(groups) \in Nat
  BY <1>1, Groups DEF Input, IsDependencyOrder
<1> QED
  BY <1>1, <1>2 DEF Init, TypeOK, Functions

LEMMA StepType == Input /\ TypeOK /\ [Next]_vars => Input' /\ TypeOK'
<1> SUFFICES ASSUME Input, TypeOK, [Next]_vars PROVE TypeOK'
  BY SameSource, SameInput
<1> USE DEF source
<1>0. UNCHANGED source /\ Len(groups) \in Nat
  BY SameSource, Groups
<1>1. CASE Roots
  <2>1. UNION {walked[c] \cap Functions : c \in constants} \subseteq Functions
    OBVIOUS
  <2>2. public \subseteq Functions
    BY DEF Input
  <2> QED
    BY <1>0, <1>1, <2>1, <2>2 DEF Roots, TypeOK, Functions
<1>2. CASE Reach
  <2>1. PICK n \in frontier : /\ reachable' = reachable \cup Called(n)
                              /\ frontier' = (frontier \ {n}) \cup (Called(n) \ reachable)
    BY <1>2 DEF Reach
  <2>2. Called(n) \subseteq Functions
    BY <2>1, CalledType DEF TypeOK, Functions
  <2>3. reachable' \subseteq Functions' /\ frontier' \subseteq reachable'
    BY <1>0, <2>1, <2>2 DEF TypeOK, Functions
  <2> QED
    BY <1>0, <1>2, <2>3 DEF Reach, TypeOK
<1>3. CASE StartGroup
  <2>1. forms' \in Seq(Form)
    BY <1>3, StartAppends
  <2> QED
    BY <1>0, <1>3, <2>1 DEF StartGroup, TypeOK, Form, Functions
<1>4. CASE EmitName
  <2>1. forms' \in Seq(Form)
    BY <1>4, EmitAppends
  <2>2. k' \in Nat
    BY <1>4 DEF EmitName, TypeOK
  <2> QED
    BY <1>0, <1>4, <2>1, <2>2 DEF EmitName, TypeOK, Form, Functions
<1>5. CASE EndGroup
  <2>1. g' \in 1..Len(groups)+1 /\ k' \in Nat
    BY <1>0, <1>5 DEF EndGroup, TypeOK
  <2> QED
    BY <1>0, <1>5, <2>1 DEF EndGroup, TypeOK, Functions
<1>6. CASE Reached \/ Finish \/ UNCHANGED vars
  BY <1>0, <1>6 DEF Reached, Finish, vars, TypeOK, Functions
<1> QED
  BY <1>1, <1>2, <1>3, <1>4, <1>5, <1>6 DEF Next, Step
-----------------------------------------------------------------------------
LEMMA StepReachability == Inv /\ [Next]_vars => Reachability'
<1> SUFFICES ASSUME Inv, [Next]_vars PROVE Reachability'
  OBVIOUS
<1>0. UNCHANGED <<constants, public, walked>> /\ (\A n : Called(n)' = Called(n)) /\ Functions' = Functions
  BY SameSource DEF source, Called, Functions
<1>1. CASE Roots
  <2>1. /\ reachable' = public \cup UNION {walked[c] \cap Functions : c \in constants}
        /\ frontier' = reachable' /\ phase' = "reach"
    BY <1>1 DEF Roots
  <2>2. \A c \in constants : walked[c] \cap Functions \subseteq reachable'
    BY <2>1
  <2> QED
    BY <1>0, <2>1, <2>2 DEF Reachability
<1>2. CASE Reach
  <2>1. PICK n \in frontier : /\ reachable' = reachable \cup Called(n)
                              /\ frontier' = (frontier \ {n}) \cup (Called(n) \ reachable)
    BY <1>2 DEF Reach
  <2>2. phase = "reach" /\ phase' = "reach" /\ frontier \subseteq reachable
    BY <1>2 DEF Reach, Inv, TypeOK
  <2>3. ASSUME NEW x \in reachable' \ frontier'
        PROVE  Called(x) \subseteq reachable'
    <3>1. x = n \/ x \in reachable \ frontier
      BY <2>1, <2>3
    <3> QED
      BY <2>1, <2>2, <3>1 DEF Inv, Reachability
  <2> QED
    BY <1>0, <2>1, <2>2, <2>3 DEF Inv, Reachability
<1>3. CASE UNCHANGED <<reachable, frontier>> /\ phase # "roots"
             /\ (phase' \in {"emit", "done"} => phase \in {"emit", "done"} \/ frontier = {})
  BY <1>0, <1>3 DEF Inv, Reachability
<1>4. CASE Reached \/ StartGroup \/ EmitName \/ EndGroup \/ Finish
  BY <1>3, <1>4 DEF Reached, StartGroup, EmitName, EndGroup, Finish
<1>5. CASE UNCHANGED vars
  BY <1>0, <1>5 DEF Inv, Reachability, vars
<1> QED
  BY <1>1, <1>2, <1>4, <1>5 DEF Next, Step

(* What a definition that is written refers to is not dropped.             *)
LEMMA UsedIsKept ==
  ASSUME Inv, phase = "emit", NEW n \in Names, ~Dropped(n), n \notin overridden, NEW m \in walked[n]
  PROVE  m \in Names /\ ~Dropped(m)
<1>1. m \in Names /\ Input /\ TypeOK
  BY DEF Inv, Input
<1>2. /\ public \subseteq reachable /\ frontier = {}
      /\ \A c \in constants : walked[c] \cap Functions \subseteq reachable
      /\ \A x \in reachable : Called(x) \subseteq reachable
  BY DEF Inv, Reachability
<1>3. CASE m \in constants
  BY <1>1, <1>3 DEF Dropped, Functions
<1>4. CASE m \notin constants
  <2>1. m \in Functions
    BY <1>1, <1>4 DEF Functions
  <2>2. m \in reachable
    <3>1. CASE n \in constants
      BY <1>2, <2>1, <3>1
    <3>2. CASE n \notin constants
      <4>1. n \in reachable
        BY <1>2, <3>2 DEF Dropped, Functions
      <4>2. m \in Called(n)
        BY <2>1, <3>2 DEF Called
      <4> QED
        BY <1>2, <4>1, <4>2
    <3> QED
      BY <3>1, <3>2
  <2> QED
    BY <1>1, <2>2 DEF Dropped
<1> QED
  BY <1>3, <1>4

(* When a definition is written, what it refers to is above it.            *)
LEMMA UsedIsAbove ==
  ASSUME Inv, phase = "emit", Place(g, k), k \in Nat, ~Dropped(groups[g][k]),
         NEW m \in Uses(groups[g][k]) \ {groups[g][k]}, ~Suppressed(m)
  PROVE  \/ Written(m)
         \/ Len(groups[g]) > 1 /\ \E i \in 1..Len(forms) : forms[i].name = m
<1> DEFINE n == groups[g][k]
<1>1. Input /\ TypeOK /\ g \in Nat /\ n \in Names
  BY Groups DEF Inv, TypeOK, Place
<1>2. n \notin overridden /\ m \in walked[n] /\ m \in References(n)
  BY DEF Uses, References
<1>3. m \in Names /\ ~Dropped(m)
  BY <1>1, <1>2, UsedIsKept
<1>4. PICK j, b \in Nat : Place(j, b) /\ j <= g /\ groups[j][b] = m
  BY <1>1, <1>2, ReferencesPlaced
<1>5. CASE j < g
  <2>1. Turn(m)
    BY <1>4, <1>5 DEF Turn, Passed
  <2> QED
    BY <1>3, <2>1 DEF Inv, WrittenInTurn
<1>6. CASE j = g
  <2>1. b # k /\ b \in 1..Len(groups[g]) /\ k \in 1..Len(groups[g]) /\ g \in 1..Len(groups)
    BY <1>4, <1>6 DEF Place
  <2>2. Len(groups[g]) > 1 /\ k # 0 /\ g <= Len(groups)
    BY <1>1, <2>1, Groups
  <2> QED
    BY <1>4, <1>6, <2>1, <2>2 DEF Inv, GroupDeclared
<1> QED
  BY <1>1, <1>4, <1>5, <1>6

(* A step that appends to the forms leaves the earlier ones resolved.      *)
LEMMA EarlierForms ==
  ASSUME UNCHANGED source, TypeOK, Len(forms') \in Nat, Len(forms) <= Len(forms'),
         \A i \in 1..Len(forms) : forms'[i] = forms[i], NEW i \in 1..Len(forms)
  PROVE  /\ Missing(i)' = Missing(i) /\ forms'[i] = forms[i] /\ i \in 1..Len(forms')
         /\ \A n : (\E j \in 1..i-1 : forms[j] = Def(n)) => (\E j \in 1..i-1 : forms'[j] = Def(n))
<1>1. Len(forms) \in Nat
  BY FormsType
<1>2. \A j \in 1..i-1 : forms'[j] = forms[j]
  BY <1>1
<1>3. \A n : DefinedBefore(i, n)' <=> DefinedBefore(i, n)
  BY <1>2 DEF DefinedBefore
<1>4. \A n : Uses(n)' = Uses(n)
  BY DEF Uses, source
<1> QED
  BY <1>1, <1>2, <1>3, <1>4 DEF Missing

LEMMA StepResolves == Inv /\ [Next]_vars => ResolvesInOrder'
<1> SUFFICES ASSUME Inv, [Next]_vars PROVE ResolvesInOrder'
  OBVIOUS
<1>0. UNCHANGED source /\ Input /\ TypeOK /\ suppressMain' = suppressMain
  BY SameSource DEF Inv, source
<1>1. CASE StartGroup
  <2>1. /\ forms' \in Seq(Form) /\ Len(forms) <= Len(forms') /\ \A i \in 1..Len(forms) : forms'[i] = forms[i]
        /\ \A i \in 1..Len(forms') : i \notin 1..Len(forms) => forms'[i].op = "declare"
    BY <1>0, <1>1, StartAppends
  <2>2. Len(forms') \in Nat
    BY <2>1
  <2> QED
    BY <1>0, <2>1, <2>2, EarlierForms DEF Inv, ResolvesInOrder
<1>2. CASE EmitName
  <2> DEFINE n == groups[g][k]
  <2>1. /\ Place(g, k) /\ k \in Nat /\ n \in Names /\ phase = "emit"
        /\ forms' \in Seq(Form) /\ \A i \in 1..Len(forms) : forms'[i] = forms[i]
        /\ IF Dropped(n) \/ Suppressed(n) THEN forms' = forms
           ELSE Len(forms') = Len(forms) + 1 /\ forms'[Len(forms) + 1] = Def(n)
    BY <1>0, <1>2, EmitAppends DEF EmitName
  <2>2. Len(forms) \in Nat /\ Len(forms') \in Nat /\ Len(forms) <= Len(forms')
    BY <1>0, <2>1, FormsType
  <2>3. ASSUME NEW i \in 1..Len(forms), forms'[i].op = "def"
        PROVE  Missing(i)' \subseteq (IF suppressMain THEN {Main} ELSE {})
    BY <1>0, <2>1, <2>2, <2>3, EarlierForms DEF Inv, ResolvesInOrder
  <2>4. ASSUME NEW i \in 1..Len(forms'), i \notin 1..Len(forms), NEW m \in Missing(i)'
        PROVE  suppressMain /\ m = Main
    <3>1. i = Len(forms) + 1 /\ forms'[i] = Def(n) /\ ~Dropped(n)
      BY <2>1, <2>2, <2>4
    <3>2. m \in Uses(n) \ {n} /\ ~\E j \in 1..i-1 : forms'[j].name = m
      BY <1>0, <3>1 DEF Missing, Def, DefinedBefore, Uses, source
    <3>3. ~\E j \in 1..Len(forms) : forms[j].name = m
      BY <2>1, <2>2, <3>1, <3>2
    <3>4. ~Written(m)
      BY <3>3 DEF Written, Def
    <3>5. Suppressed(m)
      BY <2>1, <3>1, <3>2, <3>3, <3>4, UsedIsAbove
    <3> QED
      BY <3>5 DEF Suppressed
  <2> QED
    BY <1>0, <2>3, <2>4 DEF ResolvesInOrder
<1>3. CASE forms' = forms
  <2>1. Len(forms) \in Nat
    BY <1>0, FormsType
  <2> QED
    BY <1>0, <1>3, <2>1, EarlierForms DEF Inv, ResolvesInOrder
<1> QED
  BY <1>1, <1>2, <1>3 DEF Next, Step, Roots, Reach, Reached, EndGroup, Finish, vars

LEMMA StepConstants == Inv /\ [Next]_vars => ConstantsHoldFunctions' /\ ConstantsUndeclared'
<1> SUFFICES ASSUME Inv, [Next]_vars PROVE ConstantsHoldFunctions' /\ ConstantsUndeclared'
  OBVIOUS
<1>0. UNCHANGED source /\ Input /\ TypeOK /\ constants' = constants /\ walked' = walked
  BY SameSource DEF Inv, source
<1>1. ASSUME Len(forms') \in Nat, Len(forms) <= Len(forms'),
             \A i \in 1..Len(forms) : forms'[i] = forms[i],
             NEW i \in 1..Len(forms), forms'[i].name \in constants
      PROVE  /\ forms'[i].op # "declare"
             /\ \A n \in walked[forms'[i].name] \ {Main} : \E j \in 1..i-1 : forms'[j] = Def(n)
  <2>1. forms'[i] = forms[i]
        /\ \A n : (\E j \in 1..i-1 : forms[j] = Def(n)) => (\E j \in 1..i-1 : forms'[j] = Def(n))
    BY <1>0, <1>1, EarlierForms
  <2> QED
    BY <1>1, <2>1 DEF Inv, ConstantsHoldFunctions, ConstantsUndeclared, Def
<1>2. CASE StartGroup
  <2>1. /\ forms' \in Seq(Form) /\ Len(forms) <= Len(forms') /\ \A i \in 1..Len(forms) : forms'[i] = forms[i]
        /\ \A i \in 1..Len(forms') : i \notin 1..Len(forms) =>
             /\ Len(groups[g]) > 1 /\ \E a \in 1..Len(groups[g]) : forms'[i].name = groups[g][a]
    BY <1>0, <1>2, StartAppends
  <2>2. Len(forms') \in Nat /\ g \in 1..Len(groups)
    BY <1>0, <1>2, <2>1, CurrentGroup DEF StartGroup
  <2>3. ASSUME NEW i \in 1..Len(forms'), i \notin 1..Len(forms)
        PROVE  forms'[i].name \notin constants
    <3>1. Len(groups[g]) > 1 /\ Len(groups[g]) \in Nat
      BY <1>0, <2>1, <2>2, <2>3, Groups
    <3>2. PICK a \in 1..Len(groups[g]) : forms'[i].name = groups[g][a]
      BY <2>1, <2>3
    <3>3. Place(g, a)
      BY <2>2 DEF Place
    <3>4. Len(groups[g]) # 1
      <4> DEFINE l == Len(groups[g])
      <4>1. l \in Nat /\ l > 1
        BY <3>1
      <4> HIDE DEF l
      <4>2. l # 1
        BY ONLY <4>1
      <4> QED
        BY <4>2 DEF l
    <3>5. ASSUME groups[g][a] \in constants
          PROVE  FALSE
      <4>1. Len(groups[g]) = 1
        BY <1>0, <3>3, <3>5, ConstantAlone
      <4> QED
        BY <3>4, <4>1
    <3> QED
      BY <3>2, <3>5
  <2> QED
    BY <1>0, <1>1, <2>1, <2>2, <2>3 DEF ConstantsHoldFunctions, ConstantsUndeclared, Def
<1>3. CASE EmitName
  <2> DEFINE c == groups[g][k]
  <2>1. /\ Place(g, k) /\ g \in Nat /\ k \in Nat /\ c \in Names /\ phase = "emit"
        /\ forms' \in Seq(Form) /\ \A i \in 1..Len(forms) : forms'[i] = forms[i]
        /\ IF Dropped(c) \/ Suppressed(c) THEN forms' = forms
           ELSE Len(forms') = Len(forms) + 1 /\ forms'[Len(forms) + 1] = Def(c)
    BY <1>0, <1>3, EmitAppends DEF EmitName
  <2>2. Len(forms) \in Nat /\ Len(forms') \in Nat /\ Len(forms) <= Len(forms')
    BY <1>0, <2>1, FormsType
  <2>3. ASSUME NEW i \in 1..Len(forms'), i \notin 1..Len(forms)
        PROVE  i = Len(forms) + 1 /\ forms'[i] = Def(c) /\ ~Dropped(c)
    BY <2>1, <2>2, <2>3
  <2>4. ASSUME c \in constants, ~Dropped(c), NEW n \in walked[c] \ {Main}
        PROVE  Written(n)
    <3>1. Len(groups[g]) = 1 /\ c \notin References(c)
      BY <1>0, <2>1, <2>4, ConstantAlone
    <3>2. n # c /\ c \notin overridden
      BY <1>0, <2>4, <3>1 DEF References, Input, Functions
    <3>3. n \in Uses(c) \ {c} /\ ~Suppressed(n)
      BY <2>4, <3>2 DEF Uses, Suppressed
    <3>4. ~(Len(groups[g]) > 1)
      BY <3>1
    <3> QED
      BY <2>1, <2>4, <3>3, <3>4, UsedIsAbove
  <2>5. ASSUME NEW i \in 1..Len(forms'), i \notin 1..Len(forms), c \in constants, NEW n \in walked[c] \ {Main}
        PROVE  \E j \in 1..i-1 : forms'[j] = Def(n)
    <3>1. PICK j \in 1..Len(forms) : forms[j] = Def(n)
      BY <2>3, <2>4, <2>5 DEF Written
    <3>2. j \in 1..i-1
      BY <2>2, <2>3, <2>5
    <3> QED
      BY <2>1, <3>1, <3>2
  <2>6. Def(c).op = "def" /\ Def(c).name = c
    BY DEF Def
  <2>7. ConstantsUndeclared'
    BY <1>0, <1>1, <2>1, <2>2, <2>3, <2>6 DEF ConstantsUndeclared
  <2>8. ConstantsHoldFunctions'
    <3> SUFFICES ASSUME NEW i \in 1..Len(forms'), forms'[i].name \in constants,
                        NEW n \in walked[forms'[i].name] \ {Main}
                 PROVE  \E j \in 1..i-1 : forms'[j] = Def(n)
      BY <1>0 DEF ConstantsHoldFunctions, Def
    <3>1. CASE i \in 1..Len(forms)
      BY <1>1, <2>1, <2>2, <3>1
    <3>2. CASE i \notin 1..Len(forms)
      BY <2>3, <2>5, <2>6, <3>2
    <3> QED
      BY <3>1, <3>2
  <2> QED
    BY <2>7, <2>8
<1>4. CASE forms' = forms
  BY <1>0, <1>4 DEF Inv, ConstantsHoldFunctions, ConstantsUndeclared
<1> QED
  BY <1>2, <1>3, <1>4 DEF Next, Step, Roots, Reach, Reached, EndGroup, Finish, vars
-----------------------------------------------------------------------------
(* A name's turn comes when it is emitted, and only then.                  *)
LEMMA TurnEmit ==
  ASSUME Input, TypeOK, EmitName, NEW n
  PROVE  /\ Turn(n)' <=> Turn(n) \/ n = groups[g][k]
         /\ ~Turn(groups[g][k])
<1>1. Place(g, k) /\ g \in Nat /\ k \in Nat
  BY EmitAppends
<1>2. UNCHANGED <<groups, g>> /\ k' = k + 1
  BY DEF EmitName, source
<1>3. \A i, a \in Nat : Passed(i, a)' <=> Passed(i, a) \/ (i = g /\ a = k)
  BY <1>1, <1>2 DEF Passed
<1>4. \A i, a : Place(i, a)' <=> Place(i, a)
  BY <1>2 DEF Place
<1>5. Turn(n)' <=> \E i, a \in Nat : Place(i, a) /\ groups[i][a] = n /\ (Passed(i, a) \/ (i = g /\ a = k))
  BY <1>2, <1>3, <1>4 DEF Turn
<1>6. ASSUME Turn(groups[g][k])
      PROVE  FALSE
  <2>1. PICK i, a \in Nat : Place(i, a) /\ groups[i][a] = groups[g][k] /\ Passed(i, a)
    BY <1>6 DEF Turn
  <2>2. i = g /\ a = k
    BY <1>1, <2>1, Placed
  <2> QED
    BY <1>1, <2>1, <2>2 DEF Passed
<1> QED
  BY <1>1, <1>5, <1>6 DEF Turn

LEMMA TurnSame ==
  ASSUME Input, TypeOK, StartGroup \/ EndGroup, NEW n
  PROVE  Turn(n)' <=> Turn(n)
<1>1. UNCHANGED groups /\ g \in 1..Len(groups) /\ Len(groups) \in Nat /\ Len(groups[g]) \in Nat /\ k \in Nat
  BY CurrentGroup, Groups DEF StartGroup, EndGroup, source, TypeOK
<1>2. ASSUME NEW i \in Nat, NEW a \in Nat, Place(i, a)
      PROVE  Passed(i, a)' <=> Passed(i, a)
  <2>1. i \in 1..Len(groups) /\ a \in 1..Len(groups[i])
    BY <1>2 DEF Place
  <2>2. CASE StartGroup
    <3>1. g' = g /\ k = 0 /\ k' = 1 /\ a >= 1
      BY <1>1, <1>2, <2>1, <2>2 DEF StartGroup
    <3> QED
      BY <1>2, <3>1 DEF Passed
  <2>3. CASE EndGroup
    <3>1. g' = g + 1 /\ k' = 0 /\ k > Len(groups[g]) /\ a >= 1 /\ (i = g => a <= Len(groups[g]))
      BY <1>1, <1>2, <2>1, <2>3 DEF EndGroup
    <3>2. i = g => a < k
      BY <1>1, <1>2, <3>1
    <3>3. i < g + 1 <=> i < g \/ i = g
      BY <1>1, <1>2
    <3>4. ~(a < 0)
      BY <1>2
    <3> QED
      BY <3>1, <3>2, <3>3, <3>4 DEF Passed
  <2> QED
    BY <2>2, <2>3
<1>3. \A i, a : Place(i, a)' <=> Place(i, a)
  BY <1>1 DEF Place
<1> QED
  BY <1>1, <1>2, <1>3 DEF Turn

LEMMA StepTurns == Inv /\ [Next]_vars => Waiting' /\ WrittenInTurn' /\ WrittenOnce' /\ DoneIsPast'
<1> SUFFICES ASSUME Inv, [Next]_vars
             PROVE  Waiting' /\ WrittenInTurn' /\ WrittenOnce' /\ DoneIsPast'
  OBVIOUS
<1>0. UNCHANGED source /\ Input /\ TypeOK
  BY SameSource DEF Inv
<1>1. \A n : (reachable' = reachable => (Dropped(n)' <=> Dropped(n))) /\ (Suppressed(n)' <=> Suppressed(n))
  BY <1>0 DEF source, Dropped, Suppressed, Functions
<1>2. CASE Roots \/ Reach
  <2>1. g' = 1 /\ k' = 0 /\ forms' = <<>> /\ phase' # "done"
    BY <1>2 DEF Roots, Reach, Inv, Waiting
  <2>2. \A n : ~Written(n)' /\ ~Turn(n)'
    <3>1. \A i, a \in Nat : Place(i, a)' => i >= 1 /\ a >= 1
      BY Groups, <1>0, SameInput DEF Place
    <3> QED
      BY <2>1, <3>1 DEF Written, Turn, Passed
  <2> QED
    BY <2>1, <2>2 DEF Waiting, WrittenInTurn, WrittenOnce, DoneIsPast
<1>3. CASE StartGroup
  <2>1. /\ forms' \in Seq(Form) /\ Len(forms) <= Len(forms') /\ \A i \in 1..Len(forms) : forms'[i] = forms[i]
        /\ \A i \in 1..Len(forms') : i \notin 1..Len(forms) => forms'[i].op = "declare"
        /\ phase = "emit" /\ phase' = "emit" /\ reachable' = reachable
    BY <1>0, <1>3, StartAppends DEF StartGroup
  <2>2. Len(forms) \in Nat /\ Len(forms') \in Nat
    BY <1>0, <2>1, FormsType
  <2>3. ASSUME NEW i \in 1..Len(forms'), forms'[i].op = "def"
        PROVE  i \in 1..Len(forms) /\ forms'[i] = forms[i]
    BY <2>1, <2>2, <2>3
  <2>4. \A n : Written(n)' <=> Written(n)
    <3>1. \A n : Def(n).op = "def"
      BY DEF Def
    <3>2. 1..Len(forms) \subseteq 1..Len(forms')
      BY <2>1, <2>2
    <3> QED
      BY <2>1, <2>3, <3>1, <3>2 DEF Written, Def
  <2>5. \A n : Turn(n)' <=> Turn(n)
    BY <1>0, <1>3, TurnSame
  <2>6. WrittenOnce'
    BY <2>1, <2>3 DEF Inv, WrittenOnce
  <2> QED
    BY <1>1, <2>1, <2>4, <2>5, <2>6 DEF Inv, WrittenInTurn, Waiting, DoneIsPast
<1>4. CASE EmitName
  <2> DEFINE c == groups[g][k]
  <2>1. /\ c \in Names /\ phase = "emit" /\ phase' = "emit" /\ reachable' = reachable
        /\ forms' \in Seq(Form) /\ \A i \in 1..Len(forms) : forms'[i] = forms[i]
        /\ IF Dropped(c) \/ Suppressed(c) THEN forms' = forms
           ELSE Len(forms') = Len(forms) + 1 /\ forms'[Len(forms) + 1] = Def(c)
    BY <1>0, <1>4, EmitAppends DEF EmitName
  <2>2. Len(forms) \in Nat
    BY <1>0, FormsType
  <2>3. ~Turn(c) /\ ~Written(c) /\ \A n : Turn(n)' <=> Turn(n) \/ n = c
    BY <1>0, <1>4, <2>1, TurnEmit DEF Inv, WrittenInTurn
  <2>4. CASE Dropped(c) \/ Suppressed(c)
    <3>1. forms' = forms
      BY <2>1, <2>4
    <3>2. \A n : Written(n)' <=> Written(n)
      BY <3>1 DEF Written, Def
    <3> QED
      BY <1>1, <2>1, <2>3, <2>4, <3>1, <3>2 DEF Inv, WrittenInTurn, WrittenOnce, Waiting, DoneIsPast
  <2>5. CASE ~(Dropped(c) \/ Suppressed(c))
    <3>1. /\ \A i \in 1..Len(forms') : i \in 1..Len(forms) \/ (i = Len(forms) + 1 /\ forms'[i] = Def(c))
          /\ Len(forms) + 1 \in 1..Len(forms') /\ forms'[Len(forms) + 1] = Def(c)
          /\ 1..Len(forms) \subseteq 1..Len(forms')
      BY <2>1, <2>2, <2>5
    <3>2. \A n : Def(n).op = "def" /\ Def(n).name = n
      BY DEF Def
    <3>3. \A n : Written(n)' <=> Written(n) \/ n = c
      <4>1. \A n : Written(n)' <=> \E i \in 1..Len(forms') : forms'[i] = Def(n)
        BY DEF Written, Def
      <4> QED
        BY <2>1, <3>1, <3>2, <4>1 DEF Written
    <3>4. \A i \in 1..Len(forms) : forms[i] # Def(c)
      BY <2>3 DEF Written
    <3>5. WrittenOnce'
      BY <2>1, <3>1, <3>4 DEF Inv, WrittenOnce
    <3> QED
      BY <1>1, <2>1, <2>3, <2>5, <3>3, <3>5 DEF Inv, WrittenInTurn, Waiting, DoneIsPast
  <2> QED
    BY <2>4, <2>5
<1>5. CASE UNCHANGED <<groups, reachable, forms>> /\ (\A n : Turn(n)' <=> Turn(n))
             /\ (phase' \in {"roots", "reach"} => phase = phase' /\ UNCHANGED <<g, k>>)
             /\ (phase' = "done" => g' > Len(groups))
  <2>1. \A n : Written(n)' <=> Written(n)
    BY <1>5 DEF Written, Def
  <2> QED
    BY <1>1, <1>5, <2>1 DEF Inv, WrittenInTurn, WrittenOnce, Waiting, DoneIsPast
<1>6. CASE EndGroup
  <2>1. \A n : Turn(n)' <=> Turn(n)
    BY <1>0, <1>6, TurnSame
  <2> QED
    BY <1>5, <1>6, <2>1 DEF EndGroup, source
<1>7. CASE Reached \/ Finish \/ UNCHANGED vars
  <2>1. UNCHANGED <<groups, reachable, forms, g, k>>
    BY <1>7 DEF Reached, Finish, vars, source
  <2>2. \A n : Turn(n)' <=> Turn(n)
    BY <2>1 DEF Turn, Place, Passed
  <2>3. phase' \in {"roots", "reach"} => phase = phase'
    BY <1>7 DEF Reached, Finish, vars
  <2>4. phase' = "done" => g' > Len(groups)
    BY <1>7 DEF Reached, Finish, vars, source, Inv, DoneIsPast
  <2> QED
    BY <1>5, <2>1, <2>2, <2>3, <2>4
<1> QED
  BY <1>2, <1>3, <1>4, <1>6, <1>7 DEF Next, Step

LEMMA StepDeclared == Inv /\ [Next]_vars => GroupDeclared'
<1> SUFFICES ASSUME Inv, [Next]_vars PROVE GroupDeclared'
  OBVIOUS
<1>0. UNCHANGED groups /\ Input /\ TypeOK
  BY SameSource DEF Inv, source
<1>1. CASE StartGroup
  <2>1. Len(groups[g]) > 1 =>
          \A a \in 1..Len(groups[g]) : \E i \in 1..Len(forms') : forms'[i].name = groups[g][a]
    BY <1>0, <1>1, StartAppends
  <2> QED
    BY <1>0, <1>1, <2>1 DEF StartGroup, GroupDeclared
<1>2. CASE EmitName
  <2>1. \A i \in 1..Len(forms) : i \in 1..Len(forms') /\ forms'[i] = forms[i]
    <3>1. Len(forms) \in Nat
      BY <1>0, FormsType
    <3> QED
      BY <1>0, <1>2, <3>1, EmitAppends
  <2>2. g' = g /\ k # 0
    BY <1>0, <1>2, CurrentGroup DEF EmitName
  <2> QED
    BY <1>0, <2>1, <2>2 DEF Inv, GroupDeclared
<1>3. CASE k' = 0 \/ UNCHANGED <<g, k, forms>>
  BY <1>0, <1>3 DEF Inv, GroupDeclared
<1> QED
  BY <1>1, <1>2, <1>3 DEF Next, Step, Roots, Reach, Reached, EndGroup, Finish, vars
-----------------------------------------------------------------------------
LEMMA InitInv == Init => Inv
<1> SUFFICES ASSUME Init PROVE Inv
  OBVIOUS
<1>1. Input /\ TypeOK
  BY InitType
<1>2. phase = "roots" /\ g = 1 /\ k = 0 /\ forms = <<>> /\ frontier = {}
  BY DEF Init
<1>3. \A n : ~Written(n) /\ ~Turn(n)
  <2>1. \A i, a \in Nat : Place(i, a) => i >= 1 /\ a >= 1
    BY Groups, <1>1 DEF Place
  <2> QED
    BY <1>2, <2>1 DEF Written, Turn, Passed
<1> QED
  BY <1>1, <1>2, <1>3
  DEF Inv, Reachability, Waiting, WrittenInTurn, WrittenOnce, GroupDeclared, ConstantsUndeclared,
      DoneIsPast, ResolvesInOrder, ConstantsHoldFunctions

LEMMA Invariance == Spec => []Inv
<1>1. Inv /\ [Next]_vars => Inv'
  BY SameSource, SameInput, StepType, StepReachability, StepResolves, StepConstants, StepTurns, StepDeclared DEF Inv
<1> QED
  BY InitInv, <1>1, PTL DEF Spec

(* What the reachability pass keeps are functions, and what is written are *)
(* declares and definitions of the module's names.                         *)
THEOREM TypeCorrect == Spec => []TypeOK
<1>1. Inv => TypeOK
  BY DEF Inv
<1> QED
  BY Invariance, <1>1, PTL

(* What a definition refers to is declared or defined above it.            *)
THEOREM NamesInOrder == Spec => []ResolvesInOrder
<1>1. Inv => ResolvesInOrder
  BY DEF Inv
<1> QED
  BY Invariance, <1>1, PTL

(* The functions a constant holds are defined before it is evaluated.      *)
THEOREM ConstantsAreBound == Spec => []ConstantsHoldFunctions
<1>1. Inv => ConstantsHoldFunctions
  BY DEF Inv
<1> QED
  BY Invariance, <1>1, PTL

LEMMA InvInterface == Inv => InterfaceEmitted
<1> SUFFICES ASSUME Inv, phase = "done", NEW n \in public \cup constants, ~Suppressed(n)
             PROVE  \E i \in 1..Len(forms) : \A j \in 1..Len(forms) : forms[j] = Def(n) <=> j = i
  BY DEF InterfaceEmitted, Def
<1>1. Input /\ TypeOK /\ n \in Names /\ ~Dropped(n)
  BY DEF Inv, Input, Functions, Dropped
<1>2. Turn(n)
  <2>1. PICK i, a \in Nat : Place(i, a) /\ groups[i][a] = n
    BY <1>1, Placed
  <2>2. i < g
    <3>1. i \in 1..Len(groups) /\ Len(groups) \in Nat /\ g > Len(groups) /\ g \in Nat
      BY <1>1, <2>1, Groups DEF Place, Inv, DoneIsPast, TypeOK
    <3> QED
      BY <3>1
  <2> QED
    BY <2>1, <2>2 DEF Turn, Passed
<1>3. PICK i \in 1..Len(forms) : forms[i] = Def(n)
  BY <1>1, <1>2 DEF Inv, WrittenInTurn, Written
<1>4. \A j \in 1..Len(forms) : forms[j] = Def(n) => j = i
  BY <1>3 DEF Inv, WrittenOnce, Def
<1> QED
  BY <1>3, <1>4

(* When the module is written, its interface is there, each name once.     *)
THEOREM InterfaceIsComplete == Spec => []InterfaceEmitted
BY Invariance, InvInterface, PTL
-----------------------------------------------------------------------------
(* What is left to do, in lexicographic order: the passes; in the first    *)
(* the functions not reached and those whose calls are not followed; in    *)
(* the second the groups, and the names of the current one.                *)
Passes == CASE phase = "roots" -> 3 [] phase = "reach" -> 2 [] phase = "emit" -> 1 [] OTHER -> 0
Unreached == Cardinality(Functions \ reachable)
Unfollowed == Cardinality(frontier)
GroupsAhead == Len(groups) + 1 - g
NamesAhead ==
  IF g <= Len(groups) /\ k <= Len(groups[g]) THEN Len(groups[g]) + 1 - k ELSE 0
Remaining ==
  [i \in 1..5 |->
     CASE i = 1 -> Passes [] i = 2 -> Unreached [] i = 3 -> Unfollowed
       [] i = 4 -> GroupsAhead [] i = 5 -> NamesAhead]
RemainingTyped ==
  /\ Passes \in Nat /\ Unreached \in Nat /\ Unfollowed \in Nat
  /\ GroupsAhead \in Nat /\ NamesAhead \in Nat
  /\ Remaining \in [1..5 -> Nat]
GoesDown == Lower(5, Remaining', Remaining)

LEMMA TypedRemaining == IsFiniteSet(Names) /\ Inv => RemainingTyped
<1> SUFFICES ASSUME IsFiniteSet(Names), Inv PROVE RemainingTyped
  OBVIOUS
<1>1. Passes \in Nat
  BY DEF Passes
<1>2. Unreached \in Nat /\ Unfollowed \in Nat
  <2>1. IsFiniteSet(Functions)
    BY FS_Difference DEF Functions
  <2>2. frontier \in SUBSET Functions /\ (Functions \ reachable) \in SUBSET Functions
    BY DEF Inv, TypeOK
  <2> QED
    BY <2>1, <2>2, ProperPart DEF Unreached, Unfollowed
<1>3. GroupsAhead \in Nat
  BY Groups DEF GroupsAhead, Inv, TypeOK
<1>4. NamesAhead \in Nat
  <2>1. CASE g <= Len(groups) /\ k <= Len(groups[g])
    <3>1. Len(groups[g]) \in Nat /\ k \in Nat
      BY <2>1, CurrentGroup DEF Inv, TypeOK
    <3> QED
      BY <2>1, <3>1 DEF NamesAhead
  <2> QED
    BY <2>1 DEF NamesAhead
<1> QED
  BY <1>1, <1>2, <1>3, <1>4 DEF RemainingTyped, Remaining

LEMMA RemainingLower ==
  ASSUME RemainingTyped, RemainingTyped',
         \/ Passes' < Passes
         \/ /\ Passes' = Passes
            /\ \/ Unreached' < Unreached
               \/ /\ Unreached' = Unreached
                  /\ \/ Unfollowed' < Unfollowed
                     \/ /\ Unfollowed' = Unfollowed
                        /\ \/ GroupsAhead' < GroupsAhead
                           \/ GroupsAhead' = GroupsAhead /\ NamesAhead' < NamesAhead
  PROVE  GoesDown
<1> DEFINE a == Remaining'
           b == Remaining
<1>1. a \in [1..5 -> Nat] /\ b \in [1..5 -> Nat]
  BY DEF RemainingTyped
<1>2. /\ b[1] = Passes /\ b[2] = Unreached /\ b[3] = Unfollowed
      /\ b[4] = GroupsAhead /\ b[5] = NamesAhead
  BY DEF Remaining
<1>3. /\ a[1] = Passes' /\ a[2] = Unreached' /\ a[3] = Unfollowed'
      /\ a[4] = GroupsAhead' /\ a[5] = NamesAhead'
  BY DEF Remaining
<1> HIDE DEF a, b
<1>4. PICK i \in 1..5 : a[i] < b[i] /\ \A j \in 1..i-1 : a[j] = b[j]
  <2>1. \/ a[1] < b[1]
        \/ a[1] = b[1] /\ a[2] < b[2]
        \/ a[1] = b[1] /\ a[2] = b[2] /\ a[3] < b[3]
        \/ a[1] = b[1] /\ a[2] = b[2] /\ a[3] = b[3] /\ a[4] < b[4]
        \/ a[1] = b[1] /\ a[2] = b[2] /\ a[3] = b[3] /\ a[4] = b[4] /\ a[5] < b[5]
    BY <1>2, <1>3
  <2> QED
    BY <2>1
<1> QED
  BY <1>1, <1>4, LowerAt DEF a, b, GoesDown

LEMMA StepLower == IsFiniteSet(Names) /\ Inv /\ RemainingTyped /\ RemainingTyped' /\ Step => GoesDown
<1> SUFFICES ASSUME IsFiniteSet(Names), Inv, RemainingTyped, RemainingTyped', Step PROVE GoesDown
  OBVIOUS
<1>1. CASE Roots \/ Reached \/ Finish
  <2>1. Passes' < Passes
    BY <1>1 DEF Roots, Reached, Finish, Passes
  <2> QED
    BY <2>1, RemainingLower
<1>2. CASE Reach
  <2>1. PICK n \in frontier : /\ reachable' = reachable \cup Called(n)
                              /\ frontier' = (frontier \ {n}) \cup (Called(n) \ reachable)
    BY <1>2 DEF Reach
  <2>2. Passes' = Passes /\ Functions' = Functions
    BY <1>2 DEF Reach, Passes, source, Functions
  <2>3. IsFiniteSet(Functions \ reachable) /\ IsFiniteSet(frontier)
    <3>1. IsFiniteSet(Functions)
      BY FS_Difference DEF Functions
    <3>2. frontier \in SUBSET Functions /\ (Functions \ reachable) \in SUBSET Functions
      BY DEF Inv, TypeOK
    <3> QED
      BY <3>1, <3>2, FS_Subset
  <2>4. CASE Called(n) \subseteq reachable
    <3>1. reachable' = reachable /\ frontier' = frontier \ {n}
      BY <2>1, <2>4
    <3>2. frontier' \in SUBSET frontier /\ frontier' # frontier
      BY <2>1, <3>1
    <3>3. Unreached' = Unreached /\ Unfollowed' < Unfollowed
      BY <2>2, <2>3, <3>1, <3>2, ProperPart DEF Unreached, Unfollowed
    <3> QED
      BY <2>2, <3>3, RemainingLower
  <2>5. CASE ~(Called(n) \subseteq reachable)
    <3>1. Called(n) \subseteq Functions
      BY CalledType DEF Inv, TypeOK, Functions
    <3> DEFINE rest == Functions \ reachable
               rest1 == Functions \ reachable'
    <3>2. rest1 \in SUBSET rest /\ rest1 # rest
      BY <2>1, <2>5, <3>1
    <3>3. Unreached = Cardinality(rest) /\ Unreached' = Cardinality(rest1)
      BY <2>2 DEF Unreached
    <3>4. IsFiniteSet(rest)
      BY <2>3
    <3> HIDE DEF rest, rest1
    <3>5. Unreached' < Unreached
      BY <3>2, <3>3, <3>4, ProperPart
    <3> QED
      BY <2>2, <3>5, RemainingLower
  <2> QED
    BY <2>4, <2>5
<1>3. ASSUME UNCHANGED <<source, phase, reachable, frontier>>
      PROVE  Passes' = Passes /\ Unreached' = Unreached /\ Unfollowed' = Unfollowed
             /\ groups' = groups
  BY <1>3 DEF source, Passes, Unreached, Unfollowed, Functions
<1>4. CASE StartGroup \/ EmitName
  <2>1. UNCHANGED <<source, phase, reachable, frontier>> /\ g' = g /\ k' = k + 1
        /\ g <= Len(groups) /\ k <= Len(groups[g])
    <3>1. g <= Len(groups) => Len(groups[g]) \in Nat
      BY CurrentGroup DEF Inv
    <3> QED
      BY <1>4, <3>1 DEF StartGroup, EmitName
  <2>2. Len(groups[g]) \in Nat /\ k \in Nat
    BY <2>1, CurrentGroup DEF Inv, TypeOK
  <2>3. GroupsAhead' = GroupsAhead
    BY <1>3, <2>1 DEF GroupsAhead
  <2>4. NamesAhead' < NamesAhead
    <3>1. NamesAhead = Len(groups[g]) + 1 - k
      BY <2>1 DEF NamesAhead
    <3>2. groups'[g'] = groups[g] /\ Len(groups') = Len(groups)
      BY <1>3, <2>1
    <3>3. NamesAhead' = IF k + 1 <= Len(groups[g]) THEN Len(groups[g]) + 1 - (k + 1) ELSE 0
      BY <2>1, <3>2 DEF NamesAhead
    <3> DEFINE n == Len(groups[g])
    <3>4. /\ NamesAhead = n + 1 - k /\ n \in Nat /\ k \in Nat /\ k <= n
          /\ NamesAhead' = IF k + 1 <= n THEN n + 1 - (k + 1) ELSE 0
      BY <2>1, <2>2, <3>1, <3>3
    <3> HIDE DEF n
    <3> QED
      BY <3>4
  <2> QED
    BY <1>3, <2>1, <2>3, <2>4, RemainingLower
<1>5. CASE EndGroup
  <2>1. UNCHANGED <<source, phase, reachable, frontier>> /\ g' = g + 1
    BY <1>5 DEF EndGroup
  <2>2. GroupsAhead' < GroupsAhead
    BY <1>3, <2>1, Groups DEF GroupsAhead, Inv, TypeOK
  <2> QED
    BY <1>3, <2>1, <2>2, RemainingLower
<1> QED
  BY <1>1, <1>2, <1>4, <1>5 DEF Step

(* The definitions of a module are written in the end, whatever they call: *)
(* the pass follows a function once, and a name has its turn once.         *)
THEOREM DefinitionsGoDown == ASSUME IsFiniteSet(Names) PROVE Spec => [][GoesDown]_vars
<1>1. Inv => RemainingTyped
  BY TypedRemaining
<1>2. Inv /\ RemainingTyped /\ RemainingTyped' /\ [Next]_vars => [GoesDown]_vars
  BY StepLower DEF Next
<1> QED
  BY Invariance, <1>1, <1>2, PTL DEF Spec
=============================================================================
