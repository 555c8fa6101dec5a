---------------------------- MODULE Definitions ----------------------------
(***************************************************************************)
(* The functions and constants of a module, as emit_module writes them:    *)
(* private functions nothing reaches are dropped, the rest comes out in    *)
(* call-dependency order with a declare for each group of mutual recursion *)
(* -- Clojure resolves a name when it compiles the form that uses it.      *)
(***************************************************************************)
EXTENDS Integers, Sequences, SequencesExt

CONSTANTS Names,  \* the module's functions and constants
          Main

(* Assumed of the constants where the module is used.                      *)
MainAssumption == Main \in Names

VARIABLES
  constants, public,  \* input: which names are constants, which functions public
  overridden,         \* input: functions the externals map replaces by an alias
  walked,             \* input: name -> names its value refers to
  unwalked,           \* input: ... in guards, messages and bit-array sizes only
  suppressMain,       \* input: GLEAM_CLJ_NO_MAIN is set
  groups,             \* input: dependency_order, from gleam_core's call graph
  phase, reachable, frontier,  \* the reachability pass
  g, k,                        \* position in groups
  forms                        \* what is written: [op, name]

source == <<constants, public, overridden, walked, unwalked, suppressMain, groups>>
vars == <<source, phase, reachable, frontier, g, k, forms>>

Functions == Names \ constants
References(n) == walked[n] \cup unwalked[n]

(* dependency_order lists every name once; names that reach each other     *)
(* share a group, and everything else a name refers to is in a group before*)
ClosedUnderReference(S) == \A n \in S : References(n) \subseteq S
Reaches(a, b) ==
  {S \in SUBSET (Names \ {b}) : References(a) \subseteq S /\ ClosedUnderReference(S)} = {}
UpTo(i) == UNION {ToSet(groups[j]) : j \in 1..i}
IsDependencyOrder ==
  /\ groups \in Seq(Seq(Names)) /\ UpTo(Len(groups)) = Names
  /\ \A i, j \in 1..Len(groups) : \A a \in 1..Len(groups[i]), b \in 1..Len(groups[j]) :
       groups[i][a] = groups[j][b] => i = j /\ a = b
  /\ \A i \in 1..Len(groups) : \A n \in ToSet(groups[i]) :
       /\ \A m \in ToSet(groups[i]) \ {n} : Reaches(n, m)
       /\ References(n) \subseteq UpTo(i)

Init ==
  /\ constants \in SUBSET (Names \ {Main})
  /\ public \in SUBSET Functions /\ overridden \in SUBSET Functions
  /\ walked \in [Names -> SUBSET Names] /\ unwalked \in [Names -> SUBSET Names]
  /\ \A c \in constants : unwalked[c] = {} /\ ~Reaches(c, c)
  /\ suppressMain \in BOOLEAN
  /\ IsDependencyOrder
  /\ phase = "roots" /\ reachable = {} /\ frontier = {}
  /\ g = 1 /\ k = 0 /\ forms = <<>>

(* Mutant of Called: constants are collected with the functions.           *)
Called_AnyName(n) == IF n \in overridden \cup constants THEN {} ELSE walked[n]

(* An overridden function is an alias: its body never exists.              *)
Called(n) == IF n \in overridden \cup constants THEN {} ELSE walked[n] \cap Functions

(* Mutant of Roots: what constants refer to is not kept.                   *)
Roots_PublicOnly ==
  /\ phase = "roots"
  /\ reachable' = public
  /\ frontier' = reachable'
  /\ phase' = "reach"
  /\ UNCHANGED <<source, g, k, forms>>

Roots ==
  /\ phase = "roots"
  /\ reachable' = public \cup UNION {walked[c] \cap Functions : c \in constants}
  /\ frontier' = reachable'
  /\ phase' = "reach"
  /\ UNCHANGED <<source, g, k, forms>>

(* Mutant of Reach: names that were reached before are queued again.       *)
Reach_Requeues ==
  /\ phase = "reach"
  /\ \E n \in frontier :
       /\ reachable' = reachable \cup Called(n)
       /\ frontier' = (frontier \ {n}) \cup Called(n)
  /\ UNCHANGED <<source, phase, g, k, forms>>

(* The frontier starts in hash-set order: any of its names may come next.  *)
Reach ==
  /\ phase = "reach"
  /\ \E n \in frontier :
       /\ reachable' = reachable \cup Called(n)
       /\ frontier' = (frontier \ {n}) \cup (Called(n) \ reachable)
  /\ UNCHANGED <<source, phase, g, k, forms>>

Reached ==
  /\ phase = "reach" /\ frontier = {}
  /\ phase' = "emit"
  /\ UNCHANGED <<source, reachable, frontier, g, k, forms>>

Declares(group) == [i \in 1..Len(group) |-> [op |-> "declare", name |-> group[i]]]

(* Mutant of StartGroup: the declare is forgotten.                         *)
StartGroup_NoDeclare ==
  /\ phase = "emit" /\ g <= Len(groups) /\ k = 0
  /\ k' = 1
  /\ UNCHANGED <<source, phase, reachable, frontier, g, forms>>

(* A group of several names starts with a declare of all of them.          *)
StartGroup ==
  /\ phase = "emit" /\ g <= Len(groups) /\ k = 0
  /\ forms' = IF Len(groups[g]) > 1 THEN forms \o Declares(groups[g]) ELSE forms
  /\ k' = 1
  /\ UNCHANGED <<source, phase, reachable, frontier, g>>

(* Mutant of Dropped: constants are dropped like private functions.        *)
Dropped_Unreached(n) == n \notin public /\ n \notin reachable

Dropped(n) == n \in Functions \ public /\ n \notin reachable
Suppressed(n) == n = Main /\ n \in public /\ suppressMain

EmitName ==
  /\ phase = "emit" /\ g <= Len(groups) /\ k \in 1..Len(groups[g])
  /\ LET n == groups[g][k] IN
       forms' = IF Dropped(n) \/ Suppressed(n) THEN forms
                ELSE Append(forms, [op |-> "def", name |-> n])
  /\ k' = k + 1
  /\ UNCHANGED <<source, phase, reachable, frontier, g>>

EndGroup ==
  /\ phase = "emit" /\ g <= Len(groups) /\ k > Len(groups[g])
  /\ g' = g + 1 /\ k' = 0
  /\ UNCHANGED <<source, phase, reachable, frontier, forms>>

Finish ==
  /\ phase = "emit" /\ g > Len(groups)
  /\ phase' = "done"
  /\ UNCHANGED <<source, reachable, frontier, g, k, forms>>

Step == Roots \/ Reach \/ Reached \/ StartGroup \/ EmitName \/ EndGroup \/ Finish
Next == Step \/ (phase = "done" /\ UNCHANGED vars)
Spec == Init /\ [][Next]_vars
-----------------------------------------------------------------------------
TypeOK ==
  /\ constants \subseteq Names /\ public \subseteq Names /\ overridden \subseteq Names
  /\ walked \in [Names -> SUBSET Names] /\ unwalked \in [Names -> SUBSET Names]
  /\ suppressMain \in BOOLEAN /\ groups \in Seq(Seq(Names))
  /\ phase \in {"roots", "reach", "emit", "done"}
  /\ reachable \subseteq Functions /\ frontier \subseteq reachable
  /\ g \in 1..Len(groups)+1 /\ k \in Nat
  /\ forms \in Seq([op : {"declare", "def"}, name : Names])

(* What a form's text refers to: an alias only to its Clojure target.      *)
Uses(n) == IF n \in overridden THEN {} ELSE walked[n]
DefinedBefore(i, n) == \E j \in 1..i-1 : forms[j].name = n
Missing(i) == {n \in Uses(forms[i].name) : n # forms[i].name /\ ~DefinedBefore(i, n)}

(* Clojure can compile the file top to bottom: what a definition refers to *)
(* through the expressions the reachability pass walks is declared or      *)
(* defined above it, `main` excepted when it is suppressed.                *)
ResolvesInOrder ==
  \A i \in 1..Len(forms) :
    forms[i].op = "def" => Missing(i) \subseteq (IF suppressMain THEN {Main} ELSE {})

(* A constant is evaluated as the file loads: the functions it holds are   *)
(* defined by then and not only declared, or it would hold unbound vars.   *)
ConstantsHoldFunctions ==
  \A i \in 1..Len(forms) : forms[i].name \in constants =>
    \A n \in walked[forms[i].name] \ {Main} :
      \E j \in 1..i-1 : forms[j] = [op |-> "def", name |-> n]

(* The module's interface is complete: public functions and constants are  *)
(* each defined exactly once, but for a suppressed main.                   *)
InterfaceEmitted ==
  phase = "done" =>
    \A n \in public \cup constants :
      Suppressed(n) \/ \E i \in 1..Len(forms) : \A j \in 1..Len(forms) :
                          forms[j] = [op |-> "def", name |-> n] <=> j = i

(* Contradicted by the code: a function dropped as dead code is one that   *)
(* no definition written refers to, messages and guards included.          *)
DroppedIsDead ==
  phase = "done" =>
    \A i \in 1..Len(forms) : forms[i].op = "def" /\ forms[i].name \notin overridden =>
      \A n \in References(forms[i].name) : ~Dropped(n)
=============================================================================
