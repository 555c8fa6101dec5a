----------------------------- MODULE TypeBlocks -----------------------------
(***************************************************************************)
(* The custom types of a module, as emit_module writes them: each type     *)
(* becomes a block of predicates and a schema function that composes the   *)
(* schemas of its fields.  A same-module field type is composed by calling *)
(* its schema function, unless local_cycle finds that this could come back *)
(* to the type being emitted: then a predicate of the type stands in.      *)
(***************************************************************************)
EXTENDS Integers, Sequences, SequencesExt

CONSTANT Types   \* the module's custom types, declared in this order

(* Assumed of the constants where the module is used.                      *)
TypesAssumption == Types \in Seq(STRING) /\ IsInjective(Types)

TypeSet == ToSet(Types)

VARIABLES
  deps,         \* input: local_type_deps, the same-module types in the fields,
                \*   type arguments included
  single,       \* input: types of one variant, or with a variant of their name
  javaLang,     \* input: types whose name is one of java.lang's
  claimed,      \* input: types whose name is a variant of another type
  current,      \* index of the type whose block is being emitted
  fields,       \* field types of the current type still to be emitted
  target, seen, stack,   \* locals of local_cycle(current, target)
  calls, preds, \* <<a, b>>: the block of a calls b-schema, or names b's predicate
  forward,      \* names declared ahead of all blocks: <<"schema" or "pred", type>>
  phase

source == <<deps, single, javaLang, claimed>>
search == <<target, seen, stack>>
vars == <<source, current, fields, search, calls, preds, forward, phase>>

NoType == "no type"
From == Types[current]

Init ==
  /\ deps \in [TypeSet -> SUBSET TypeSet]
  /\ single \in SUBSET TypeSet /\ javaLang \in SUBSET TypeSet /\ claimed \in SUBSET TypeSet
  /\ current = 0 /\ fields = {}
  /\ target = NoType /\ seen = {} /\ stack = <<>>
  /\ calls = {} /\ preds = {} /\ forward = {}
  /\ phase = "block"

(* The next block starts; its predicates are written before any schema.    *)
Block ==
  /\ phase = "block" /\ fields = {} /\ current < Len(Types)
  /\ current' = current + 1
  /\ fields' = deps[Types[current + 1]]
  /\ UNCHANGED <<source, search, calls, preds, forward, phase>>

(* The predicate of b stands in; types that occur only in its arguments    *)
(* are not emitted.                                                        *)
Cut(b) == /\ preds' = preds \cup {<<From, b>>}
          /\ \E arguments \in SUBSET (fields \ {b}) :
               fields' = fields \ (arguments \cup {b})
          /\ phase' = "block"

(* Mutant of Field: only the type itself counts as a cycle.                *)
Field_SelfOnly ==
  /\ phase = "block"
  /\ \E b \in fields :
       \/ /\ b = From
          /\ Cut(b) /\ UNCHANGED calls
       \/ /\ b # From
          /\ calls' = calls \cup {<<From, b>>} /\ fields' = fields \ {b}
          /\ UNCHANGED <<preds, phase>>
  /\ UNCHANGED <<source, current, search, forward>>

(* local_cycle(from, target): true at once for the type itself, else a     *)
(* depth-first search of what target refers to.                            *)
Field ==
  /\ phase = "block"
  /\ \E b \in fields :
       \/ /\ b = From
          /\ Cut(b) /\ UNCHANGED search
       \/ /\ b # From
          /\ target' = b /\ seen' = {} /\ stack' = <<b>>
          /\ phase' = "search" /\ UNCHANGED <<preds, fields>>
  /\ UNCHANGED <<source, current, calls, forward>>

(* Mutant of Revisit: meeting a type twice is taken for a cycle.           *)
Revisit_IsCycle ==
  /\ phase = "search" /\ stack # <<>> /\ Last(stack) \in seen
  /\ Cut(target)
  /\ target' = NoType /\ seen' = {} /\ stack' = <<>>
  /\ UNCHANGED <<source, current, calls, forward>>

(* A type popped again is skipped.                                         *)
Revisit ==
  /\ phase = "search" /\ stack # <<>> /\ Last(stack) \in seen
  /\ stack' = Front(stack)
  /\ UNCHANGED <<source, current, fields, target, seen, calls, preds, forward, phase>>

(* A type seen for the first time: its references are pushed in any order, *)
(* or the search ends on finding `from` among them.                        *)
Expand ==
  /\ phase = "search" /\ stack # <<>> /\ Last(stack) \notin seen
  /\ seen' = seen \cup {Last(stack)}
  /\ From \notin deps[Last(stack)]
  /\ \E order \in SetToSeqs(deps[Last(stack)]) : stack' = Front(stack) \o order
  /\ UNCHANGED <<source, current, fields, target, calls, preds, forward, phase>>

CycleFound ==
  /\ phase = "search" /\ stack # <<>> /\ Last(stack) \notin seen
  /\ From \in deps[Last(stack)]
  /\ Cut(target)
  /\ target' = NoType /\ seen' = {} /\ stack' = <<>>
  /\ UNCHANGED <<source, current, calls, forward>>

NoCycle ==
  /\ phase = "search" /\ stack = <<>>
  /\ calls' = calls \cup {<<From, target>>}
  /\ fields' = fields \ {target}
  /\ phase' = "block" /\ target' = NoType /\ seen' = {}
  /\ UNCHANGED <<source, current, stack, preds, forward>>

(* type_pred_schema: the variants' predicates, else the marker interface   *)
(* of a java.lang name, else the type's own predicate `<Type>?`.           *)
Test(t) == IF t \in single THEN "variants" ELSE IF t \in javaLang THEN "class" ELSE "type"

(* The names of a type that an earlier type's block refers to: variables   *)
(* only, and `<Type>?` only if it is the type's.                           *)
Declarable(t) == Test(t) = "variants" \/ (Test(t) = "type" /\ t \notin claimed)
Position(t) == CHOOSE i \in 1..Len(Types) : Types[i] = t
Early(edges) == {e[2] : e \in {d \in edges : Position(d[1]) < Position(d[2])}}

(* Mutant of Forward: only the schema functions are declared ahead.        *)
Forward_SchemasOnly ==
  /\ phase = "block" /\ fields = {} /\ current = Len(Types)
  /\ forward' = {<<"schema", t>> : t \in Early(calls)}
  /\ phase' = "done"
  /\ UNCHANGED <<source, current, fields, search, calls, preds>>

Forward ==
  /\ phase = "block" /\ fields = {} /\ current = Len(Types)
  /\ forward' = {<<"schema", t>> : t \in Early(calls)}
                 \cup {<<"pred", t>> : t \in {u \in Early(preds) : Declarable(u)}}
  /\ phase' = "done"
  /\ UNCHANGED <<source, current, fields, search, calls, preds>>

Step == Block \/ Field \/ Revisit \/ Expand \/ CycleFound \/ NoCycle \/ Forward
Next == Step \/ (phase = "done" /\ UNCHANGED vars)
Spec == Init /\ [][Next]_vars
-----------------------------------------------------------------------------
TypeOK ==
  /\ deps \in [TypeSet -> SUBSET TypeSet]
  /\ single \cup javaLang \cup claimed \subseteq TypeSet
  /\ current \in 0..Len(Types) /\ fields \subseteq TypeSet
  /\ target \in TypeSet \cup {NoType} /\ seen \subseteq TypeSet /\ stack \in Seq(TypeSet)
  /\ calls \subseteq TypeSet \X TypeSet /\ preds \subseteq TypeSet \X TypeSet
  /\ forward \subseteq {"schema", "pred"} \X TypeSet
  /\ phase \in {"block", "search", "done"}

(* Building a schema terminates: no set of types has schema functions that *)
(* all call one another's.                                                 *)
SchemaBuildEnds ==
  \A S \in SUBSET TypeSet :
    S # {} => \E a \in S : \A b \in S : <<a, b>> \notin calls

Closed(S) == \A t \in S : deps[t] \subseteq S
Reaches(a, b) == \A S \in SUBSET TypeSet : a \in S /\ Closed(S) => b \in S

(* A field is reduced to its type's predicate only where calling the       *)
(* schema function could come back: all other payloads stay checked.       *)
CutsOnlyCycles == \A e \in preds : Reaches(e[2], e[1])

(* Every same-module function a block refers to is defined above it, or in *)
(* it, or declared ahead of the blocks.                                    *)
NamesResolve ==
  phase = "done" =>
    /\ \A e \in calls : Position(e[2]) < Position(e[1]) \/ <<"schema", e[2]>> \in forward
    /\ \A e \in preds : Declarable(e[2]) =>
         Position(e[2]) <= Position(e[1]) \/ <<"pred", e[2]>> \in forward
=============================================================================
