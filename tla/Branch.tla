------------------------------- MODULE Branch -------------------------------
(***************************************************************************)
(* A case expression with the body of the branch that is taken             *)
(* (emit_branch_body of emit.rs), or, without clauses, a body that stands  *)
(* in no case.                                                             *)
(***************************************************************************)
EXTENDS Body

CONSTANTS Nil, Endings

VARIABLES subjects, clauses, outer, subjs, core, n, branches, taken

caseVars == <<subjects, clauses, outer, subjs, core, n, branches, taken>>
vars == <<caseVars, prefix, bodyVars>>

C == INSTANCE Case

Init == C!Init /\ BodyInit /\ prefix = <<>>

Chosen == clauses = <<>> \/ taken \in DOMAIN branches
(* The names of the let around the body, in the order they are bound.      *)
Prefix == IF taken \in DOMAIN branches THEN [k \in DOMAIN C!Bound |-> C!Bound[k].name] ELSE <<>>
EmitCase == C!Step /\ prefix' = Prefix' /\ UNCHANGED bodyVars
EmitBody == Chosen /\ BodyStep /\ UNCHANGED <<caseVars, prefix>>

Next == EmitCase \/ EmitBody \/ (written /\ UNCHANGED vars)
Spec == Init /\ [][Next]_vars
-----------------------------------------------------------------------------
(* The branch that is taken is of the clause Gleam takes, unless the name  *)
(* of a subject's let hides a variable.                                    *)
SameClause ==
  taken # 0 /\ C!NoCapture => taken \in DOMAIN branches /\ branches[taken].clause = C!GleamClause

(* What its body reads has the value Gleam binds, when there is an order   *)
(* of the bindings that the code can find; but a name of the pattern that  *)
(* is read in a message, a guard or a size only is not bound at all.       *)
SameBindings ==
  taken # 0 /\ C!NoCapture /\ C!Orderable(C!Taken.used) =>
    \A name \in clauses[C!GleamClause].reads \ C!Lost : C!After[name] = C!GleamEnv[name]

(* Contradicted by the code: bindings that hide a variable come last.      *)
ShadowsComeLast == C!ShadowsComeLast
=============================================================================
