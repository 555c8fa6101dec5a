-------------------------------- MODULE Case --------------------------------
(***************************************************************************)
(* emit_case of emit.rs: a case expression becomes lets for its subjects,  *)
(* a test per clause and a let for what the clause binds.  Accessors are   *)
(* texts over variable names; what they yield depends on the let they      *)
(* stand in.  Tests are modelled by their value on the chosen subjects.    *)
(***************************************************************************)
EXTENDS Integers, Sequences, SequencesExt, TLC

CONSTANTS Nil,      \* what an accessor yields where there is nothing
          Endings   \* pairs of a word and a name, shorter, that it ends with

(* A subject is a variable or, with call, the text (f name), f being the   *)
(* identity.  A clause has rows of patterns, one row per alternative, a    *)
(* guard on a variable, and the variables its body reads: seen are those   *)
(* that visit_exprs finds, which looks into no message, guard or size.     *)
VARIABLES
  subjects, clauses, outer,   \* input; outer: values of the variables in scope
  subjs, core,                \* names of the subjects; variables under subj_lets
  n, branches,                \* clauses translated so far, and to what
  taken                       \* the branch that is evaluated

caseInput == <<subjects, clauses, outer>>
caseVars == <<caseInput, subjs, core, n, branches, taken>>

(* An accessor: the variable at its root and the steps down from it.  Each *)
(* step has the word it is written with, a field or a function.            *)
Child(v, s) ==
  IF v = Nil \/ s.at > Len(v.kids) THEN Nil
  ELSE IF s.at > 0 THEN v.kids[s.at]
  ELSE [v EXCEPT !.kids = SubSeq(@, 1 - s.at, Len(@))]
Get(env, acc) == FoldLeft(Child, env[acc.root], acc.path)

Holds(p, v) ==
  \/ p.test = "none"
  \/ v # Nil /\ CASE p.test = "tag" -> v.tag = p.tag
                   [] p.test = "exactly" -> Len(v.kids) = Len(p.kids)
                   [] p.test = "atLeast" -> Len(v.kids) >= Len(p.kids) - 1
                   [] OTHER -> FALSE

Both(a, b) == [tests |-> a.tests \o b.tests, binds |-> a.binds \o b.binds]
(* A name (variable or `as`) is bound before the parts are looked at.      *)
RECURSIVE Cond(_, _)
Cond(p, acc) ==
  FoldLeft(Both,
    [tests |-> IF p.test = "none" THEN <<>> ELSE <<Holds(p, Get(core, acc))>>,
     binds |-> IF p.name = "" THEN <<>> ELSE <<[name |-> p.name, acc |-> acc]>>],
    [k \in DOMAIN p.kids |-> Cond(p.kids[k], [acc EXCEPT !.path = Append(@, p.steps[k])])])
Row(patterns) ==
  FoldLeft(Both, [tests |-> <<>>, binds |-> <<>>],
    [k \in DOMAIN patterns |-> Cond(patterns[k], [root |-> subjs[k], path |-> <<>>])])

Init ==
  /\ subjs = <<>> /\ core = outer /\ n = 0 /\ branches = <<>> /\ taken = 0

Bind(name, v, env) == (name :> v) @@ env
Temp(k) == IF Len(subjects) = 1 THEN "subject" ELSE <<"s0", "s1">>[k]

(* A text with a space in it gets a name; a variable stands for itself.    *)
Subject ==
  /\ Len(subjs) < Len(subjects)
  /\ LET k == Len(subjs) + 1  s == subjects[k] IN
       IF s.call
         THEN subjs' = Append(subjs, Temp(k)) /\ core' = Bind(Temp(k), core[s.name], core)
         ELSE subjs' = Append(subjs, s.name) /\ UNCHANGED core
  /\ UNCHANGED <<caseInput, n, branches, taken>>

AllTrue(tests) == \A k \in DOMAIN tests : tests[k]

(* Mutant of GuardTest: the guard reads the name, which is not bound yet.  *)
GuardTest_NotInlined(g, binds) ==
  g.on = "" \/ (g.on \in DOMAIN core /\ core[g.on] # Nil /\ core[g.on].tag = g.tag)

(* The guard is tested before anything is bound: what the pattern binds is *)
(* replaced by its accessor.                                               *)
GuardTest(g, binds) ==
  LET bound == {b \in ToSet(binds) : b.name = g.on}
      v == IF bound # {} THEN Get(core, (CHOOSE b \in bound : TRUE).acc) ELSE core[g.on]
  IN g.on = "" \/ (v # Nil /\ v.tag = g.tag)

(* Alternatives that bind nothing are joined by `or`, others get a branch  *)
(* each; of the bindings those are kept that the body is seen to use.      *)
BranchesOf(c) ==
  LET expanded == [k \in DOMAIN c.rows |-> Row(c.rows[k])]
      test == [k \in DOMAIN expanded |-> AllTrue(expanded[k].tests)]
      joined == Len(expanded) > 1 /\ \A k \in DOMAIN expanded : expanded[k].binds = <<>>
  IN IF joined
       THEN <<[test |-> (\E k \in DOMAIN test : test[k]) /\ GuardTest(c.guard, <<>>),
               used |-> <<>>, clause |-> n + 1]>>
       ELSE [k \in DOMAIN expanded |->
              [test |-> test[k] /\ GuardTest(c.guard, expanded[k].binds),
               used |-> SelectSeq(expanded[k].binds, LAMBDA b : b.name \in c.seen),
               clause |-> n + 1]]

EmitClause ==
  /\ Len(subjs) = Len(subjects) /\ n < Len(clauses)
  /\ branches' = branches \o BranchesOf(clauses[n + 1])
  /\ n' = n + 1
  /\ UNCHANGED <<caseInput, subjs, core, taken>>

(* Two branches become an `if`, which does not test the second; any other  *)
(* number becomes a `cond`.                                                *)
Take ==
  /\ n = Len(clauses) /\ n > 0 /\ taken = 0
  /\ LET open == {k \in DOMAIN branches : branches[k].test}
         all == DOMAIN branches
     IN taken' = IF Len(branches) = 2 THEN (IF branches[1].test THEN 1 ELSE 2)
                 ELSE IF open = {} THEN Len(branches) + 1
                 ELSE CHOOSE k \in open : \A l \in open : k <= l
  /\ UNCHANGED <<caseInput, subjs, core, n, branches>>

Step == Subject \/ EmitClause \/ Take

(* The text of a longer accessor contains "name " or "name)" for its root  *)
(* and for every word in it that ends with the name, as nth ends with h; a *)
(* bare one has neither.                                                   *)
EndsWith(word, name) == word = name \/ <<word, name>> \in Endings
Mentions(acc, name) ==
  acc.path # <<>> /\ \E word \in {acc.root} \cup {s.word : s \in ToSet(acc.path)} : EndsWith(word, name)

(* Mutant of OrderBinds: bindings stay in the order of the pattern.        *)
OrderBinds_AsWritten(binds) == binds

OrderBinds(binds) ==
  LET last(b) == \E o \in ToSet(binds) : o.name # b.name /\ Mentions(o.acc, b.name)
      first(b) == ~last(b)
  IN SelectSeq(binds, first) \o SelectSeq(binds, last)

(* The branch that was taken: the clause it comes from and its let.        *)
Taken == branches[taken]
Bound == OrderBinds(Taken.used)
After == FoldLeft(LAMBDA env, b : Bind(b.name, Get(env, b.acc), env), core, Bound)
-----------------------------------------------------------------------------
(* Gleam: the first clause with a row that matches the values of the       *)
(* subjects and whose guard holds; a row binds all its names at once.      *)
RECURSIVE Match(_, _)
Match(p, v) ==
  LET at(k) == Child(v, p.steps[k])
      none == [name \in {} |-> Nil]
      parts == FoldLeft(LAMBDA env, k : Match(p.kids[k], at(k)) @@ env, none,
                        [k \in DOMAIN p.kids |-> k])
  IN IF p.name = "" THEN parts ELSE Bind(p.name, v, parts)
RECURSIVE Fits(_, _)
Fits(p, v) == Holds(p, v) /\ \A k \in DOMAIN p.kids : Fits(p.kids[k], Child(v, p.steps[k]))

Value(k) == outer[subjects[k].name]
Given(row) ==
  FoldLeft(LAMBDA env, k : Match(row[k], Value(k)) @@ env, [name \in {} |-> Nil], [k \in DOMAIN row |-> k])
Env(row) == Given(row) @@ outer
Accepts(c, row) ==
  /\ \A k \in DOMAIN row : Fits(row[k], Value(k))
  /\ c.guard.on = "" \/ Env(row)[c.guard.on].tag = c.guard.tag
Matching(c) == {k \in DOMAIN c.rows : Accepts(c, c.rows[k])}
Least(S) == CHOOSE k \in S : \A l \in S : k <= l
GleamClause == Least({m \in DOMAIN clauses : Matching(clauses[m]) # {}})
GleamRow == LET c == clauses[GleamClause] IN c.rows[Least(Matching(c))]
GleamEnv == Env(GleamRow)
(* A name of the pattern that the body is not seen to read is not bound.   *)
Lost == DOMAIN Given(GleamRow) \ clauses[GleamClause].seen

(* The names the emitter makes up are those of no variable in scope.       *)
Temps == {Temp(k) : k \in {l \in DOMAIN subjects : subjects[l].call}}
NoCapture == Temps \cap DOMAIN outer = {}

(* A binding hides a variable that a later accessor was to read.           *)
Hides(b, o) == o.acc.root = b.name
ShadowsComeLast ==
  taken \in DOMAIN branches =>
    \A k \in DOMAIN Bound : \A l \in k+1..Len(Bound) : ~Hides(Bound[k], Bound[l])

(* When the order is found: no name is both bound and read, or only one    *)
(* is, a bare read of it stands before, and an accessor that mentions a    *)
(* name reads it.                                                          *)
Orderable(binds) ==
  LET hiding == {k \in DOMAIN binds : \E l \in DOMAIN binds \ {k} : Hides(binds[k], binds[l])}
  IN \A k \in hiding :
       /\ hiding = {k}
       /\ \A l \in k+1..Len(binds) : Hides(binds[k], binds[l]) => binds[l].acc.path # <<>>
       /\ \A l \in DOMAIN binds : \A m \in DOMAIN binds \ {l} :
            Mentions(binds[m].acc, binds[l].name) => Hides(binds[l], binds[m])
=============================================================================
