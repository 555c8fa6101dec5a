------------------------------ MODULE MCBranch ------------------------------
(* Small bodies under many cases, and many bodies under a few cases.  The  *)
(* variables in scope are x and y, which are also names of patterns; a     *)
(* field has the name of one of them, and nth ends with the name h.        *)
EXTENDS Branch

MCNames == {"x", "y", "z", "h", "v", "subject"}
MCEndings == {<<"nth", "h">>}
Leaf(t) == [tag |-> t, kids |-> <<>>]
Leaves == {Leaf("a"), Leaf("b")}
Record(t, l, r) == [tag |-> t, kids |-> <<l, r>>]
Records == {Record(t, Leaf("a"), r) : t \in {"P", "Q"}, r \in Leaves}
           \cup {Record("R", Leaf("a"), Record("P", Leaf("a"), Leaf("b")))}

Step(where, word) == [at |-> where, word |-> word]
Pat(test, tag, name, steps, kids) ==
  [test |-> test, tag |-> tag, name |-> name, steps |-> steps, kids |-> kids]
Var(name) == Pat("none", "", name, <<>>, <<>>)
Wild == Var("")
Lit == Pat("tag", "a", "", <<>>, <<>>)
Rec(tag, as, l, r) == Pat("tag", tag, as, <<Step(1, "left"), Step(2, "y")>>, <<l, r>>)
Pair(l, r) == Pat("none", "", "", <<Step(1, "nth"), Step(2, "nth")>>, <<l, r>>)
List(kids) == Pat("exactly", "", "", [k \in DOMAIN kids |-> Step(k, "nth")], kids)
ListRest(kids, rest) ==
  Pat("atLeast", "", "", [k \in 1..Len(kids)+1 |-> IF k > Len(kids) THEN Step(-Len(kids), "nthrest")
                                                    ELSE Step(k, "nth")], Append(kids, rest))

RECURSIVE NamesOf(_)
NamesOf(p) == FlattenSeq(<<IF p.name = "" THEN <<>> ELSE <<p.name>>>>
                         \o [k \in DOMAIN p.kids |-> NamesOf(p.kids[k])])
RowNames(row) == FlattenSeq([k \in DOMAIN row |-> NamesOf(row[k])])
Linear(row) == IsInjective(RowNames(row))

Parts == {Var("x"), Var("y"), Var("z"), Wild, Lit}
Wholes == {Rec("P", as, l, r) : as \in {"", "z"}, l \in Parts, r \in Parts}
          \cup {Pair(l, r) : l \in Parts, r \in {Var("x"), Var("y"), Wild}}
          \cup {Pair(Var("x"), Var("h")), Pair(Var("h"), Var("x")), Pair(Var("y"), Var("h"))}
          \cup {Rec("R", "", l, Pair(Var("y"), Var("z"))) : l \in {Var("x"), Wild}}
OneRows == {row \in {<<p>> : p \in Wholes} : Linear(row)}
TwoRows == {row \in {<<p, q>> : p \in Wholes \cup {Var("y"), Var("x"), Wild},
                                q \in {Var("x"), Rec("P", "", Var("x"), Lit), Rec("P", "", Var("z"), Wild),
                                       Pair(Var("y"), Var("x")), Pair(Wild, Var("x")), Wild}} : Linear(row)}

NoGuard == [on |-> "", tag |-> ""]
Clause(rows, guard, seen) ==
  [rows |-> rows, guard |-> guard, reads |-> seen \cup {"x", "y"}, seen |-> seen]
CatchAll(k) == Clause(<<[j \in 1..k |-> Wild]>>, NoGuard, {"x", "y"})
(* One clause that binds, guarded or not, or with an alternative.          *)
Clauses1(rows, more) ==
  {Clause(<<row>>, g, seen \cup more \cup ({"z", "h"} \cap ToSet(RowNames(row)))) :
     row \in rows, seen \in {{"x", "y"}, {"x"}, {"y"}},
     g \in {NoGuard} \cup {[on |-> name, tag |-> "a"] : name \in {"x", "y"} \cup more}}
Alternatives ==
  {Clause(<<<<Rec("P", "", l, Lit)>>, <<Rec("Q", "", Wild, r)>>>>, g, {"x", "y"}) :
     l \in {Wild, Lit}, r \in {Wild, Lit}, g \in {NoGuard, [on |-> "x", tag |-> "P"]}}
  \cup {Clause(<<<<Rec("P", "", Var("x"), Lit)>>, <<Rec("P", "", Lit, Var("x"))>>>>, g, {"x", "y"}) :
     g \in {NoGuard, [on |-> "x", tag |-> "b"], [on |-> "x", tag |-> "a"]}}

Subj(name, call) == [name |-> name, call |-> call]
OneSubject ==
  \E more \in {{}, {"subject"}}, c \in BOOLEAN :
    /\ subjects = <<Subj("x", c)>>
    /\ \/ \E d \in Clauses1(OneRows, more) \cup Alternatives : clauses = <<d, CatchAll(1)>>
       \/ \E d \in Clauses1({<<Rec("P", "", l, Lit)>> : l \in {Var("x"), Wild}}, more), e \in Alternatives :
            clauses = <<d, e, CatchAll(1)>>
       \/ \E l \in Parts \ {Lit}, r \in {Var("x"), Wild} :
            /\ Linear(<<Rec("P", "", l, r)>>)
            /\ clauses = <<Clause(<<<<Rec("P", "", l, r)>>>>, NoGuard, {"x", "y"}),
                           Clause(<<<<Rec("Q", "", r, l)>>>>, NoGuard, {"x", "y"})>>
    /\ \E x \in Records, y \in Leaves :
         /\ x.tag = "R" => Last(clauses) = CatchAll(1)
         /\ outer = [name \in {"x", "y"} \cup more |->
                      CASE name = "x" -> x [] name = "y" -> y [] OTHER -> Leaf("a")]
TwoSubjects ==
  /\ \E c, d \in {TRUE, FALSE} : subjects = <<Subj("x", c), Subj("y", d)>>
  /\ \E c \in Clauses1(TwoRows, {}) : clauses = <<c, CatchAll(2)>>
  /\ \E x, y \in {Record("P", Leaf("a"), Leaf("b")), Record("Q", Leaf("b"), Leaf("a"))} :
       outer = [name \in {"x", "y"} |-> IF name = "x" THEN x ELSE y]
Lists ==
  /\ subjects = <<Subj("x", FALSE)>>
  /\ clauses \in {<<Clause(<<<<ListRest(<<Var("y")>>, Var("x"))>>>>, g, {"x", "y"}),
                    Clause(<<<<List(<<>>)>>>>, NoGuard, {"y"})>> : g \in {NoGuard}}
                 \cup {<<Clause(<<<<List(k)>>>>, NoGuard, {"y", "x"}),
                         Clause(<<<<ListRest(<<Wild, Lit>>, Var("x"))>>>>, NoGuard, {"x"}), CatchAll(1)>> :
                       k \in {<<>>, <<Var("x")>>, <<Lit, Var("x")>>}}
  /\ \E l \in BoundedSeq(Leaves, 3) :
       outer = [name \in {"x", "y"} |-> IF name = "x" THEN [tag |-> "list", kids |-> l] ELSE Leaf("a")]

Stmt(kind, name) == [kind |-> kind, name |-> name]
Statements ==
  {Stmt("let", m) : m \in {"x", "v", "subject"}} \cup {Stmt("assert let", "x"), Stmt("assert let", "v"), Stmt("use", "x")}
  \cup {Stmt(k, "") : k \in {"literal", "test", "assert", "expr", "case"}}
Bodies(len) ==
  {b \in [1..len -> Statements \cup {Stmt("self", "")}] : b[len].kind # "use"}
AnyBody ==
  \/ /\ stmts \in Bodies(1) \cup Bodies(2) \cup Bodies(3)
     /\ params \in {{"x"}, {"x", "v", "subject"}}
     /\ inFunction \in BOOLEAN /\ tail \in BOOLEAN
  \/ /\ stmts \in Bodies(4) /\ params = {"v"} /\ inFunction = TRUE /\ tail = TRUE
TinyBody == stmts = <<Stmt("expr", "")>> /\ params = {} /\ inFunction = FALSE /\ tail = TRUE

NoCase == subjects = <<>> /\ clauses = <<>> /\ outer = [name \in {} |-> Nil]
TinyCase ==
  /\ inFunction = FALSE
  /\ subjects = <<Subj("x", FALSE)>> /\ outer = [name \in {"x"} |-> Record("P", Leaf("a"), Leaf("a"))]
  /\ \E name \in {"x", "v"} :
       clauses = <<[Clause(<<<<Rec("P", "", Var(name), Wild)>>>>, NoGuard, {name}) EXCEPT !.reads = {name}],
                   CatchAll(1)>>

MCInit == /\ \/ TinyBody /\ (OneSubject \/ TwoSubjects \/ Lists)
             \/ AnyBody /\ (NoCase \/ TinyCase)
          /\ Init
MCSpec == MCInit /\ [][Next]_vars
=============================================================================
