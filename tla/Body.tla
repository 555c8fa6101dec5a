-------------------------------- MODULE Body --------------------------------
(***************************************************************************)
(* emit_body of emit.rs turns a list of statements into forms.  A text is  *)
(* a sequence of tokens: a let or a with-use that opens, what is evaluated *)
(* between, and closing parentheses.  merged_let works on the text: it     *)
(* looks at how it begins, not at what form it is part of.                 *)
(*                                                                         *)
(* Each statement is supposed to read every variable Gleam has in scope.   *)
(***************************************************************************)
EXTENDS Integers, Sequences, SequencesExt, TLC

CONSTANT Names   \* of variables; "v" and "subject" are also made up by the emitter

VARIABLES
  prefix,        \* names the surrounding branch binds
  stmts, params, inFunction, tail,   \* input; tail: calls of the function itself recur
  at, text,      \* the statements after this one are written
  written        \* the surrounding form is too

bodyInput == <<stmts, params, inFunction, tail>>
bodyVars == <<bodyInput, at, text, written>>

ASSUME NamesAssumption == {"v", "subject"} \subseteq Names

(* Where a value comes from: a statement, the pattern of the branch, or a  *)
(* parameter; minus a statement stands for its temporary.                  *)
Given == Len(stmts) + 1
Param == 0
Unbound == -Len(stmts) - 1

Let(binds) == [form |-> "let", binds |-> binds]
Use(binds) == [form |-> "use", binds |-> binds]
Do == [form |-> "do", binds |-> <<>>]
Close == [form |-> "close", binds |-> <<>>]
Eval(k, part) == [form |-> part, binds |-> <<k>>]
Opening == {"let", "use", "do"}

(* A binding of a let or a parameter of a use: the name, the statement it  *)
(* comes from, and whether it is the value, a temporary or read from one.  *)
Binding(name, k, what) == [name |-> name, of |-> k, what |-> what]

(* Mutant of MergedLet: the inner bindings come first.                     *)
MergedLet_InnerFirst(binds, inner) ==
  IF inner # <<>> /\ Head(inner).form = "let"
    THEN <<Let(Head(inner).binds \o binds)>> \o Tail(inner)
    ELSE <<Let(binds)>> \o inner \o <<Close>>

(* The bindings are spliced in front of those of the text's first let; its *)
(* closing parenthesis then closes the merged one.                         *)
MergedLet(binds, inner) ==
  IF inner # <<>> /\ Head(inner).form = "let"
    THEN <<Let(binds \o Head(inner).binds)>> \o Tail(inner)
    ELSE <<Let(binds)>> \o inner \o <<Close>>

Kinds == {"let", "literal", "test", "assert let", "assert", "expr", "case", "self", "use"}
Binds(k) == stmts[k].kind \in {"let", "assert let", "use"}
BodyInit ==
  /\ stmts \in Seq([kind : Kinds, name : STRING]) \ {<<>>}
  /\ \A k \in DOMAIN stmts : Binds(k) => stmts[k].name \in Names
  /\ at = Len(stmts) /\ text = <<>> /\ written = FALSE

(* The recursion of emit_body, from the last statement to the first.       *)
AtEnd == at = Len(stmts)
Rest(ifNone) == IF AtEnd THEN <<Eval(0, ifNone)>> ELSE text
Following == IF AtEnd THEN <<>> ELSE text
Statement(kind) ==
  /\ at > 0 /\ stmts[at].kind = kind /\ at' = at - 1
  /\ UNCHANGED <<bodyInput, written>>

AssignLet ==
  /\ Statement("let")
  /\ text' = MergedLet(<<Binding(stmts[at].name, at, "value")>>, Rest("nil"))

LiteralAssert == Statement("literal") /\ text' = <<Eval(at, "value")>> \o Following

(* Nothing bound: a let of its own, and what follows stands beside it.     *)
TestAssert ==
  /\ Statement("test")
  /\ text' = <<Let(<<Binding("v", at, "temp")>>), Eval(at, "check"), Close>> \o Following

(* What the pattern binds is read from v, in a let inside the let of v.    *)
BindingAssert ==
  /\ Statement("assert let")
  /\ text' = <<Let(<<Binding("v", at, "temp")>>), Eval(at, "check")>>
             \o MergedLet(<<Binding(stmts[at].name, at, "part")>>, Rest("v")) \o <<Close>>

BoolAssert == Statement("assert") /\ text' = <<Eval(at, "value")>> \o Following
Expression == Statement("expr") /\ text' = <<Eval(at, "value")>> \o Following

(* A case whose subject is a call: (let [subject (f ...)] ...).            *)
CaseExpression ==
  /\ Statement("case")
  /\ text' = <<Let(<<Binding("subject", at, "temp")>>), Eval(at, "value"), Close>> \o Following

(* Mutant of Recurs: the callback of a use is taken for the function.      *)
Recurs_InCallbacks == tail /\ AtEnd

(* Only the last statement is in tail position, and emit_use passes no     *)
(* tail on to the callback.                                                *)
Recurs == tail /\ AtEnd /\ \A k \in 1..at : stmts[k].kind # "use"
SelfCall ==
  /\ Statement("self")
  /\ text' = <<Eval(at, IF Recurs THEN "recur" ELSE "value")>> \o Following

(* A callback that is one use again joins the pairs of this one.           *)
UseCall ==
  /\ Statement("use")
  /\ LET pair == Binding(stmts[at].name, at, "value") IN
       text' = IF text # <<>> /\ Head(text).form = "use"
                 THEN <<Use(<<pair>> \o Head(text).binds)>> \o Tail(text)
                 ELSE <<Use(<<pair>>)>> \o text \o <<Close>>

(* Mutant of Surround: a block is never put into a do.                     *)
Surround_NoDo ==
  /\ at = 0 /\ ~written
  /\ text' = IF inFunction \/ prefix = <<>> THEN text
             ELSE MergedLet([k \in DOMAIN prefix |-> Binding(prefix[k], Given, "given")], text)
  /\ written' = TRUE
  /\ UNCHANGED <<bodyInput, at>>

(* A function takes any number of forms.  A branch takes one: what it      *)
(* binds is a let around the body; a block without is put into a do unless *)
(* its text begins with a let or a with-use.                               *)
Surround ==
  /\ at = 0 /\ ~written
  /\ text' = IF inFunction THEN text
             ELSE IF prefix # <<>> THEN
               MergedLet([k \in DOMAIN prefix |-> Binding(prefix[k], Given, "given")], text)
             ELSE IF Len(stmts) = 1 \/ Head(text).form \in {"let", "use"} THEN text
             ELSE <<Do>> \o text \o <<Close>>
  /\ written' = TRUE
  /\ UNCHANGED <<bodyInput, at>>

BodyStep ==
  \/ AssignLet \/ LiteralAssert \/ TestAssert \/ BindingAssert \/ BoolAssert
  \/ Expression \/ CaseExpression \/ SelfCall \/ UseCall \/ Surround
(* A body on its own: of a function, or of a branch that binds the same    *)
(* names throughout.                                                       *)
BodySpec ==
  /\ BodyInit /\ prefix \in Seq(Names) /\ (inFunction => prefix = <<>>)
  /\ [][BodyStep /\ UNCHANGED prefix]_<<prefix, bodyVars>>
-----------------------------------------------------------------------------
(* What Clojure makes of the text: the variables each evaluation sees.     *)
Event(k, part, env) == [of |-> k, part |-> IF part = "recur" THEN "value" ELSE part, env |-> env]
RunBinding(st, b) ==
  [env |-> [st.env EXCEPT ![b.name] =
              IF b.what = "part" THEN -st.env["v"] ELSE IF b.what = "temp" THEN -b.of ELSE b.of],
   trace |-> IF b.what \in {"value", "temp"}
               THEN Append(st.trace, Event(b.of, b.what, st.env)) ELSE st.trace]
RunBindings(st, binds) ==
  LET after[m \in 0..Len(binds)] == IF m = 0 THEN st ELSE RunBinding(after[m - 1], binds[m])
  IN after[Len(binds)]
RunToken(st, t) ==
  IF t.form \in Opening THEN
    LET inner == RunBindings([env |-> Last(st.envs), trace |-> st.trace], t.binds)
    IN [envs |-> Append(st.envs, inner.env), trace |-> inner.trace]
  ELSE IF t.form = "close" THEN [envs |-> Front(st.envs), trace |-> st.trace]
  ELSE IF t.form \in {"nil", "v"} THEN st
  ELSE [envs |-> st.envs, trace |-> Append(st.trace, Event(t.binds[1], t.form, Last(st.envs)))]
Around == [name \in Names |-> IF name \in params THEN Param ELSE Unbound]
Trace ==
  LET after[m \in 0..Len(text)] ==
        IF m = 0 THEN [envs |-> <<Around>>, trace |-> <<>>] ELSE RunToken(after[m - 1], text[m])
  IN after[Len(text)].trace

(* What Gleam says: each statement sees what stands above it.              *)
Scope(k) ==
  LET start == [name \in Names |-> IF name \in ToSet(prefix) THEN Given ELSE Around[name]]
      after[m \in 0..Len(stmts)] ==
        IF m = 0 THEN start
        ELSE IF Binds(m) THEN [after[m - 1] EXCEPT ![stmts[m].name] = m] ELSE after[m - 1]
  IN after[k - 1]
PartsOf(kind) ==
  IF kind \in {"test", "assert let"} THEN <<"temp", "check">>
  ELSE IF kind = "case" THEN <<"temp", "value">> ELSE <<"value">>
Seen(k) ==
  [p \in DOMAIN PartsOf(stmts[k].kind) |-> Event(k, PartsOf(stmts[k].kind)[p], Scope(k))]
GleamFrom(k) ==
  LET from[m \in 1..Len(stmts)+1] ==
        IF m = Len(stmts) + 1 THEN <<>> ELSE Seen(m) \o from[m + 1]
  IN from[k]

(* A statement whose text is a let that ends before the body does.         *)
ShortLet(k) == k < Len(stmts) /\ stmts[k].kind \in {"test", "case"}
Spliced ==
  \/ prefix # <<>> /\ ShortLet(1)
  \/ \E k \in 1..Len(stmts)-1 : stmts[k].kind \in {"let", "assert let"} /\ ShortLet(k + 1)
Captured ==
  \E k \in DOMAIN stmts :
    \/ stmts[k].kind \in {"test", "assert let"} /\ Scope(k)["v"] # Unbound
    \/ stmts[k].kind = "case" /\ Scope(k)["subject"] # Unbound

Turn(t) == IF t.form \in Opening THEN 1 ELSE IF t.form = "close" THEN -1 ELSE 0
Depth(k) ==
  LET after[m \in 0..Len(text)] == IF m = 0 THEN 0 ELSE after[m - 1] + Turn(text[m])
  IN after[k - 1]
Forms == Cardinality({k \in DOMAIN text : Depth(k) = 0 /\ text[k].form # "close"})

SameEvent(got, want) ==
  /\ got.of = want.of /\ got.part = want.part
  /\ \A name \in Names : want.env[name] # Unbound => got.env[name] = want.env[name]
Alike(got, want) == Len(got) = Len(want) /\ \A k \in 1..Len(want) : SameEvent(got[k], want[k])
(* What the text ends with, closing parentheses aside.                     *)
Yields(k, form) ==
  \E m \in DOMAIN text :
    /\ text[m].form = form /\ text[m].binds = <<k>>
    /\ \A l \in m+1..Len(text) : text[l].form = "close"

(* Evaluation goes through the statements in order, each seeing the values *)
(* Gleam says, and yields the last one's, which a let, a use or a test     *)
(* alone does not have; unless a let was spliced or a made up name hides a *)
(* variable.                                                               *)
RunsLikeGleam ==
  written /\ ~Spliced /\ ~Captured =>
    /\ Alike(Trace, GleamFrom(1))
    /\ LET last == stmts[Len(stmts)].kind IN
         /\ last = "assert let" => Yields(0, "v")
         /\ last \notin {"let", "test", "use", "assert let"} =>
              Yields(Len(stmts), "value") \/ Yields(Len(stmts), "recur")

(* The body of a branch is one form of its if or cond, unless a let was    *)
(* spliced or the first statement's let is taken for the whole body.       *)
OneForm ==
  written /\ ~inFunction /\ ~Spliced /\ ~ShortLet(1) => Forms = 1

(* A recur is the last thing its function does, in no callback.            *)
RecurInTail ==
  \A k \in DOMAIN text : text[k].form = "recur" =>
    /\ \A l \in k+1..Len(text) : text[l].form = "close"
    /\ \A l \in 1..k-1 : text[l].form = "use" => \E m \in l+1..k-1 : Depth(m + 1) = Depth(l)

(* Contradicted by the code: merging only spares a nested let, so that the *)
(* let a body begins with still holds the statements after it.             *)
LetHoldsItsBody ==
  written /\ inFunction /\ stmts[1].kind = "let" => Forms = 1
=============================================================================
