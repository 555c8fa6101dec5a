------------------------------ MODULE MCGather ------------------------------
(* A project m with an optional test t (or a second m), a library module   *)
(* s, and two packages that both have d; gleeunit and e are in one each,   *)
(* and x is in no root.  Each file imports any of what it is offered.      *)
EXTENDS Gather

Offered ==
  [f \in FileSet |->
     CASE f[1] = "src" -> {"m", "d", "gleeunit"}
       [] f[1] = "test" -> {"m", "s", "gleeunit"}
       [] f = <<"p1", "d">> -> {"e", "s"}
       [] f = <<"p2", "d">> -> {"x"}
       [] f[2] = "e" -> {"d", "x"}
       [] f[2] = "gleeunit" -> {"e"}
       [] OTHER -> {}]   \* the library imports nothing outside itself

Trees == {{<<"stdlib", "s">>, <<"src", "m">>, <<"p1", "d">>, <<"p1", "e">>,
           <<"p2", "d">>, <<"p2", "gleeunit">>} \cup t :
            t \in {{<<"test", "t">>}, {<<"test", "m">>}}}
Edges(t) == {<<f, m>> \in t \X Modules : m \in Offered[f]}

MCInit ==
  \E t \in Trees : \E edges \in SUBSET Edges(t) :
    /\ tree = t
    /\ imports = [f \in t |-> {m \in Modules : <<f, m>> \in edges}]
    /\ malformed \in {{}, {<<"p1", "e">>}}
    /\ emitStdlib \in (IF edges = {} THEN BOOLEAN ELSE {FALSE})
    /\ depRoots \in SetToSeqs(Packages)
    /\ \E std \in SetToSeqs(Listed("stdlib", emitStdlib)), own \in SetToSeqs(Project) :
         files = std \o own
    /\ seen = {f.module : f \in ToSet(files)}
    /\ queue = [k \in 1..Len(files) |-> files[k].file]
    /\ phase = "gather"
MCSpec == MCInit /\ [][Next]_vars /\ WF_vars(Step)
=============================================================================
