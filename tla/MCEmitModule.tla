---------------------------- MODULE MCEmitModule ----------------------------
(* Every graph of references between three types with fixed definitions,   *)
(* and every graph between three definitions with a fixed pair of types.   *)
EXTENDS EmitModule

MCTypes == <<"A", "B", "C">>

Groupings ==
  {<<<<a>>, <<b>>, <<c>>>> : a, b, c \in Names} \cup {<<<<a, b>>, <<c>>>> : a, b, c \in Names}
  \cup {<<<<a>>, <<b, c>>>> : a, b, c \in Names} \cup {<<<<a, b, c>>>> : a, b, c \in Names}

(* Two types that refer to each other, one of them with an unusual name.   *)
Odd == /\ deps \in {[t \in {"A", "B", "C"} |-> CASE t = a -> {b} [] t = b -> {a} [] OTHER -> {}]
                      : a, b \in {"A", "B", "C"}}
       /\ \E t \in {"A", "B", "C"} :
            /\ single \in {{}, {t}}
            /\ javaLang \in {{}, {t}}
            /\ claimed \in {{}, {t} \ javaLang}

Quiet == [n \in Names |-> {}]
Plain == single = {} /\ javaLang = {} /\ claimed = {}
OneType == Plain /\ deps = [t \in {"A", "B", "C"} |-> {}]
NoCalls == walked = Quiet /\ unwalked = Quiet /\ constants = {} /\ public = {Main}
           /\ overridden = {} /\ suppressMain = FALSE
           /\ groups = <<<<"f">>, <<"g">>, <<Main>>>>

(* f may refer to g in a guard or message; g may be a constant.            *)
Calls ==
  /\ walked \in {w \in [Names -> SUBSET Names] : \A n \in Names \ {"f"} : n \notin w[n]}
  /\ unwalked \in {[n \in Names |-> IF n = "f" THEN S ELSE {}] : S \in {{}, {"g"}}}
  /\ groups \in {x \in Groupings : IsInjective(FlattenSeq(x))}
  /\ D!IsDependencyOrder
  /\ constants \in {{}, {"g"}} /\ public \in {{Main}, {Main, "f"}}

MCInit == /\ deps \in [{"A", "B", "C"} -> SUBSET {"A", "B", "C"}]
          /\ \/ OneType /\ Calls
             \/ NoCalls /\ Plain
             \/ NoCalls /\ Odd
          /\ Init
MCSpec == MCInit /\ [][Next]_vars /\ WF_vars(EmitTypes \/ EmitDefinitions)
=============================================================================
