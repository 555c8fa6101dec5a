---------------------------- MODULE MCBitPattern ----------------------------
(* Patterns of up to three segments, distinct names, over subjects of up   *)
(* to three bytes: enough for a length, a payload of that length and a     *)
(* rest.  A byte has three values, so that sizes fit, fall short, exceed.  *)
EXTENDS BitPattern

NoSize == [kind |-> "none", n |-> 0, of |-> ""]
ConstSize(n) == [kind |-> "const", n |-> n, of |-> ""]
DynSize(of, n) == [kind |-> "dyn", n |-> n, of |-> of]
Segment(value, name, lit, size, unit) ==
  [value |-> value, name |-> name, lit |-> lit, size |-> size, unit |-> unit]

AnInt == {Segment("var", "n", <<>>, NoSize, "none")}
Literals == {Segment("int", "", <<1>>, NoSize, "none"),
             Segment("int", "", <<0, 1>>, ConstSize(16), "none"),
             Segment("string", "", <<1>>, NoSize, "none"),
             Segment("string", "", <<2, 0>>, NoSize, "none")}
Payloads == {Segment("var", "x", <<>>, DynSize("n", k), "bytes") : k \in {0, 1}}
            \cup {Segment("discard", "", <<>>, DynSize("n", 0), "bytes"),
                  Segment("var", "x", <<>>, ConstSize(2), "bytes"),
                  Segment("var", "w", <<>>, ConstSize(16), "none"),
                  Segment("var", "w", <<>>, ConstSize(2), "unit8"),
                  Segment("var", "x", <<>>, ConstSize(2), "bits"),
                  Segment("discard", "", <<>>, NoSize, "none")}
Rests == {Segment("var", "r", <<>>, NoSize, "bits"), Segment("discard", "", <<>>, NoSize, "bytes")}
Refusals == {Segment("var", "x", <<>>, ConstSize(12), "none"),
             Segment("var", "x", <<>>, DynSize("n", 0), "none"),
             Segment("int", "", <<1>>, ConstSize(1), "bytes")}
Compiled == AnInt \cup Literals \cup Payloads

UpTo3(last, others) ==
  {p \in {<<a>> : a \in last} \cup {<<a, b>> : a \in others, b \in last}
         \cup {<<a, b, c>> : a \in others, b \in others, c \in last} : Distinct(p)}

MCPatterns == UpTo3(Compiled \cup Rests, Compiled) \cup UpTo3(Refusals, AnInt) \cup UpTo3(AnInt, Rests)
MCBytes == 0..2
MCSubjects == BoundedSeq(MCBytes, 3)
MCOuter == {-1, 0, 1}
=============================================================================
