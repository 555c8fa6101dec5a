----------------------------- MODULE BitPattern -----------------------------
(***************************************************************************)
(* bit_array_pattern of emit.rs compiles a bit-array pattern to tests and  *)
(* bindings over the vector of bytes that represents the subject.  Code    *)
(* that is emitted is modelled by its value on that subject: Crash stands  *)
(* for an index out of bounds, raised only if evaluation gets to it.       *)
(***************************************************************************)
EXTENDS Integers, Sequences, SequencesExt

CONSTANTS Patterns,  \* sequences of segments
          Subjects,  \* sequences of bytes
          Outer,     \* values of the size variables the pattern does not bind
          Base,      \* number of values of a byte
          Crash

(* A segment: what stands in it (a literal of some bytes, a string, a      *)
(* variable or a discard), its size(...) option and its unit.              *)
VARIABLES
  pattern, subject, outer,   \* input
  i, constOff, dynOff, hasRest, segTests, binds,   \* locals of the loop
  outcome

input == <<pattern, subject, outer>>
vars == <<input, i, constOff, dynOff, hasRest, segTests, binds, outcome>>

Byte == 0..Base-1
Count == Len(subject)
Seg == pattern[i]
Number(bytes) ==
  LET upTo[k \in 0..Len(bytes)] == IF k = 0 THEN 0 ELSE upTo[k - 1] * Base + bytes[k]
  IN upTo[Len(bytes)]
Plus(a, b) == IF a = Crash \/ b = Crash THEN Crash ELSE a + b
SumOf(sizes) ==
  LET upTo[k \in 0..Len(sizes)] == IF k = 0 THEN 0 ELSE Plus(upTo[k - 1], sizes[k])
  IN upTo[Len(sizes)]

Init ==
  /\ pattern \in Patterns /\ subject \in Subjects /\ outer \in Outer
  /\ i = 1 /\ constOff = 0 /\ dynOff = <<>> /\ hasRest = FALSE
  /\ segTests = <<>> /\ binds = <<>> /\ outcome = "compiling"

(* What the emitted accessors yield: (nth v off), (p/ba-uint v off n),     *)
(* (subvec v off end) and (p/ba-seg= v off lit).                           *)
Inside(off, n) == off # Crash /\ off >= 0 /\ n >= 0 /\ off + n <= Count
Bytes(off, n) == SubSeq(subject, off + 1, off + n)
UInt(off, n) == IF Inside(off, n) THEN <<"int", Bytes(off, n)>> ELSE Crash
SubVec(off, end) ==
  IF end # Crash /\ off # Crash /\ Inside(off, end - off)
    THEN <<"bytes", Bytes(off, end - off)>> ELSE Crash
SegEq(off, lit) ==
  IF off = Crash THEN Crash
  ELSE IF off + Len(lit) > Count THEN FALSE
  ELSE IF off < 0 THEN Crash ELSE Bytes(off, Len(lit)) = lit

Sized(seg) == seg.size.kind # "none"
BytesUnit(seg) == seg.unit = "unit8" \/ (Sized(seg) /\ seg.unit \in {"bytes", "bits"})
IsRest(seg) == ~Sized(seg) /\ seg.unit \in {"bytes", "bits"}
IsDyn(seg) == seg.size.kind = "dyn"

(* What the compiler is given: a pattern that Gleam accepts, its names     *)
(* distinct.                                                               *)
Segments ==
  [value : {"int", "string", "var", "discard"}, name : STRING, lit : Seq(Byte),
   size : [kind : {"none", "const", "dyn"}, n : Int, of : STRING],
   unit : {"none", "bytes", "bits", "unit8"}]
Accepted(seg) ==
  /\ seg.size.kind = "const" => seg.size.n \in Nat
  /\ seg.value = "string" => ~Sized(seg) /\ seg.unit = "none"
Distinct(p) ==
  \A k, l \in DOMAIN p : k # l /\ p[k].value = "var" /\ p[l].value = "var" => p[k].name # p[l].name

ASSUME PatternsAssumption ==
  Patterns \subseteq Seq(Segments) /\ \A p \in Patterns : Distinct(p) /\ \A k \in DOMAIN p : Accepted(p[k])
ASSUME BytesAssumption == Base \in Nat /\ Subjects \subseteq Seq(Byte) /\ Outer \subseteq Int
ASSUME CrashAssumption == Crash \notin Int \cup BOOLEAN \cup ({"int", "bytes"} \X Seq(Byte))

(* The panics: shapes the compiler refuses, whatever the subject.          *)
Refused(seg) ==
  \/ IsRest(seg) /\ i # Len(pattern)
  \/ seg.size.kind = "const" /\ ~BytesUnit(seg) /\ seg.size.n % 8 # 0
  \/ IsDyn(seg) /\ ~BytesUnit(seg)
  \/ seg.value = "int" /\ (BytesUnit(seg) \/ IsRest(seg))

(* size(name - n): an earlier binding of the pattern is inlined, any other *)
(* name is a variable of the enclosing function.                           *)
BoundAs(name) == {b \in ToSet(binds) : b.name = name}
(* Mutant of SizeOf: the name is not inlined; the test runs before the let.*)
SizeOf_NotInlined(name) == outer

SizeOf(name) ==
  IF BoundAs(name) = {} THEN outer
  ELSE LET v == (CHOOSE b \in BoundAs(name) : TRUE).value
       IN IF v = Crash THEN Crash ELSE Number(v[2])
Dyn(seg) == Plus(SizeOf(seg.size.of), 0 - seg.size.n)
(* (<= 0 size), pushed for every size known only at run time.              *)
SizeTest(seg) ==
  IF ~IsDyn(seg) THEN <<>>
  ELSE <<IF Dyn(seg) = Crash THEN Crash ELSE Dyn(seg) >= 0>>

ConstWidth(seg) ==
  IF ~Sized(seg) THEN 1 ELSE IF BytesUnit(seg) THEN seg.size.n ELSE seg.size.n \div 8

Off == Plus(constOff, SumOf(dynOff))
OffAfter(seg) == Plus(Off, IF IsDyn(seg) THEN Dyn(seg) ELSE ConstWidth(seg))

Advance(seg) ==
  IF IsRest(seg) THEN hasRest' = TRUE /\ UNCHANGED <<constOff, dynOff>>
  ELSE IF IsDyn(seg) THEN dynOff' = Append(dynOff, Dyn(seg)) /\ UNCHANGED <<constOff, hasRest>>
  ELSE constOff' = constOff + ConstWidth(seg) /\ UNCHANGED <<dynOff, hasRest>>

-----------------------------------------------------------------------------
(* One arm of the loop's match for each kind of segment.                   *)
Arm(value) ==
  /\ outcome = "compiling" /\ i <= Len(pattern)
  /\ Seg.value = value /\ ~Refused(Seg)
  /\ i' = i + 1
  /\ UNCHANGED <<input, outcome>>

Text ==
  /\ Arm("string")
  /\ segTests' = Append(segTests, SegEq(Off, Seg.lit))
  /\ constOff' = constOff + Len(Seg.lit)
  /\ UNCHANGED <<dynOff, hasRest, binds>>

IntLiteral ==
  /\ Arm("int")
  /\ LET got == UInt(Off, ConstWidth(Seg)) IN
       segTests' = Append(segTests,
         IF got = Crash THEN Crash ELSE Number(got[2]) = Number(Seg.lit))
  /\ Advance(Seg)
  /\ UNCHANGED binds

Discard ==
  /\ Arm("discard")
  /\ segTests' = segTests \o SizeTest(Seg)
  /\ Advance(Seg)
  /\ UNCHANGED binds

Value(seg) ==
  CASE IsRest(seg) -> SubVec(Off, Count)
    [] BytesUnit(seg) -> SubVec(Off, OffAfter(seg))
    [] OTHER -> UInt(Off, ConstWidth(seg))

Variable ==
  /\ Arm("var")
  /\ segTests' = segTests \o SizeTest(Seg)
  /\ binds' = Append(binds, [name |-> Seg.name, value |-> Value(Seg)])
  /\ Advance(Seg)

Panic ==
  /\ outcome = "compiling" /\ i <= Len(pattern) /\ Refused(Seg)
  /\ outcome' = "panic"
  /\ UNCHANGED <<input, i, constOff, dynOff, hasRest, segTests, binds>>

(* Mutant of LengthTest: a pattern with a rest takes any length.           *)
LengthTest_ExactOnly ==
  IF hasRest THEN <<>>
  ELSE <<IF Off = Crash THEN Crash ELSE Count = Off>>

(* The length test comes first, and is left out for <<rest:bits>> alone.   *)
LengthTest ==
  IF hasRest /\ constOff = 0 /\ dynOff = <<>> THEN <<>>
  ELSE <<IF Off = Crash THEN Crash ELSE IF hasRest THEN Count >= Off ELSE Count = Off>>

Tests == LengthTest \o segTests

(* `and` stops at the first test that is not true; the bindings come after.*)
Verdict ==
  LET failing == {k \in 1..Len(Tests) : Tests[k] # TRUE}
      first == CHOOSE k \in failing : \A l \in failing : k <= l
  IN IF failing # {} THEN (IF Tests[first] = Crash THEN "crash" ELSE "mismatch")
     ELSE IF \E b \in ToSet(binds) : b.value = Crash THEN "crash" ELSE "match"

Evaluate ==
  /\ outcome = "compiling" /\ i > Len(pattern)
  /\ outcome' = Verdict
  /\ UNCHANGED <<input, i, constOff, dynOff, hasRest, segTests, binds>>

Step == Text \/ IntLiteral \/ Discard \/ Variable \/ Panic \/ Evaluate
Next == Step \/ (outcome # "compiling" /\ UNCHANGED vars)
Spec == Init /\ [][Next]_vars
-----------------------------------------------------------------------------
(* What Gleam says a pattern matches: segments are cut off the subject     *)
(* from the left, the bits a segment takes are its size times its unit,    *)
(* and nothing may be left over.                                           *)
Size(seg, env) ==
  IF ~IsDyn(seg) THEN seg.size.n
  ELSE (IF seg.size.of \in DOMAIN env THEN Number(env[seg.size.of][2]) ELSE outer) - seg.size.n
Bits(seg, st) ==
  IF seg.value = "string" THEN 8 * Len(seg.lit)
  ELSE IF IsRest(seg) THEN 8 * (Count - st.pos)
  ELSE IF ~Sized(seg) THEN 8
  ELSE (IF seg.unit \in {"bytes", "unit8"} THEN 8 ELSE 1) * Size(seg, st.env)
Type(seg) == IF seg.unit \in {"bytes", "bits"} THEN "bytes" ELSE "int"

Take(st, seg) ==
  LET bits == Bits(seg, st)
      end == st.pos + bits \div 8
      bytes == SubSeq(subject, st.pos + 1, end)
      differs == \/ seg.value = "int" /\ Number(bytes) # Number(seg.lit)
                 \/ seg.value = "string" /\ bytes # seg.lit
  IN IF ~st.ok \/ bits < 0 \/ bits % 8 # 0 \/ end > Count \/ differs
       THEN [st EXCEPT !.ok = FALSE]
       ELSE [ok |-> TRUE, pos |-> end,
             env |-> IF seg.value # "var" THEN st.env
                     ELSE [name \in DOMAIN st.env \cup {seg.name} |->
                             IF name = seg.name THEN <<Type(seg), bytes>> ELSE st.env[name]]]

Start == [ok |-> TRUE, pos |-> 0, env |-> [name \in {} |-> 0]]
(* After the first k segments.                                             *)
Reading[k \in 0..Len(pattern)] == IF k = 0 THEN Start ELSE Take(Reading[k - 1], pattern[k])
End == Reading[Len(pattern)]
GleamMatches == End.ok /\ End.pos = Count

(* The segments that the doc of bit_array_pattern lists: neither a size of *)
(* :bits nor a variable of unit(8) is, but the code compiles both, with    *)
(* bytes for bits and a slice for an int.                                  *)
Listed(seg) == ~(Sized(seg) /\ seg.unit = "bits") /\ ~(seg.value = "var" /\ seg.unit = "unit8")
Documented == \A k \in DOMAIN pattern : Listed(pattern[k])

(* Code that is emitted for a documented pattern and does not crash takes  *)
(* a branch exactly when Gleam's pattern matches, and binds the same       *)
(* values.                                                                 *)
AgreesWithGleam ==
  Documented /\ outcome \in {"match", "mismatch"} =>
    /\ outcome = "match" <=> GleamMatches
    /\ GleamMatches =>
         /\ {binds[k].name : k \in DOMAIN binds} = DOMAIN End.env
         /\ \A k \in DOMAIN binds : binds[k].value = End.env[binds[k].name]

SizeIsRead(l) ==
  IsDyn(pattern[l]) /\ \E k \in 1..l-1 : pattern[k].value = "var" /\ pattern[k].name = pattern[l].size.of
SizeIsNegative(l) == IsDyn(pattern[l]) /\ outer < pattern[l].size.n
(* Where segment k ends, when no size is read.                             *)
EndOf(k) == SumOf([m \in 1..k |-> Bits(pattern[m], Start) \div 8])

(* A crash is never in place of a match, and has one of two causes: a size *)
(* that the pattern reads from the subject, or an integer literal beyond   *)
(* the end of the subject whose test stands before that of a negative      *)
(* size.  Other negative sizes are a mismatch; constant sizes, and those   *)
(* of outer variables that are not negative, never crash.                  *)
CrashHasACause ==
  Documented /\ outcome = "crash" =>
    /\ ~GleamMatches
    /\ \E l \in DOMAIN pattern :
         \/ SizeIsRead(l)
         \/ SizeIsNegative(l) /\ \E k \in 1..l-1 : pattern[k].value = "int" /\ EndOf(k) > Count
=============================================================================
