------------------------- MODULE Expressions_proofs -------------------------
(***************************************************************************)
(* Proofs about the two parts of emit.rs that turn what stands in a        *)
(* function into Clojure: the patterns of bit arrays, and the bodies of    *)
(* functions and branches.                                                 *)
(*                                                                         *)
(* Bit-array patterns: the loop has emitted tests and bindings for the     *)
(* segments before i, and what Gleam has read after the same segments      *)
(* (Reading) is either at the same place, with all tests true and the same *)
(* bindings, or has failed, with a test that is not true (Follows).  The   *)
(* lemmas go from one segment's value, test and width to the whole         *)
(* verdict.                                                                *)
(*                                                                         *)
(* Bodies: the invariant says how deep the parentheses of the text are at  *)
(* each token, how the text begins (BodyInv), and what evaluating it does  *)
(* in every environment that has Gleam's variables (RunInv).               *)
(***************************************************************************)
EXTENDS BitPattern, Body, SequenceLemmas

(* A fold: what a loop over 1..n has computed after each step.             *)
Steps(step, n, V) == step \in [1..n -> [V -> V]]
IsFold(f, step, n, V, start) ==
  f \in [0..n -> V] /\ f[0] = start /\ \A k \in 1..n : f[k] = step[k][f[k - 1]]

LEMMA FoldExists ==
  ASSUME NEW n, NEW V, NEW start, NEW step, n \in Nat, start \in V, Steps(step, n, V)
  PROVE  \E f : IsFold(f, step, n, V, start)
<1> DEFINE Bad == {m \in 0..n : ~\E f : IsFold(f, step, m, V, start)}
<1>1. SUFFICES Bad = {}
  OBVIOUS
<1>2. SUFFICES ASSUME Bad # {} PROVE FALSE
  OBVIOUS
<1>3. Bad \in SUBSET Nat
  OBVIOUS
<1>4. PICK m \in Bad : \A l \in Bad : m <= l
  <2> HIDE DEF Bad
  <2> QED
    BY <1>2, <1>3, LeastIndex
<1>5. CASE m = 0
  <2> DEFINE f == [k \in 0..0 |-> start]
  <2>1. IsFold(f, step, 0, V, start)
    BY DEF IsFold
  <2> QED
    BY <1>4, <1>5, <2>1
<1>6. CASE m # 0
  <2>1. m \in 1..n /\ m - 1 \in 0..n /\ m - 1 \notin Bad
    BY <1>4, <1>6
  <2>2. PICK g : IsFold(g, step, m - 1, V, start)
    BY <2>1
  <2> DEFINE f == [k \in 0..m |-> IF k = m THEN step[m][g[m - 1]] ELSE g[k]]
  <2>3. g[m - 1] \in V /\ \A k \in 0..m-1 : g[k] \in V
    BY <2>1, <2>2 DEF IsFold
  <2>4. step[m][g[m - 1]] \in V
    BY <2>1, <2>3 DEF Steps
  <2>5. f \in [0..m -> V]
    BY <2>1, <2>3, <2>4
  <2>6. f[0] = start
    BY <2>1, <2>2 DEF IsFold
  <2>7. ASSUME NEW k \in 1..m PROVE f[k] = step[k][f[k - 1]]
    <3>1. CASE k = m
      BY <2>1, <3>1
    <3>2. CASE k # m
      <4>1. k \in 1..m-1
        BY <2>1, <3>2
      <4> QED
        BY <2>1, <2>2, <4>1 DEF IsFold
    <3> QED
      BY <3>1, <3>2
  <2>8. IsFold(f, step, m, V, start)
    BY <2>5, <2>6, <2>7 DEF IsFold
  <2> QED
    BY <1>4, <2>8
<1> QED
  BY <1>5, <1>6

SameSteps(f, g, n) == f[0] = g[0] /\ \A k \in 1..n : f[k - 1] = g[k - 1] => f[k] = g[k]
Same(f, g, n) == \A k \in 0..n : f[k] = g[k]

LEMMA SameFold ==
  ASSUME NEW n, NEW f, NEW g, n \in Nat, SameSteps(f, g, n)
  PROVE  Same(f, g, n)
<1> USE DEF SameSteps, Same
<1> DEFINE Bad == {k \in 0..n : f[k] # g[k]}
<1>1. SUFFICES ASSUME Bad # {} PROVE FALSE
  OBVIOUS
<1>2. Bad \in SUBSET Nat
  OBVIOUS
<1>3. PICK m \in Bad : \A l \in Bad : m <= l
  <2> HIDE DEF Bad
  <2> QED
    BY <1>1, <1>2, LeastIndex
<1>4. m \in 1..n /\ m - 1 \in 0..n /\ m - 1 \notin Bad
  BY <1>3
<1> QED
  BY <1>3, <1>4
-----------------------------------------------------------------------------
LEMMA NumberType == ASSUME NEW bytes \in Seq(Byte) PROVE Number(bytes) \in Int
<1> DEFINE n == Len(bytes)
           upTo == CHOOSE g : g = [k \in 0..n |-> IF k = 0 THEN 0 ELSE g[k - 1] * Base + bytes[k]]
           step == [k \in 1..n |-> [v \in Int |-> v * Base + bytes[k]]]
<1>1. n \in Nat /\ 0 \in Int /\ Base \in Int /\ \A k \in 1..n : bytes[k] \in Int
  BY BytesAssumption DEF Byte
<1>2. Steps(step, n, Int)
  BY <1>1 DEF Steps
<1>3. PICK f : IsFold(f, step, n, Int, 0)
  <2> HIDE DEF step, n
  <2> QED
    BY <1>1, <1>2, FoldExists
<1>4. f = [k \in 0..n |-> IF k = 0 THEN 0 ELSE f[k - 1] * Base + bytes[k]]
  <2>1. f \in [0..n -> Int] /\ f[0] = 0 /\ \A k \in 1..n : f[k] = step[k][f[k - 1]]
    BY <1>3 DEF IsFold
  <2>2. ASSUME NEW k \in 1..n PROVE f[k] = f[k - 1] * Base + bytes[k]
    <3>1. step[k] = [v \in Int |-> v * Base + bytes[k]]
      OBVIOUS
    <3> HIDE DEF step, n, upTo
    <3>2. k - 1 \in 0..n /\ f[k - 1] \in Int
      BY <1>1, <2>1
    <3>3. step[k][f[k - 1]] = f[k - 1] * Base + bytes[k]
      BY <3>1, <3>2
    <3> QED
      BY <2>1, <3>3
  <2> QED
    BY <1>1, <2>1, <2>2
<1>5. upTo = [k \in 0..n |-> IF k = 0 THEN 0 ELSE upTo[k - 1] * Base + bytes[k]]
  BY <1>4
<1>6. \A k \in 0..n : f[k] = upTo[k]
  <2> HIDE DEF upTo, n
  <2>1. f[0] = upTo[0]
    BY <1>1, <1>4, <1>5
  <2>2. ASSUME NEW k \in 1..n, f[k - 1] = upTo[k - 1] PROVE f[k] = upTo[k]
    BY <1>1, <1>4, <1>5, <2>2
  <2>3. n \in Nat
    BY <1>1
  <2>4. SameSteps(f, upTo, n)
    BY ONLY <2>1, <2>2 DEF SameSteps
  <2>5. Same(f, upTo, n)
    BY <2>3, <2>4, SameFold
  <2> QED
    BY <2>5 DEF Same
<1>7. Number(bytes) = upTo[n]
  BY DEF Number
<1>8. f[n] \in Int
  BY <1>1, <1>3 DEF IsFold
<1> QED
  BY <1>1, <1>6, <1>7, <1>8
-----------------------------------------------------------------------------
Sizes == Int \cup {Crash}

LEMMA SumIsFold ==
  ASSUME NEW s \in Seq(Sizes)
  PROVE  \E f \in [0..Len(s) -> Sizes] :
           /\ f[0] = 0 /\ \A k \in 1..Len(s) : f[k] = Plus(f[k - 1], s[k])
           /\ SumOf(s) = f[Len(s)]
<1> DEFINE n == Len(s)
           upTo == CHOOSE g : g = [k \in 0..n |-> IF k = 0 THEN 0 ELSE Plus(g[k - 1], s[k])]
           step == [k \in 1..n |-> [v \in Sizes |-> Plus(v, s[k])]]
<1>1. n \in Nat /\ 0 \in Sizes /\ \A k \in 1..n : s[k] \in Sizes
  BY DEF Sizes
<1>2. \A a, b \in Sizes : Plus(a, b) \in Sizes
  BY DEF Plus, Sizes
<1>3. Steps(step, n, Sizes)
  BY <1>1, <1>2 DEF Steps
<1>4. PICK f : IsFold(f, step, n, Sizes, 0)
  <2> HIDE DEF step, n
  <2> QED
    BY <1>1, <1>3, FoldExists
<1>5. f \in [0..n -> Sizes] /\ f[0] = 0 /\ \A k \in 1..n : f[k] = step[k][f[k - 1]]
  BY <1>4 DEF IsFold
<1>6. ASSUME NEW k \in 1..n PROVE f[k] = Plus(f[k - 1], s[k])
  <2>1. step[k] = [v \in Sizes |-> Plus(v, s[k])]
    OBVIOUS
  <2> HIDE DEF step, n, upTo
  <2>2. k - 1 \in 0..n /\ f[k - 1] \in Sizes
    BY <1>1, <1>5
  <2>3. step[k][f[k - 1]] = Plus(f[k - 1], s[k])
    BY <2>1, <2>2
  <2> QED
    BY <1>5, <2>3
<1>7. f = [k \in 0..n |-> IF k = 0 THEN 0 ELSE Plus(f[k - 1], s[k])]
  <2> HIDE DEF step, n, upTo
  <2> QED
    BY <1>1, <1>5, <1>6
<1>8. upTo = [k \in 0..n |-> IF k = 0 THEN 0 ELSE Plus(upTo[k - 1], s[k])]
  BY <1>7
<1>9. \A k \in 0..n : f[k] = upTo[k]
  <2> HIDE DEF upTo, n, step
  <2>1. f[0] = upTo[0]
    BY <1>1, <1>7, <1>8
  <2>2. ASSUME NEW k \in 1..n, f[k - 1] = upTo[k - 1] PROVE f[k] = upTo[k]
    BY <1>1, <1>7, <1>8, <2>2
  <2>3. n \in Nat
    BY <1>1
  <2>4. SameSteps(f, upTo, n)
    BY ONLY <2>1, <2>2 DEF SameSteps
  <2>5. Same(f, upTo, n)
    BY <2>3, <2>4, SameFold
  <2> QED
    BY <2>5 DEF Same
<1>10. SumOf(s) = upTo[n]
  BY DEF SumOf
<1> HIDE DEF upTo, step
<1> QED
  BY <1>1, <1>5, <1>6, <1>9, <1>10

LEMMA SumOfNone == SumOf(<<>>) = 0
<1>1. <<>> \in Seq(Sizes) /\ Len(<<>>) = 0
  OBVIOUS
<1> QED
  BY <1>1, SumIsFold

LEMMA SumOfMore ==
  ASSUME NEW s \in Seq(Sizes), NEW x \in Sizes
  PROVE  SumOf(s) \in Sizes /\ SumOf(Append(s, x)) = Plus(SumOf(s), x)
<1> DEFINE n == Len(s)
           u == Append(s, x)
<1>1. n \in Nat /\ u \in Seq(Sizes) /\ Len(u) = n + 1 /\ u[n + 1] = x /\ \A k \in 1..n : u[k] = s[k]
  OBVIOUS
<1>2. PICK f \in [0..n -> Sizes] :
        /\ f[0] = 0 /\ \A k \in 1..n : f[k] = Plus(f[k - 1], s[k])
        /\ SumOf(s) = f[n]
  BY SumIsFold
<1>3. PICK g \in [0..Len(u) -> Sizes] :
        /\ g[0] = 0 /\ \A k \in 1..Len(u) : g[k] = Plus(g[k - 1], u[k])
        /\ SumOf(u) = g[Len(u)]
  BY <1>1, SumIsFold
<1> HIDE DEF n, u
<1>4. \A k \in 0..n : f[k] = g[k]
  <2>1. \A k \in 1..n : f[k - 1] = g[k - 1] => f[k] = g[k]
    BY <1>1, <1>2, <1>3
  <2>2. f[0] = g[0]
    BY <1>2, <1>3
  <2>3. n \in Nat
    BY <1>1
  <2>4. SameSteps(f, g, n)
    BY ONLY <2>1, <2>2 DEF SameSteps
  <2>5. Same(f, g, n)
    BY <2>3, <2>4, SameFold
  <2> QED
    BY <2>5 DEF Same
<1>5. g[n + 1] = Plus(f[n], x)
  BY <1>1, <1>3, <1>4
<1> QED
  BY <1>1, <1>2, <1>3, <1>5 DEF u

-----------------------------------------------------------------------------
(* What Gleam has read, whether it matched or not.                         *)
Values == {"int", "bytes"} \X Seq(Byte)
Envs == UNION {[D -> Values] : D \in SUBSET STRING}
States == [ok : BOOLEAN, pos : 0..Count, env : Envs]
Input == subject \in Seq(Byte) /\ outer \in Int /\ pattern \in Seq(Segments)

LEMMA EnvLookup ==
  ASSUME NEW env \in Envs, NEW name \in DOMAIN env
  PROVE  env[name] \in Values /\ Number(env[name][2]) \in Int
<1>1. env[name] \in Values
  BY DEF Envs
<1>2. env[name][2] \in Seq(Byte)
  BY <1>1 DEF Values
<1> QED
  BY <1>1, <1>2, NumberType

LEMMA BitsType ==
  ASSUME Input, NEW st \in States, NEW seg \in Segments
  PROVE  Bits(seg, st) \in Int
<1>1. Count \in Nat /\ st.pos \in Int /\ st.env \in Envs /\ Len(seg.lit) \in Nat /\ seg.size.n \in Int
  BY DEF Input, States, Segments, Count
<1>2. Size(seg, st.env) \in Int
  BY <1>1, EnvLookup DEF Size, Input
<1> QED
  BY <1>1, <1>2 DEF Bits

LEMMA TakeType ==
  ASSUME Input, NEW st \in States, NEW seg \in Segments
  PROVE  Take(st, seg) \in States
<1> DEFINE bits == Bits(seg, st)
           end == st.pos + bits \div 8
           bytes == SubSeq(subject, st.pos + 1, end)
           differs == \/ seg.value = "int" /\ Number(bytes) # Number(seg.lit)
                      \/ seg.value = "string" /\ bytes # seg.lit
           off == ~st.ok \/ bits < 0 \/ bits % 8 # 0 \/ end > Count \/ differs
<1>1. Count \in Nat /\ st.pos \in 0..Count /\ st.env \in Envs /\ bits \in Int
  BY BitsType DEF Input, States, Count
<1>2. CASE off
  <2>1. Take(st, seg) = [st EXCEPT !.ok = FALSE]
    BY <1>2 DEF Take
  <2> QED
    BY <2>1 DEF States
<1>3. CASE ~off
  <2> HIDE DEF bits
  <2>1. bits \div 8 \in Nat /\ end \in st.pos..Count
    BY <1>1, <1>3
  <2>2. bytes \in Seq(Byte)
    BY <1>1, <2>1 DEF Input, Count
  <2>3. \E env \in Envs : Take(st, seg) = [ok |-> TRUE, pos |-> end, env |-> env]
    <3> DEFINE new == [name \in DOMAIN st.env \cup {seg.name} |->
                         IF name = seg.name THEN <<Type(seg), bytes>> ELSE st.env[name]]
    <3>1. Type(seg) \in {"int", "bytes"} /\ seg.name \in STRING
      BY DEF Type, Segments
    <3>2. <<Type(seg), bytes>> \in Values
      BY <2>2, <3>1 DEF Values
    <3>3. PICK D \in SUBSET STRING : st.env \in [D -> Values]
      BY <1>1 DEF Envs
    <3> HIDE DEF bytes, end
    <3>4. new \in [D \cup {seg.name} -> Values] /\ D \cup {seg.name} \in SUBSET STRING
      BY <3>1, <3>2, <3>3
    <3>5. new \in Envs
      BY <3>4 DEF Envs
    <3>6. Take(st, seg) = [ok |-> TRUE, pos |-> end, env |-> IF seg.value # "var" THEN st.env ELSE new]
      BY <1>3 DEF Take, bits, end, bytes
    <3> QED
      BY <1>1, <3>5, <3>6
  <2>4. end \in 0..Count
    BY <1>1, <2>1
  <2> HIDE DEF end, bytes
  <2> QED
    BY <2>3, <2>4 DEF States
<1> QED
  BY <1>2, <1>3

LEMMA StartType == Input => Start \in States
<1> SUFFICES ASSUME Input PROVE Start \in States
  OBVIOUS
<1>1. Count \in Nat
  BY DEF Input, Count
<1>2. [name \in {} |-> 0] \in [{} -> Values] /\ {} \in SUBSET STRING
  OBVIOUS
<1>3. [name \in {} |-> 0] \in Envs
  BY <1>2 DEF Envs
<1> QED
  BY <1>1, <1>3 DEF Start, States

IsReading ==
  /\ Reading[0] = Start
  /\ \A k \in 1..Len(pattern) : Reading[k] = Take(Reading[k - 1], pattern[k])
  /\ \A k \in 0..Len(pattern) : Reading[k] \in States

LEMMA ReadingSteps == Input => IsReading
<1> SUFFICES ASSUME Input PROVE IsReading
  OBVIOUS
<1> DEFINE n == Len(pattern)
           step == [k \in 1..n |-> [v \in States |-> Take(v, pattern[k])]]
<1>1. n \in Nat /\ Start \in States /\ \A k \in 1..n : pattern[k] \in Segments
  BY StartType DEF Input
<1>2. Steps(step, n, States)
  BY <1>1, TakeType DEF Steps
<1>3. PICK f : IsFold(f, step, n, States, Start)
  <2> HIDE DEF step, n
  <2> QED
    BY <1>1, <1>2, FoldExists
<1>4. f \in [0..n -> States] /\ f[0] = Start /\ \A k \in 1..n : f[k] = step[k][f[k - 1]]
  BY <1>3 DEF IsFold
<1>5. ASSUME NEW k \in 1..n PROVE f[k] = Take(f[k - 1], pattern[k])
  <2>1. step[k] = [v \in States |-> Take(v, pattern[k])]
    OBVIOUS
  <2> HIDE DEF step, n
  <2>2. k - 1 \in 0..n /\ f[k - 1] \in States
    BY <1>1, <1>4
  <2>3. step[k][f[k - 1]] = Take(f[k - 1], pattern[k])
    BY <2>1, <2>2
  <2> QED
    BY <1>4, <2>3
<1>6. f = [k \in 0..Len(pattern) |-> IF k = 0 THEN Start ELSE Take(f[k - 1], pattern[k])]
  <2>1. f = [k \in 0..n |-> IF k = 0 THEN Start ELSE Take(f[k - 1], pattern[k])]
    <3> HIDE DEF step, n
    <3> QED
      BY <1>1, <1>4, <1>5
  <2> QED
    BY <2>1
<1> HIDE DEF step
<1>7. Reading = [k \in 0..Len(pattern) |-> IF k = 0 THEN Start ELSE Take(Reading[k - 1], pattern[k])]
  BY <1>6 DEF Reading
<1> HIDE DEF n
<1>8. Reading = [k \in 0..n |-> IF k = 0 THEN Start ELSE Take(Reading[k - 1], pattern[k])]
  BY <1>7 DEF n
<1>9. Reading[0] = Start /\ \A k \in 1..n : Reading[k] = Take(Reading[k - 1], pattern[k])
  BY <1>1, <1>8
<1>10. Same(f, Reading, n)
  <2>1. f[0] = Reading[0]
    BY <1>4, <1>9
  <2>2. ASSUME NEW k \in 1..n, f[k - 1] = Reading[k - 1] PROVE f[k] = Reading[k]
    BY <1>5, <1>9, <2>2
  <2>3. SameSteps(f, Reading, n)
    BY ONLY <2>1, <2>2 DEF SameSteps
  <2> QED
    BY <1>1, <2>3, SameFold
<1>11. \A k \in 0..n : Reading[k] \in States
  BY <1>4, <1>10 DEF Same
<1> QED
  BY <1>9, <1>11 DEF IsReading, n

(* What has been read depends on nothing the compiler does.                *)
LEMMA ReadingStays ==
  Input /\ UNCHANGED input => \A k \in 0..Len(pattern) : Reading'[k] = Reading[k]
<1>1. Input' => IsReading'
  BY ReadingSteps, PTL
<1> SUFFICES ASSUME Input, UNCHANGED input
             PROVE  \A k \in 0..Len(pattern) : Reading'[k] = Reading[k]
  OBVIOUS
<1>2. pattern' = pattern /\ subject' = subject /\ outer' = outer
  BY DEF input
<1>3. IsReading /\ IsReading'
  BY <1>1, <1>2, ReadingSteps DEF Input
<1>4. Start' = Start
  BY DEF Start
<1>5. SameSteps(Reading', Reading, Len(pattern))
  <2>1. Reading'[0] = Reading[0]
    BY <1>3, <1>4 DEF IsReading
  <2>2. ASSUME NEW k \in 1..Len(pattern), Reading'[k - 1] = Reading[k - 1]
        PROVE  Reading'[k] = Reading[k]
    <3>1. Reading[k] = Take(Reading[k - 1], pattern[k])
      BY <1>3 DEF IsReading
    <3>2. Reading'[k] = Take(Reading[k - 1], pattern[k])'
      BY <1>2, <1>3 DEF IsReading
    <3>3. Take(Reading[k - 1], pattern[k])' = Take(Reading[k - 1], pattern[k])
      BY <1>2, <2>2 DEF Take, Bits, Size, Count
    <3> QED
      BY <3>1, <3>2, <3>3
  <2> QED
    BY <2>1, <2>2 DEF SameSteps
<1>6. Len(pattern) \in Nat
  BY DEF Input
<1> QED
  BY <1>5, <1>6, SameFold DEF Same
-----------------------------------------------------------------------------
Bindings == [name : STRING, value : Values \cup {Crash}]
TypeOK ==
  /\ pattern \in Patterns /\ subject \in Subjects /\ outer \in Outer
  /\ i \in 1..Len(pattern)+1 /\ constOff \in Nat /\ dynOff \in Seq(Sizes)
  /\ hasRest \in BOOLEAN
  /\ segTests \in Seq(BOOLEAN \cup {Crash})
  /\ binds \in Seq(Bindings)
  /\ outcome \in {"compiling", "panic", "match", "mismatch", "crash"}

(* How far a segment that is not a rest moves the offset.                  *)
Width(seg) ==
  IF seg.value = "string" THEN Len(seg.lit) ELSE IF IsDyn(seg) THEN Dyn(seg) ELSE ConstWidth(seg)

LEMMA InputType == TypeOK => Input /\ Count \in Nat /\ Len(pattern) \in Nat
BY PatternsAssumption, BytesAssumption DEF TypeOK, Input, Count

LEMMA OffType == TypeOK => SumOf(dynOff) \in Sizes /\ Off \in Sizes
BY SumOfMore DEF TypeOK, Off, Plus, Sizes

LEMMA SegType ==
  ASSUME TypeOK, i <= Len(pattern)
  PROVE  Seg \in Segments /\ Accepted(Seg) /\ (Documented => Listed(Seg))
<1>1. i \in DOMAIN pattern /\ Len(pattern) \in Nat
  BY InputType DEF TypeOK, Input
<1> QED
  BY <1>1, PatternsAssumption DEF TypeOK, Seg, Documented

LEMMA SizeOfType ==
  ASSUME TypeOK, NEW name PROVE SizeOf(name) \in Sizes
<1>1. CASE BoundAs(name) = {}
  BY <1>1, InputType DEF SizeOf, Input, Sizes
<1>2. CASE BoundAs(name) # {}
  <2> DEFINE b == CHOOSE b \in BoundAs(name) : TRUE
             v == b.value
  <2>1. b \in ToSet(binds)
    BY <1>2 DEF BoundAs
  <2>2. v \in Values \cup {Crash}
    <3>1. binds \in Seq(Bindings)
      BY DEF TypeOK
    <3>2. \A x \in ToSet(binds) : x \in Bindings
      BY <3>1 DEF ToSet
    <3>3. \A x \in ToSet(binds) : x.value \in Values \cup {Crash}
      BY <3>2 DEF Bindings
    <3> HIDE DEF b
    <3> QED
      BY <2>1, <3>3
  <2>3. SizeOf(name) = IF v = Crash THEN Crash ELSE Number(v[2])
    BY <1>2 DEF SizeOf
  <2> HIDE DEF v
  <2>4. v \in Values => v[2] \in Seq(Byte)
    BY DEF Values
  <2> QED
    BY <2>2, <2>3, <2>4, NumberType DEF Sizes
<1> QED
  BY <1>1, <1>2

LEMMA WidthType ==
  ASSUME TypeOK, NEW seg \in Segments, Accepted(seg)
  PROVE  /\ Dyn(seg) \in Sizes /\ Width(seg) \in Sizes /\ Len(seg.lit) \in Nat
         /\ ~IsDyn(seg) => ConstWidth(seg) \in Nat /\ Width(seg) \in Nat
         /\ seg.size.n \in Int
<1>1. SizeOf(seg.size.of) \in Sizes
  BY SizeOfType
<1>2. seg.size.n \in Int /\ Len(seg.lit) \in Nat
  BY DEF Segments
<1>3. Dyn(seg) \in Sizes
  BY <1>1, <1>2 DEF Dyn, Plus, Sizes
<1>4. ASSUME ~IsDyn(seg) PROVE ConstWidth(seg) \in Nat
  <2>1. CASE seg.size.kind = "none"
    BY <2>1 DEF ConstWidth, Sized
  <2>2. CASE seg.size.kind = "const"
    <3>1. seg.size.n \in Nat
      BY <2>2 DEF Accepted
    <3> QED
      BY <2>2, <3>1 DEF ConstWidth, Sized
  <2>3. seg.size.kind \in {"none", "const", "dyn"}
    BY DEF Segments
  <2> QED
    BY <1>4, <2>1, <2>2, <2>3 DEF IsDyn
<1> QED
  BY <1>2, <1>3, <1>4 DEF Width, Sizes

(* What the emitted accessors yield.                                       *)
LEMMA UIntType ==
  ASSUME TypeOK, NEW off \in Sizes, NEW n \in Nat
  PROVE  UInt(off, n) \in Values \cup {Crash}
<1>1. CASE Inside(off, n)
  <2>1. off \in Nat /\ off + n <= Count
    BY <1>1 DEF Inside, Sizes
  <2>2. Bytes(off, n) \in Seq(Byte)
    BY <2>1, InputType DEF Bytes, Input, Count
  <2> QED
    BY <1>1, <2>2 DEF UInt, Values
<1> QED
  BY <1>1 DEF UInt

LEMMA SubVecType ==
  ASSUME TypeOK, NEW off \in Sizes, NEW end \in Sizes
  PROVE  SubVec(off, end) \in Values \cup {Crash}
<1>1. CASE end # Crash /\ off # Crash /\ Inside(off, end - off)
  <2>1. off \in Nat /\ end - off \in Nat /\ off + (end - off) <= Count
    BY <1>1 DEF Inside, Sizes
  <2>2. Bytes(off, end - off) \in Seq(Byte)
    BY <2>1, InputType DEF Bytes, Input, Count
  <2> QED
    BY <1>1, <2>2 DEF SubVec, Values
<1> QED
  BY <1>1 DEF SubVec

LEMMA ValueType ==
  ASSUME TypeOK, i <= Len(pattern), ~Refused(Seg)
  PROVE  Value(Seg) \in Values \cup {Crash}
<1>1. Seg \in Segments /\ Accepted(Seg) /\ Off \in Sizes /\ Count \in Sizes /\ Dyn(Seg) \in Sizes
  BY SegType, OffType, InputType, WidthType DEF Sizes
<1>2. IsDyn(Seg) \/ ConstWidth(Seg) \in Nat
  BY <1>1, WidthType
<1>3. OffAfter(Seg) \in Sizes
  BY <1>1, <1>2 DEF OffAfter, Plus, Sizes
<1>4. ~IsRest(Seg) /\ ~BytesUnit(Seg) => ConstWidth(Seg) \in Nat
  BY <1>2 DEF Refused
<1> QED
  BY <1>1, <1>3, <1>4, UIntType, SubVecType DEF Value
-----------------------------------------------------------------------------
(* What each arm of the loop does to the offset and to the other locals.   *)
NextArm == Text \/ IntLiteral \/ Discard \/ Variable

LEMMA ArmFacts ==
  ASSUME TypeOK, NextArm
  PROVE  /\ outcome = "compiling" /\ i <= Len(pattern) /\ ~Refused(Seg) /\ i' = i + 1
         /\ UNCHANGED <<input, outcome>> /\ Seg \in Segments /\ Accepted(Seg) /\ (Documented => Listed(Seg))
         /\ Seg = pattern[i] /\ i \in 1..Len(pattern)
<1>1. outcome = "compiling" /\ i <= Len(pattern) /\ ~Refused(Seg) /\ i' = i + 1 /\ UNCHANGED <<input, outcome>>
  BY DEF NextArm, Text, IntLiteral, Discard, Variable, Arm
<1> QED
  BY <1>1, SegType DEF Seg, TypeOK

LEMMA OffMoves ==
  ASSUME TypeOK, NextArm
  PROVE  /\ Off' = IF IsRest(Seg) THEN Off ELSE Plus(Off, Width(Seg))
         /\ hasRest' = (hasRest \/ IsRest(Seg))
         /\ constOff' \in Nat /\ dynOff' \in Seq(Sizes)
<1>1. /\ Seg \in Segments /\ Accepted(Seg) /\ ~Refused(Seg) /\ constOff \in Nat /\ dynOff \in Seq(Sizes)
      /\ SumOf(dynOff) \in Sizes /\ Off \in Sizes /\ hasRest \in BOOLEAN
  BY ArmFacts, OffType DEF TypeOK
<1>2. /\ Dyn(Seg) \in Sizes /\ Len(Seg.lit) \in Nat
      /\ ~IsDyn(Seg) => ConstWidth(Seg) \in Nat
  BY <1>1, WidthType
<1>3. CASE Text
  <2>1. Seg.value = "string" /\ ~IsRest(Seg) /\ Width(Seg) = Len(Seg.lit)
    BY <1>1, <1>3 DEF Text, Arm, Accepted, IsRest, Width
  <2>2. constOff' = constOff + Len(Seg.lit) /\ UNCHANGED <<dynOff, hasRest>>
    BY <1>3 DEF Text
  <2>3. \A z \in Sizes : Plus(constOff + Len(Seg.lit), z) = Plus(Plus(constOff, z), Len(Seg.lit))
    BY <1>1, <1>2, CrashAssumption DEF Plus, Sizes
  <2>4. Off' = Plus(Off, Len(Seg.lit))
    BY <1>1, <2>2, <2>3 DEF Off
  <2> QED
    BY <1>1, <1>2, <2>1, <2>2, <2>4
<1>4. ASSUME Advance(Seg), Seg.value # "string"
      PROVE  /\ Off' = IF IsRest(Seg) THEN Off ELSE Plus(Off, Width(Seg))
             /\ hasRest' = (hasRest \/ IsRest(Seg))
             /\ constOff' \in Nat /\ dynOff' \in Seq(Sizes)
  <2>1. CASE IsRest(Seg)
    BY <1>1, <1>4, <2>1 DEF Advance, Off
  <2>2. CASE ~IsRest(Seg) /\ IsDyn(Seg)
    <3>1. dynOff' = Append(dynOff, Dyn(Seg)) /\ UNCHANGED <<constOff, hasRest>> /\ Width(Seg) = Dyn(Seg)
      BY <1>4, <2>2 DEF Advance, Width
    <3>2. SumOf(dynOff') = Plus(SumOf(dynOff), Dyn(Seg)) /\ dynOff' \in Seq(Sizes)
      BY <1>1, <1>2, <3>1, SumOfMore
    <3> QED
      BY <1>1, <1>2, <2>2, <3>1, <3>2, CrashAssumption DEF Off, Plus, Sizes
  <2>3. CASE ~IsRest(Seg) /\ ~IsDyn(Seg)
    <3>1. constOff' = constOff + ConstWidth(Seg) /\ UNCHANGED <<dynOff, hasRest>> /\ Width(Seg) = ConstWidth(Seg)
      BY <1>4, <2>3 DEF Advance, Width
    <3> QED
      BY <1>1, <1>2, <2>3, <3>1, CrashAssumption DEF Off, Plus, Sizes
  <2> QED
    BY <2>1, <2>2, <2>3
<1>5. CASE IntLiteral \/ Discard \/ Variable
  <2>1. Advance(Seg) /\ Seg.value # "string"
    BY <1>5 DEF IntLiteral, Discard, Variable, Arm
  <2> QED
    BY <1>4, <2>1
<1> QED
  BY <1>3, <1>5 DEF NextArm

(* The tests that an arm pushes and the binding it makes.                  *)
LiteralTest(seg) ==
  LET got == UInt(Off, ConstWidth(seg)) IN
    IF got = Crash THEN Crash ELSE Number(got[2]) = Number(seg.lit)
Pushed(seg) ==
  IF seg.value = "string" THEN <<SegEq(Off, seg.lit)>>
  ELSE IF seg.value = "int" THEN <<LiteralTest(seg)>> ELSE SizeTest(seg)

LEMMA TestsPushed ==
  ASSUME TypeOK, NextArm
  PROVE  Pushed(Seg) \in Seq(BOOLEAN \cup {Crash}) /\ segTests' = segTests \o Pushed(Seg)
<1> DEFINE T == BOOLEAN \cup {Crash}
<1>1. segTests \in Seq(T) /\ Off \in Sizes /\ Dyn(Seg) \in Sizes
  BY OffType, ArmFacts, WidthType DEF TypeOK
<1>2. SizeTest(Seg) \in Seq(T)
  <2>1. CASE IsDyn(Seg)
    <3> DEFINE t == IF Dyn(Seg) = Crash THEN Crash ELSE Dyn(Seg) >= 0
    <3>1. t \in T
      BY <1>1 DEF Sizes
    <3>2. SizeTest(Seg) = <<t>>
      BY <2>1 DEF SizeTest
    <3> HIDE DEF t, T
    <3> QED
      BY <3>1, <3>2
  <2>2. CASE ~IsDyn(Seg)
    BY <2>2 DEF SizeTest
  <2> QED
    BY <2>1, <2>2
<1>3. \A t \in T : <<t>> \in Seq(T) /\ Append(segTests, t) = segTests \o <<t>>
  <2> HIDE DEF T
  <2> QED
    BY <1>1
<1>4. CASE Text
  <2>1. SegEq(Off, Seg.lit) \in T
    <3>1. Inside(0, 0) \in BOOLEAN /\ (Bytes(Off, Len(Seg.lit)) = Seg.lit) \in BOOLEAN
      BY DEF Inside
    <3> QED
      BY <3>1 DEF SegEq
  <2>2. segTests' = Append(segTests, SegEq(Off, Seg.lit)) /\ Seg.value = "string"
    BY <1>4 DEF Text, Arm
  <2>3. Pushed(Seg) = <<SegEq(Off, Seg.lit)>>
    BY <2>2 DEF Pushed
  <2> QED
    BY <1>3, <2>1, <2>2, <2>3
<1>5. CASE IntLiteral
  <2>1. LiteralTest(Seg) \in T
    BY DEF LiteralTest
  <2>2. segTests' = Append(segTests, LiteralTest(Seg)) /\ Seg.value = "int"
    BY <1>5 DEF IntLiteral, Arm, LiteralTest
  <2>3. Pushed(Seg) = <<LiteralTest(Seg)>>
    BY <2>2 DEF Pushed
  <2> QED
    BY <1>3, <2>1, <2>2, <2>3
<1>6. CASE Discard \/ Variable
  <2>1. segTests' = segTests \o SizeTest(Seg) /\ Seg.value \in {"discard", "var"}
    BY <1>6 DEF Discard, Variable, Arm
  <2> QED
    BY <1>2, <2>1 DEF Pushed
<1> QED
  BY <1>4, <1>5, <1>6 DEF NextArm

LEMMA BindsPushed ==
  ASSUME TypeOK, NextArm
  PROVE  /\ Seg.value # "var" => UNCHANGED binds
         /\ Seg.value = "var" => binds' = Append(binds, [name |-> Seg.name, value |-> Value(Seg)])
         /\ binds' \in Seq(Bindings)
<1>1. binds \in Seq(Bindings) /\ Seg.name \in STRING
  BY ArmFacts DEF TypeOK, Segments
<1>2. CASE Variable
  <2>1. binds' = Append(binds, [name |-> Seg.name, value |-> Value(Seg)]) /\ Seg.value = "var"
    BY <1>2 DEF Variable, Arm
  <2>2. [name |-> Seg.name, value |-> Value(Seg)] \in Bindings
    BY <1>1, ArmFacts, ValueType DEF Bindings
  <2> QED
    BY <1>1, <2>1, <2>2
<1>3. CASE Text \/ IntLiteral \/ Discard
  BY <1>1, <1>3 DEF Text, IntLiteral, Discard, Arm
<1> QED
  BY <1>2, <1>3 DEF NextArm
-----------------------------------------------------------------------------
(* A rest ends the pattern, and every binding is of an earlier segment.    *)
RestIsLast == hasRest => i = Len(pattern) + 1
BoundBefore ==
  \A k \in DOMAIN binds : \E l \in 1..i-1 : pattern[l].value = "var" /\ pattern[l].name = binds[k].name

LEMMA ArmOrder ==
  ASSUME TypeOK, RestIsLast, BoundBefore, NextArm
  PROVE  ~hasRest /\ RestIsLast' /\ BoundBefore'
<1>1. /\ i \in 1..Len(pattern) /\ i' = i + 1 /\ ~Refused(Seg) /\ pattern' = pattern /\ Seg = pattern[i]
      /\ Len(pattern) \in Nat /\ binds \in Seq(Bindings) /\ hasRest \in BOOLEAN
  BY ArmFacts, InputType DEF TypeOK, input
<1>2. ~hasRest
  BY <1>1 DEF RestIsLast
<1>3. RestIsLast'
  BY <1>1, <1>2, OffMoves DEF RestIsLast, Refused
<1>4. ASSUME NEW k \in DOMAIN binds'
      PROVE  \E l \in 1..i'-1 : pattern'[l].value = "var" /\ pattern'[l].name = binds'[k].name
  <2>1. CASE k \in DOMAIN binds
    <3>1. binds'[k] = binds[k]
      BY <1>1, <2>1, BindsPushed
    <3>2. PICK l \in 1..i-1 : pattern[l].value = "var" /\ pattern[l].name = binds[k].name
      BY <2>1 DEF BoundBefore
    <3> QED
      BY <1>1, <3>1, <3>2
  <2>2. CASE k \notin DOMAIN binds
    <3>1. Seg.value = "var" /\ binds' = Append(binds, [name |-> Seg.name, value |-> Value(Seg)])
      BY <1>4, <2>2, BindsPushed
    <3>2. k = Len(binds) + 1
      BY <1>1, <1>4, <2>2, <3>1
    <3>3. binds'[k].name = Seg.name
      BY <1>1, <3>1, <3>2
    <3> QED
      BY <1>1, <3>1, <3>3
  <2> QED
    BY <2>1, <2>2
<1> QED
  BY <1>2, <1>3, <1>4 DEF BoundBefore

(* A variable of the pattern has one segment, so its name is bound once.   *)
LEMMA NewName ==
  ASSUME TypeOK, BoundBefore, NextArm, Seg.value = "var"
  PROVE  \A k \in DOMAIN binds : binds[k].name # Seg.name
<1>1. i \in 1..Len(pattern) /\ Seg = pattern[i] /\ Len(pattern) \in Nat /\ Distinct(pattern)
  BY ArmFacts, InputType, PatternsAssumption DEF TypeOK
<1>2. DOMAIN pattern = 1..Len(pattern)
  BY InputType DEF Input
<1> SUFFICES ASSUME NEW k \in DOMAIN binds, binds[k].name = Seg.name PROVE FALSE
  OBVIOUS
<1>3. PICK l \in 1..i-1 : pattern[l].value = "var" /\ pattern[l].name = binds[k].name
  BY DEF BoundBefore
<1>4. l \in DOMAIN pattern /\ i \in DOMAIN pattern /\ l # i
  BY <1>1, <1>2
<1> QED
  BY <1>1, <1>3, <1>4 DEF Distinct
-----------------------------------------------------------------------------
(* As long as Gleam has read what stands before the segment, the compiler  *)
(* is at the place where Gleam is, all tests hold and the bindings are     *)
(* those that Gleam made; from a mismatch on, a test tells.                *)
AllTrue(tests) == \A k \in DOMAIN tests : tests[k] = TRUE
BindsAre(env) ==
  /\ {binds[k].name : k \in DOMAIN binds} = DOMAIN env
  /\ \A k \in DOMAIN binds : binds[k].value = env[binds[k].name]
Beyond == Off = Crash \/ Off > Count
At(st) == Off \in 0..Count /\ st.pos = (IF hasRest THEN Count ELSE Off) /\ AllTrue(segTests) /\ BindsAre(st.env)
FollowsTo(st) == IF st.ok THEN At(st) ELSE Beyond \/ ~AllTrue(segTests)
Follows == Documented => FollowsTo(Reading[i - 1])

(* The size that a segment reads is the one that Gleam reads.              *)
LEMMA SameSize ==
  ASSUME TypeOK, NEW env \in Envs, BindsAre(env), NEW seg \in Segments, IsDyn(seg)
  PROVE  Dyn(seg) = Size(seg, env) /\ Dyn(seg) \in Int
<1> DEFINE name == seg.size.of
<1>1. seg.size.n \in Int /\ outer \in Int /\ binds \in Seq(Bindings)
  BY InputType DEF Segments, Input, TypeOK
<1>2. ToSet(binds) = {binds[k] : k \in DOMAIN binds}
  BY DEF ToSet
<1>3. CASE BoundAs(name) = {}
  <2>1. name \notin DOMAIN env
    BY <1>2, <1>3 DEF BindsAre, BoundAs
  <2>2. SizeOf(name) = outer
    BY <1>3 DEF SizeOf
  <2> QED
    BY <1>1, <2>1, <2>2, CrashAssumption DEF Dyn, Size, Plus
<1>4. CASE BoundAs(name) # {}
  <2> DEFINE b == CHOOSE b \in BoundAs(name) : TRUE
  <2>1. b \in BoundAs(name)
    BY <1>4
  <2>2. b.name = name /\ \E k \in DOMAIN binds : b = binds[k]
    BY <1>2, <2>1 DEF BoundAs
  <2>3. SizeOf(name) = IF b.value = Crash THEN Crash ELSE Number(b.value[2])
    BY <1>4 DEF SizeOf
  <2> HIDE DEF b
  <2>4. name \in DOMAIN env /\ b.value = env[name]
    BY <2>2 DEF BindsAre
  <2>5. env[name] \in Values /\ Number(env[name][2]) \in Int
    BY <2>4, EnvLookup
  <2>6. b.value # Crash
    BY <2>4, <2>5, CrashAssumption DEF Values
  <2>7. SizeOf(name) = Number(env[name][2])
    BY <2>3, <2>4, <2>6
  <2> QED
    BY <1>1, <2>4, <2>5, <2>7, CrashAssumption DEF Dyn, Size, Plus
<1> QED
  BY <1>3, <1>4

(* The bytes that the emitted code takes for a segment at its offset.      *)
Taken(seg) == IF IsRest(seg) THEN Count - Off ELSE Width(seg)
Differs(seg, bytes) ==
  \/ seg.value = "int" /\ Number(bytes) # Number(seg.lit)
  \/ seg.value = "string" /\ bytes # seg.lit

(* A shape that is accepted and not refused is one of these.               *)
LEMMA Shapes ==
  ASSUME TypeOK, NextArm
  PROVE  /\ Seg.value = "string" => ~Sized(Seg) /\ ~IsRest(Seg) /\ ~IsDyn(Seg)
         /\ Seg.value = "int" => ~IsRest(Seg) /\ ~IsDyn(Seg) /\ Width(Seg) = ConstWidth(Seg)
         /\ IsRest(Seg) => ~IsDyn(Seg) /\ ~Sized(Seg)
         /\ IsDyn(Seg) => BytesUnit(Seg) /\ Sized(Seg)
         /\ IsDyn(Seg) /\ Listed(Seg) => Seg.unit \in {"bytes", "unit8"}
         /\ Seg.value = "var" /\ ~IsRest(Seg) /\ ~BytesUnit(Seg) =>
              Type(Seg) = "int" /\ ~IsDyn(Seg) /\ Width(Seg) = ConstWidth(Seg)
         /\ Seg.value = "var" /\ BytesUnit(Seg) /\ Listed(Seg) => Type(Seg) = "bytes"
         /\ IsRest(Seg) => Type(Seg) = "bytes"
         /\ Seg.value \in {"int", "string", "var", "discard"}
<1>1. Seg \in Segments /\ Accepted(Seg) /\ ~Refused(Seg)
  BY ArmFacts
<1>2. /\ Seg.value \in {"int", "string", "var", "discard"} /\ Seg.unit \in {"none", "bytes", "bits", "unit8"}
      /\ Seg.size.kind \in {"none", "const", "dyn"}
  BY <1>1 DEF Segments
<1> QED
  BY <1>1, <1>2 DEF Accepted, Listed, Refused, Sized, IsRest, IsDyn, BytesUnit, Width, Type

(* A size that is not known only at run time.                              *)
LEMMA FixedBits ==
  ASSUME TypeOK, NextArm, Listed(Seg), NEW st, ~IsRest(Seg), ~IsDyn(Seg)
  PROVE  Width(Seg) \in Nat /\ Bits(Seg, st) = 8 * Width(Seg)
<1>1. /\ Seg \in Segments /\ Accepted(Seg) /\ ~Refused(Seg)
      /\ Len(Seg.lit) \in Nat /\ ConstWidth(Seg) \in Nat /\ Width(Seg) \in Nat
      /\ Seg.size.kind \in {"none", "const", "dyn"} /\ Seg.unit \in {"none", "bytes", "bits", "unit8"}
  BY ArmFacts, WidthType DEF Segments
<1>2. CASE Seg.value = "string"
  BY <1>1, <1>2 DEF Bits, Width
<1>3. CASE Seg.value # "string" /\ ~Sized(Seg)
  BY <1>1, <1>3 DEF Bits, Width, ConstWidth, IsDyn, Sized
<1>4. CASE Seg.value # "string" /\ Seg.size.kind = "const"
  <2>1. Sized(Seg) /\ ~IsDyn(Seg) /\ Size(Seg, st.env) = Seg.size.n /\ Seg.size.n \in Nat /\ Seg.unit # "bits"
    BY <1>1, <1>4 DEF Sized, IsDyn, Size, Accepted, Listed
  <2>2. Width(Seg) = ConstWidth(Seg)
    BY <1>4, <2>1 DEF Width
  <2>3. CASE BytesUnit(Seg)
    <3>1. Seg.unit \in {"bytes", "unit8"} /\ ConstWidth(Seg) = Seg.size.n
      BY <1>1, <2>1, <2>3 DEF BytesUnit, ConstWidth
    <3> QED
      BY <1>1, <1>4, <2>1, <2>2, <3>1 DEF Bits
  <2>4. CASE ~BytesUnit(Seg)
    <3>1. Seg.unit \notin {"bytes", "unit8"} /\ ConstWidth(Seg) = Seg.size.n \div 8 /\ Seg.size.n % 8 = 0
      BY <1>1, <1>4, <2>1, <2>4 DEF BytesUnit, ConstWidth, Refused
    <3>2. Bits(Seg, st) = 1 * Seg.size.n
      BY <1>4, <2>1, <3>1 DEF Bits
    <3>3. 8 * (Seg.size.n \div 8) = Seg.size.n
      BY <2>1, <3>1
    <3> QED
      BY <1>1, <2>1, <2>2, <3>1, <3>2, <3>3
  <2> QED
    BY <2>3, <2>4
<1> QED
  BY <1>1, <1>2, <1>3, <1>4 DEF Sized, IsDyn

LEMMA SameBits ==
  ASSUME TypeOK, NextArm, Listed(Seg), NEW st \in States, st.pos = Off, BindsAre(st.env), Off \in 0..Count
  PROVE  Taken(Seg) \in Int /\ Bits(Seg, st) = 8 * Taken(Seg)
<1>1. Seg \in Segments /\ Count \in Nat /\ Off \in Int
  BY ArmFacts, InputType
<1>2. CASE IsRest(Seg)
  BY <1>1, <1>2, Shapes DEF Taken, Bits
<1>3. CASE ~IsRest(Seg) /\ ~IsDyn(Seg)
  BY <1>3, FixedBits DEF Taken
<1>4. CASE IsDyn(Seg)
  <2>1. st.env \in Envs
    BY DEF States
  <2>2. Dyn(Seg) = Size(Seg, st.env) /\ Dyn(Seg) \in Int
    BY <1>1, <1>4, <2>1, SameSize
  <2>3. Seg.value # "string" /\ ~IsRest(Seg) /\ Sized(Seg) /\ Seg.unit \in {"bytes", "unit8"}
    BY <1>4, Shapes
  <2>4. Taken(Seg) = Dyn(Seg)
    BY <1>4, <2>3 DEF Taken, Width
  <2> QED
    BY <2>2, <2>3, <2>4 DEF Bits
<1> QED
  BY <1>2, <1>3, <1>4

(* What Gleam reads for the segment, put in the terms of the compiler.     *)
Fits(seg) == Taken(seg) >= 0 /\ Off + Taken(seg) <= Count /\ ~Differs(seg, Bytes(Off, Taken(seg)))
EnvWith(env, seg) ==
  IF seg.value # "var" THEN env
  ELSE [name \in DOMAIN env \cup {seg.name} |->
          IF name = seg.name THEN <<Type(seg), Bytes(Off, Taken(seg))>> ELSE env[name]]

LEMMA TakeIsFits ==
  ASSUME TypeOK, NextArm, Listed(Seg), NEW st \in States, st.ok, st.pos = Off, BindsAre(st.env), Off \in 0..Count
  PROVE  /\ Taken(Seg) \in Int
         /\ Fits(Seg) => Take(st, Seg) = [ok |-> TRUE, pos |-> Off + Taken(Seg), env |-> EnvWith(st.env, Seg)]
         /\ ~Fits(Seg) => ~Take(st, Seg).ok
<1> DEFINE W == Taken(Seg)
           bits == Bits(Seg, st)
           end == st.pos + bits \div 8
           bytes == SubSeq(subject, st.pos + 1, end)
           off == ~st.ok \/ bits < 0 \/ bits % 8 # 0 \/ end > Count \/ Differs(Seg, bytes)
<1>1. W \in Int /\ bits = 8 * W /\ Off \in Int /\ Count \in Int
  BY SameBits, InputType
<1>2. bits % 8 = 0 /\ bits \div 8 = W /\ (bits < 0 <=> W < 0)
  <2> HIDE DEF W, bits
  <2> QED
    BY <1>1
<1>3. end = Off + W /\ bytes = Bytes(Off, W)
  <2> HIDE DEF W, bits
  <2> QED
    BY <1>2 DEF Bytes
<1>4. off <=> ~Fits(Seg)
  <2>1. off <=> W < 0 \/ Off + W > Count \/ Differs(Seg, Bytes(Off, W))
    <3> HIDE DEF W, bits, end, bytes
    <3> QED
      BY <1>1, <1>2, <1>3
  <2>2. W < 0 <=> ~(W >= 0)
    BY <1>1
  <2>3. Off + W > Count <=> ~(Off + W <= Count)
    BY <1>1
  <2> QED
    BY <2>1, <2>2, <2>3 DEF Fits
<1>5. Take(st, Seg) =
        IF off THEN [st EXCEPT !.ok = FALSE]
        ELSE [ok |-> TRUE, pos |-> end,
              env |-> IF Seg.value # "var" THEN st.env
                      ELSE [name \in DOMAIN st.env \cup {Seg.name} |->
                              IF name = Seg.name THEN <<Type(Seg), bytes>> ELSE st.env[name]]]
  BY DEF Take, Differs
<1>6. [st EXCEPT !.ok = FALSE].ok = FALSE
  BY DEF States
<1> HIDE DEF off, end, bytes, bits
<1> QED
  BY <1>1, <1>3, <1>4, <1>5, <1>6 DEF EnvWith

(* The binding that is made, and the tests that are pushed.                *)
LEMMA ValueIs ==
  ASSUME TypeOK, NextArm, Listed(Seg), Seg.value = "var", Off \in Nat, Taken(Seg) \in Int
  PROVE  Value(Seg) = IF Taken(Seg) >= 0 /\ Off + Taken(Seg) <= Count
                        THEN <<Type(Seg), Bytes(Off, Taken(Seg))>> ELSE Crash
<1>1. Off # Crash /\ Count # Crash /\ Count \in Nat /\ Crash \notin Int
  BY InputType, CrashAssumption
<1>2. CASE IsRest(Seg)
  <2>1. Taken(Seg) = Count - Off /\ Type(Seg) = "bytes" /\ Value(Seg) = SubVec(Off, Count)
    <3>1. ~BytesUnit(Seg)
      BY <1>2 DEF IsRest, BytesUnit
    <3> QED
      BY <1>2, <3>1, Shapes DEF Taken, Value
  <2>2. Inside(Off, Count - Off) <=> Taken(Seg) >= 0 /\ Off + Taken(Seg) <= Count
    BY <1>1, <2>1 DEF Inside
  <2>3. SubVec(Off, Count) = IF Inside(Off, Count - Off) THEN <<"bytes", Bytes(Off, Count - Off)>> ELSE Crash
    BY <1>1 DEF SubVec
  <2> QED
    BY <2>1, <2>2, <2>3
<1>3. CASE ~IsRest(Seg) /\ BytesUnit(Seg)
  <2>1. /\ Taken(Seg) = Width(Seg) /\ Type(Seg) = "bytes" /\ Value(Seg) = SubVec(Off, OffAfter(Seg))
        /\ OffAfter(Seg) = Plus(Off, Width(Seg))
    BY <1>3, Shapes DEF Taken, Value, OffAfter, Width
  <2>2. OffAfter(Seg) = Off + Taken(Seg)
    BY <1>1, <2>1 DEF Plus
  <2>3. (Off + Taken(Seg)) - Off = Taken(Seg) /\ Off + Taken(Seg) # Crash
    BY <1>1
  <2> QED
    BY <1>1, <2>1, <2>2, <2>3 DEF SubVec, Inside
<1>4. CASE ~IsRest(Seg) /\ ~BytesUnit(Seg)
  <2>1. Taken(Seg) = ConstWidth(Seg) /\ Type(Seg) = "int" /\ Value(Seg) = UInt(Off, ConstWidth(Seg))
    BY <1>4, Shapes DEF Taken, Value
  <2> QED
    BY <1>1, <2>1 DEF UInt, Inside
<1> QED
  BY <1>2, <1>3, <1>4

LEMMA OneTest ==
  ASSUME NEW tests, NEW t, tests = <<t>>
  PROVE  (AllTrue(tests) <=> t = TRUE) /\ \A k \in DOMAIN tests : tests[k] = t
<1>1. DOMAIN <<t>> = {1} /\ <<t>>[1] = t
  OBVIOUS
<1> QED
  BY <1>1 DEF AllTrue

LEMMA PushedIs ==
  ASSUME TypeOK, NextArm, Off \in Nat, Taken(Seg) \in Int
  PROVE  /\ Fits(Seg) => AllTrue(Pushed(Seg))
         /\ ~Fits(Seg) /\ Off + Taken(Seg) <= Count /\ ~IsRest(Seg) => ~AllTrue(Pushed(Seg))
         /\ \A k \in DOMAIN Pushed(Seg) : Pushed(Seg)[k] = Crash =>
              Off + Taken(Seg) > Count /\ Seg.value = "int"
<1> DEFINE W == Taken(Seg)
<1>1. /\ Off # Crash /\ Count \in Nat /\ Crash \notin Int /\ Crash \notin BOOLEAN
      /\ Seg \in Segments /\ Len(Seg.lit) \in Nat /\ (~IsDyn(Seg) => Width(Seg) \in Nat)
  BY InputType, ArmFacts, WidthType, CrashAssumption
<1>2. CASE Seg.value = "string"
  <2> DEFINE t == SegEq(Off, Seg.lit)
  <2>1. Pushed(Seg) = <<t>> /\ W = Len(Seg.lit)
    BY <1>2, Shapes DEF Pushed, Taken, Width
  <2>2. t = IF Off + W > Count THEN FALSE ELSE Bytes(Off, W) = Seg.lit
    <3>1. ~(Off < 0)
      BY <1>1
    <3>2. t = IF Off + Len(Seg.lit) > Count THEN FALSE ELSE Bytes(Off, Len(Seg.lit)) = Seg.lit
      <4> HIDE DEF W
      <4> QED
        BY <1>1, <3>1 DEF SegEq
    <3> HIDE DEF t
    <3> QED
      BY <2>1, <3>2
  <2>3. Differs(Seg, Bytes(Off, W)) <=> Bytes(Off, W) # Seg.lit
    BY <1>2 DEF Differs
  <2>4. t # Crash
    <3>1. (Bytes(Off, W) = Seg.lit) \in BOOLEAN
      OBVIOUS
    <3> QED
      BY <1>1, <2>2, <3>1
  <2>5. W >= 0 /\ (Off + W <= Count <=> ~(Off + W > Count))
    BY <1>1, <2>1
  <2> HIDE DEF t, W
  <2>6. Fits(Seg) <=> t = TRUE
    BY <2>2, <2>3, <2>5 DEF Fits, W
  <2>7. (AllTrue(Pushed(Seg)) <=> t = TRUE) /\ \A k \in DOMAIN Pushed(Seg) : Pushed(Seg)[k] = t
    BY <2>1, OneTest
  <2> QED
    BY <2>4, <2>6, <2>7
<1>3. CASE Seg.value = "int"
  <2> DEFINE t == LiteralTest(Seg)
             got == UInt(Off, ConstWidth(Seg))
  <2>1. Pushed(Seg) = <<t>> /\ W = ConstWidth(Seg) /\ W \in Nat
    BY <1>1, <1>3, Shapes DEF Pushed, Taken
  <2>2. got = IF Off + W <= Count THEN <<"int", Bytes(Off, W)>> ELSE Crash
    BY <1>1, <2>1 DEF UInt, Inside
  <2>3. ASSUME Off + W <= Count PROVE got # Crash /\ got[2] = Bytes(Off, W)
    <3>1. Bytes(Off, W) \in Seq(Byte)
      BY <1>1, <2>1, <2>3, InputType DEF Bytes, Input, Count
    <3>2. <<"int", Bytes(Off, W)>> \in {"int", "bytes"} \X Seq(Byte)
      BY <3>1
    <3> QED
      BY <2>2, <2>3, <3>2, CrashAssumption
  <2>4. t = IF got = Crash THEN Crash ELSE Number(got[2]) = Number(Seg.lit)
    BY DEF LiteralTest
  <2>5. Differs(Seg, Bytes(Off, W)) <=> Number(Bytes(Off, W)) # Number(Seg.lit)
    BY <1>3 DEF Differs
  <2>6. (Number(Bytes(Off, W)) = Number(Seg.lit)) \in BOOLEAN
    OBVIOUS
  <2>7. W >= 0 /\ (Off + W <= Count <=> ~(Off + W > Count))
    BY <1>1, <2>1
  <2> HIDE DEF t, got, W
  <2>8. Off + W <= Count => t = (Number(Bytes(Off, W)) = Number(Seg.lit))
    BY <2>3, <2>4
  <2>9. t = Crash => Off + W > Count
    BY <1>1, <2>6, <2>7, <2>8
  <2>10. Off + W <= Count => (Fits(Seg) <=> t = TRUE)
    BY <2>5, <2>7, <2>8 DEF Fits, W
  <2>11. Fits(Seg) => Off + W <= Count
    BY DEF Fits, W
  <2>12. (AllTrue(Pushed(Seg)) <=> t = TRUE) /\ \A k \in DOMAIN Pushed(Seg) : Pushed(Seg)[k] = t
    BY <2>1, OneTest
  <2> QED
    BY <1>3, <2>9, <2>10, <2>11, <2>12 DEF W
<1>4. CASE Seg.value \notin {"string", "int"}
  <2>1. Pushed(Seg) = SizeTest(Seg) /\ ~Differs(Seg, Bytes(Off, W))
    BY <1>4 DEF Pushed, Differs
  <2>2. CASE IsDyn(Seg)
    <3>1. W = Dyn(Seg) /\ W # Crash
      BY <1>1, <1>4, <2>2, Shapes DEF Taken, Width
    <3>2. Pushed(Seg) = <<W >= 0>>
      BY <2>1, <2>2, <3>1 DEF SizeTest
    <3>3. (W >= 0) \in BOOLEAN
      OBVIOUS
    <3> DEFINE t == W >= 0
    <3> HIDE DEF t
    <3>4. Pushed(Seg) = <<t>> /\ t # Crash /\ (t = TRUE <=> W >= 0)
      BY <1>1, <3>2, <3>3 DEF t
    <3>5. (AllTrue(Pushed(Seg)) <=> t = TRUE) /\ \A k \in DOMAIN Pushed(Seg) : Pushed(Seg)[k] = t
      BY <3>4, OneTest
    <3> QED
      BY <2>1, <3>4, <3>5 DEF Fits
  <2>3. CASE ~IsDyn(Seg)
    <3>1. Pushed(Seg) = <<>>
      BY <2>1, <2>3 DEF SizeTest
    <3>2. DOMAIN <<>> = {}
      OBVIOUS
    <3>3. ~IsRest(Seg) => W >= 0
      BY <1>1, <2>3 DEF Taken
    <3> QED
      BY <2>1, <3>1, <3>2, <3>3 DEF AllTrue, Fits
  <2> QED
    BY <2>2, <2>3
<1> QED
  BY <1>2, <1>3, <1>4
-----------------------------------------------------------------------------
LEMMA ReadsOn ==
  ASSUME TypeOK, NextArm
  PROVE  Reading[i - 1] \in States /\ Reading'[i' - 1] = Take(Reading[i - 1], Seg) /\ Count' = Count
<1>1. /\ i \in 1..Len(pattern) /\ i' = i + 1 /\ UNCHANGED input /\ Seg = pattern[i]
      /\ Input /\ Len(pattern) \in Nat
  BY ArmFacts, InputType
<1>2. i \in 0..Len(pattern) /\ i - 1 \in 0..Len(pattern) /\ i' - 1 = i
  BY <1>1
<1>3. Reading'[i] = Reading[i]
  BY <1>1, <1>2, ReadingStays
<1>4. Reading[i - 1] \in States /\ Reading[i] = Take(Reading[i - 1], pattern[i])
  BY <1>1, <1>2, ReadingSteps DEF IsReading
<1>5. Count' = Count
  BY <1>1 DEF Count, input
<1> QED
  BY <1>1, <1>2, <1>3, <1>4, <1>5

(* The tests that are there stay, and the new ones come after them.        *)
LEMMA TestsGrow ==
  ASSUME TypeOK, NextArm
  PROVE  /\ AllTrue(segTests') <=> AllTrue(segTests) /\ AllTrue(Pushed(Seg))
         /\ \A k \in DOMAIN segTests' :
              \/ k \in DOMAIN segTests /\ segTests'[k] = segTests[k]
              \/ \E l \in DOMAIN Pushed(Seg) : segTests'[k] = Pushed(Seg)[l]
<1> DEFINE S == BOOLEAN \cup {Crash}
           m == Len(segTests)
           n == Len(Pushed(Seg))
<1>1. segTests \in Seq(S) /\ Pushed(Seg) \in Seq(S) /\ segTests' = segTests \o Pushed(Seg)
  BY TestsPushed DEF TypeOK
<1>2. /\ segTests' \in Seq(S) /\ Len(segTests') = m + n /\ m \in Nat /\ n \in Nat
      /\ \A k \in 1..m : segTests'[k] = segTests[k]
      /\ \A l \in 1..n : segTests'[m + l] = Pushed(Seg)[l]
  <2> HIDE DEF S
  <2> QED
    BY <1>1, Appended
<1>3. DOMAIN segTests = 1..m /\ DOMAIN Pushed(Seg) = 1..n /\ DOMAIN segTests' = 1..(m + n)
  <2> HIDE DEF S
  <2> QED
    BY <1>1, <1>2
<1> HIDE DEF m, n, S
<1>4. ASSUME NEW k \in DOMAIN segTests'
      PROVE  \/ k \in DOMAIN segTests /\ segTests'[k] = segTests[k]
             \/ \E l \in DOMAIN Pushed(Seg) : segTests'[k] = Pushed(Seg)[l]
  <2>1. CASE k \in 1..m
    BY <1>2, <1>3, <2>1
  <2>2. CASE k \notin 1..m
    <3>1. k - m \in 1..n /\ m + (k - m) = k
      BY <1>2, <1>3, <2>2
    <3> QED
      BY <1>2, <1>3, <3>1
  <2> QED
    BY <2>1, <2>2
<1>5. AllTrue(segTests') => AllTrue(segTests) /\ AllTrue(Pushed(Seg))
  <2> SUFFICES ASSUME AllTrue(segTests') PROVE AllTrue(segTests) /\ AllTrue(Pushed(Seg))
    OBVIOUS
  <2>1. ASSUME NEW k \in 1..m PROVE segTests[k] = TRUE
    <3>1. k \in DOMAIN segTests'
      BY <1>2, <1>3
    <3> QED
      BY <1>2, <3>1 DEF AllTrue
  <2>2. ASSUME NEW l \in 1..n PROVE Pushed(Seg)[l] = TRUE
    <3>1. m + l \in DOMAIN segTests'
      BY <1>2, <1>3
    <3> QED
      BY <1>2, <3>1 DEF AllTrue
  <2> QED
    BY <1>3, <2>1, <2>2 DEF AllTrue
<1>6. AllTrue(segTests) /\ AllTrue(Pushed(Seg)) => AllTrue(segTests')
  BY <1>4 DEF AllTrue
<1> QED
  BY <1>4, <1>5, <1>6

(* Gleam reads the segment: the compiler moves to where Gleam is.          *)
LEMMA ArmTakes ==
  ASSUME TypeOK, RestIsLast, BoundBefore, NextArm, Listed(Seg),
         NEW st \in States, st.ok, At(st), Fits(Seg), NEW next, next = Take(st, Seg)
  PROVE  /\ next.ok /\ Off' \in 0..Count /\ next.pos = (IF hasRest' THEN Count ELSE Off')
         /\ AllTrue(segTests') /\ {binds'[k].name : k \in DOMAIN binds'} = DOMAIN next.env
         /\ \A k \in DOMAIN binds' : binds'[k].value = next.env[binds'[k].name]
<1>1. /\ ~hasRest /\ Off \in 0..Count /\ st.pos = Off /\ AllTrue(segTests) /\ BindsAre(st.env)
      /\ Off \in Nat /\ Count \in Nat /\ Crash \notin Int /\ binds \in Seq(Bindings)
  BY ArmOrder, InputType, CrashAssumption DEF At, TypeOK
<1>2. /\ Taken(Seg) \in Int /\ Taken(Seg) >= 0 /\ Off + Taken(Seg) <= Count
      /\ next = [ok |-> TRUE, pos |-> Off + Taken(Seg), env |-> EnvWith(st.env, Seg)]
  BY <1>1, TakeIsFits DEF Fits
<1>3. Off' \in 0..Count /\ next.pos = (IF hasRest' THEN Count ELSE Off')
  <2>1. CASE IsRest(Seg)
    <3>1. Taken(Seg) = Count - Off /\ Off' = Off /\ hasRest' = TRUE
      BY <2>1, OffMoves DEF Taken
    <3>2. next.pos = Count
      BY <1>1, <1>2, <3>1
    <3> QED
      BY <1>1, <3>1, <3>2
  <2>2. CASE ~IsRest(Seg)
    <3>1. Taken(Seg) = Width(Seg) /\ Off' = Plus(Off, Width(Seg)) /\ hasRest' = FALSE
      BY <1>1, <2>2, OffMoves DEF Taken
    <3>2. Off' = Off + Taken(Seg)
      BY <1>1, <1>2, <3>1 DEF Plus
    <3> QED
      BY <1>1, <1>2, <3>1, <3>2
  <2> QED
    BY <2>1, <2>2
<1>4. AllTrue(segTests')
  BY <1>1, <1>2, PushedIs, TestsGrow
<1>5. next.ok /\ next.env = EnvWith(st.env, Seg)
  BY <1>2
<1>6. CASE Seg.value # "var"
  <2>1. binds' = binds /\ next.env = st.env
    BY <1>5, <1>6, BindsPushed DEF EnvWith
  <2> QED
    BY <1>1, <1>3, <1>4, <1>5, <2>1 DEF BindsAre
<1>7. CASE Seg.value = "var"
  <2> DEFINE v == <<Type(Seg), Bytes(Off, Taken(Seg))>>
             b == [name |-> Seg.name, value |-> v]
             n == Len(binds)
  <2>1. binds' = Append(binds, b)
    BY <1>1, <1>2, <1>7, BindsPushed, ValueIs
  <2>2. next.env = [name \in DOMAIN st.env \cup {Seg.name} |-> IF name = Seg.name THEN v ELSE st.env[name]]
    BY <1>5, <1>7 DEF EnvWith
  <2>3. /\ n \in Nat /\ DOMAIN binds = 1..n /\ DOMAIN binds' = 1..n+1
        /\ \A k \in 1..n : binds'[k] = binds[k]
        /\ binds'[n + 1] = b /\ b.name = Seg.name /\ b.value = v
    <3> HIDE DEF v
    <3> QED
      BY <1>1, <2>1
  <2> HIDE DEF v, b, n
  <2>4. {binds'[k].name : k \in DOMAIN binds'} = {binds[k].name : k \in DOMAIN binds} \cup {Seg.name}
    <3>1. 1..n+1 = 1..n \cup {n + 1}
      BY <2>3
    <3> QED
      BY <2>3, <3>1
  <2>5. {binds'[k].name : k \in DOMAIN binds'} = DOMAIN next.env
    BY <1>1, <2>2, <2>4 DEF BindsAre
  <2>6. ASSUME NEW k \in DOMAIN binds' PROVE binds'[k].value = next.env[binds'[k].name]
    <3>1. CASE k = n + 1
      BY <2>2, <2>3, <3>1
    <3>2. CASE k # n + 1
      <4>1. k \in DOMAIN binds /\ binds'[k] = binds[k]
        BY <2>3, <3>2
      <4>2. binds[k].name # Seg.name /\ binds[k].name \in DOMAIN st.env
        BY <1>1, <1>7, <4>1, NewName DEF BindsAre
      <4> QED
        BY <1>1, <2>2, <4>1, <4>2 DEF BindsAre
    <3> QED
      BY <3>1, <3>2
  <2> QED
    BY <1>3, <1>4, <1>5, <2>5, <2>6 DEF BindsAre
<1> QED
  BY <1>6, <1>7

(* Going backwards is noticed by the test on the size.                     *)
LEMMA NegativeTold ==
  ASSUME TypeOK, NextArm, ~IsRest(Seg), Width(Seg) \in Int, Width(Seg) < 0
  PROVE  ~AllTrue(Pushed(Seg))
<1>1. IsDyn(Seg) /\ Dyn(Seg) = Width(Seg) /\ Seg.value \notin {"string", "int"}
  <2>1. IsDyn(Seg)
    BY ArmFacts, WidthType
  <2> QED
    BY <2>1, Shapes DEF Width
<1>2. Dyn(Seg) # Crash /\ Pushed(Seg) = SizeTest(Seg)
  BY <1>1, CrashAssumption DEF Pushed
<1>3. SizeTest(Seg) = <<Dyn(Seg) >= 0>>
  BY <1>1, <1>2 DEF SizeTest
<1> DEFINE t == Dyn(Seg) >= 0
<1>4. t = FALSE
  BY <1>1
<1> HIDE DEF t
<1>5. Pushed(Seg) = <<t>>
  BY <1>2, <1>3 DEF t
<1> QED
  BY <1>4, <1>5, OneTest

(* Once the offset is beyond the subject it stays there, or a test tells.  *)
LEMMA BeyondStays ==
  ASSUME TypeOK, NextArm, Beyond
  PROVE  Off' = Crash \/ Off' > Count \/ ~AllTrue(Pushed(Seg))
<1>1. Off \in Sizes /\ Count \in Nat /\ Crash \notin Int
  BY OffType, InputType, CrashAssumption
<1>2. CASE IsRest(Seg)
  BY <1>2, OffMoves DEF Beyond
<1>3. CASE ~IsRest(Seg)
  <2>1. Off' = Plus(Off, Width(Seg)) /\ Width(Seg) \in Sizes
    BY <1>3, OffMoves, WidthType, ArmFacts
  <2>2. CASE Off = Crash \/ Width(Seg) = Crash
    BY <2>1, <2>2 DEF Plus
  <2>3. CASE Off # Crash /\ Width(Seg) # Crash /\ Width(Seg) < 0
    <3>1. Width(Seg) \in Int
      BY <2>1, <2>3 DEF Sizes
    <3> QED
      BY <1>3, <2>3, <3>1, NegativeTold
  <2>4. CASE Off # Crash /\ Width(Seg) # Crash /\ ~(Width(Seg) < 0)
    <3>1. Width(Seg) \in Nat /\ Off \in Int /\ Off > Count
      BY <1>1, <2>1, <2>4 DEF Sizes, Beyond
    <3>2. Off' = Off + Width(Seg)
      BY <2>1, <2>4 DEF Plus
    <3> QED
      BY <1>1, <3>1, <3>2
  <2> QED
    BY <2>2, <2>3, <2>4
<1> QED
  BY <1>2, <1>3

(* Gleam does not read the segment: a test tells, or the length will.      *)
LEMMA ArmRefuses ==
  ASSUME TypeOK, RestIsLast, BoundBefore, NextArm, Listed(Seg), NEW st \in States,
         (st.ok /\ At(st) /\ ~Fits(Seg)) \/ (~st.ok /\ (Beyond \/ ~AllTrue(segTests)))
  PROVE  ~Take(st, Seg).ok /\ (Off' = Crash \/ Off' > Count \/ ~AllTrue(segTests'))
<1>1. CASE ~st.ok
  <2>1. Take(st, Seg) = [st EXCEPT !.ok = FALSE]
    BY <1>1 DEF Take
  <2>2. ~Take(st, Seg).ok
    BY <2>1 DEF States
  <2> QED
    BY <1>1, <2>2, BeyondStays, TestsGrow
<1>2. CASE st.ok
  <2>1. /\ ~hasRest /\ Off \in 0..Count /\ st.pos = Off /\ AllTrue(segTests) /\ BindsAre(st.env)
        /\ Off \in Nat /\ Count \in Nat /\ Crash \notin Int /\ ~Fits(Seg)
    BY <1>2, ArmOrder, InputType, CrashAssumption DEF At
  <2>2. Taken(Seg) \in Int /\ ~Take(st, Seg).ok
    BY <1>2, <2>1, TakeIsFits
  <2>3. CASE IsRest(Seg)
    <3>1. Seg.value \notin {"int", "string"} /\ Taken(Seg) = Count - Off
      BY <2>3, Shapes DEF Taken
    <3>2. Fits(Seg)
      BY <2>1, <3>1 DEF Fits, Differs
    <3> QED
      BY <2>1, <3>2
  <2>4. CASE ~IsRest(Seg) /\ Off + Taken(Seg) <= Count
    BY <2>1, <2>2, <2>4, PushedIs, TestsGrow
  <2>5. CASE ~IsRest(Seg) /\ ~(Off + Taken(Seg) <= Count)
    <3>1. Off' = Off + Taken(Seg)
      <4>1. Taken(Seg) = Width(Seg) /\ Off' = Plus(Off, Width(Seg))
        BY <2>5, OffMoves DEF Taken
      <4> QED
        BY <2>1, <2>2, <4>1 DEF Plus
    <3> QED
      BY <2>1, <2>2, <2>5, <3>1
  <2> QED
    BY <2>2, <2>3, <2>4, <2>5
<1> QED
  BY <1>1, <1>2

LEMMA ArmFollows ==
  ASSUME TypeOK, RestIsLast, BoundBefore, Follows, NextArm
  PROVE  Follows'
<1> DEFINE st == Reading[i - 1]
           next == Take(st, Seg)
<1> SUFFICES ASSUME Documented PROVE FollowsTo(Reading[i - 1])'
  <2>1. Documented' => Documented
    BY ArmFacts DEF Documented, Listed, Sized, input
  <2> QED
    BY <2>1 DEF Follows
<1>1. st \in States /\ Reading'[i' - 1] = next /\ Count' = Count /\ Listed(Seg)
  BY ReadsOn, ArmFacts
<1>2. FollowsTo(st)
  BY DEF Follows
<1> HIDE DEF st
<1>3. CASE st.ok /\ Fits(Seg)
  <2>1. At(st)
    BY <1>2, <1>3 DEF FollowsTo
  <2>2. /\ next.ok /\ Off' \in 0..Count /\ next.pos = (IF hasRest' THEN Count ELSE Off')
        /\ AllTrue(segTests') /\ {binds'[k].name : k \in DOMAIN binds'} = DOMAIN next.env
        /\ \A k \in DOMAIN binds' : binds'[k].value = next.env[binds'[k].name]
    BY <1>1, <1>3, <2>1, ArmTakes
  <2> HIDE DEF next
  <2> QED
    BY <1>1, <2>2 DEF FollowsTo, At, BindsAre, AllTrue
<1>4. CASE ~(st.ok /\ Fits(Seg))
  <2>1. ~next.ok /\ (Off' = Crash \/ Off' > Count \/ ~AllTrue(segTests'))
    BY <1>1, <1>2, <1>4, ArmRefuses DEF FollowsTo
  <2> HIDE DEF next
  <2> QED
    BY <1>1, <2>1 DEF FollowsTo, Beyond, AllTrue
<1> QED
  BY <1>3, <1>4
-----------------------------------------------------------------------------
(* No size is read from the subject, and no literal beyond the subject     *)
(* stands before a negative size: then the offset is that of Gleam, and    *)
(* either what crashes is beyond the subject for good, or a test before it *)
(* is false.                                                               *)
NoCause ==
  /\ Documented
  /\ \A l \in DOMAIN pattern :
       /\ ~SizeIsRead(l)
       /\ ~(SizeIsNegative(l) /\ \E k \in 1..l-1 : pattern[k].value = "int" /\ EndOf(k) > Count)
ACrash(tests) == \E k \in DOMAIN tests : tests[k] = Crash
FailsEarly(tests) ==
  \E k \in DOMAIN tests : tests[k] = FALSE /\ \A l \in DOMAIN tests : l <= k => tests[l] # Crash
Inwards ==
  /\ Off \in Nat /\ (hasRest \/ Off = EndOf(i - 1))
  /\ ACrash(segTests) => Off > Count /\ \E l \in 1..i-1 : pattern[l].value = "int" /\ EndOf(l) > Count
  /\ \A k \in DOMAIN binds : binds[k].value = Crash => Off > Count
Contained == NoCause => Off \in Int /\ (FailsEarly(segTests) \/ Inwards)

LEMMA EndOfNone == EndOf(0) = 0
<1>1. [m \in 1..0 |-> Bits(pattern[m], Start) \div 8] = <<>>
  OBVIOUS
<1> QED
  BY <1>1, SumOfNone DEF EndOf

LEMMA EndOfMore ==
  ASSUME Input, NEW k \in 1..Len(pattern)
  PROVE  EndOf(k) = Plus(EndOf(k - 1), Bits(pattern[k], Start) \div 8)
<1> DEFINE n == k - 1
           d(m) == Bits(pattern[m], Start) \div 8
           s == [m \in 1..n |-> d(m)]
           t == [m \in 1..k |-> d(m)]
<1>1. n \in Nat /\ k = n + 1 /\ Len(pattern) \in Nat
  BY DEF Input
<1>2. \A m \in 1..k : d(m) \in Sizes
  <2>1. ASSUME NEW m \in 1..k PROVE Bits(pattern[m], Start) \in Int
    <3>1. pattern[m] \in Segments /\ Start \in States
      BY <1>1, StartType DEF Input
    <3> QED
      BY <3>1, BitsType
  <2> QED
    BY <2>1 DEF Sizes
<1> HIDE DEF d, n
<1>3. s \in Seq(Sizes) /\ Append(s, d(k)) = t
  BY <1>1, <1>2
<1>4. SumOf(s) = EndOf(n) /\ SumOf(t) = EndOf(k) /\ d(k) \in Sizes
  BY <1>1, <1>2 DEF EndOf, d
<1> HIDE DEF s, t
<1>5. SumOf(Append(s, d(k))) = Plus(SumOf(s), d(k))
  BY <1>3, <1>4, SumOfMore
<1> QED
  BY <1>3, <1>4, <1>5 DEF d, n

(* Where a segment ends depends on nothing the compiler does.              *)
LEMMA CauseStays ==
  ASSUME UNCHANGED input
  PROVE  /\ Count' = Count /\ (NoCause' <=> NoCause)
         /\ \A k : EndOf(k)' = EndOf(k)
         /\ \A l \in DOMAIN pattern : (SizeIsRead(l)' <=> SizeIsRead(l)) /\ (SizeIsNegative(l)' <=> SizeIsNegative(l))
         /\ Documented' <=> Documented
<1>1. pattern' = pattern /\ subject' = subject /\ outer' = outer /\ Count' = Count /\ Start' = Start
  BY DEF input, Count, Start
<1>2. ASSUME NEW k PROVE EndOf(k)' = EndOf(k)
  <2>1. \A m : Bits(pattern[m], Start)' = Bits(pattern[m], Start)
    BY <1>1 DEF Bits, Size
  <2> QED
    BY <1>1, <2>1 DEF EndOf
<1>3. /\ \A l \in DOMAIN pattern : (SizeIsRead(l)' <=> SizeIsRead(l)) /\ (SizeIsNegative(l)' <=> SizeIsNegative(l))
      /\ Documented' <=> Documented
  BY <1>1 DEF SizeIsRead, SizeIsNegative, IsDyn, Documented, Listed, Sized
<1> QED
  BY <1>1, <1>2, <1>3 DEF NoCause

LEMMA FixedWidth ==
  ASSUME TypeOK, BoundBefore, NextArm, NoCause, ~IsRest(Seg)
  PROVE  /\ Width(Seg) \in Int /\ Bits(Seg, Start) \div 8 = Width(Seg)
         /\ Width(Seg) < 0 => SizeIsNegative(i) /\ IsDyn(Seg)
<1>1. /\ Seg \in Segments /\ Listed(Seg) /\ Seg = pattern[i] /\ i \in 1..Len(pattern) /\ i \in DOMAIN pattern
      /\ Seg.size.n \in Int /\ outer \in Int /\ binds \in Seq(Bindings) /\ Len(pattern) \in Nat
  BY ArmFacts, InputType, WidthType DEF TypeOK, Input, NoCause
<1>2. CASE ~IsDyn(Seg)
  <2>1. Width(Seg) \in Nat /\ Bits(Seg, Start) = 8 * Width(Seg)
    BY <1>1, <1>2, FixedBits
  <2> HIDE DEF Width, Bits
  <2>2. Bits(Seg, Start) \div 8 = Width(Seg) /\ ~(Width(Seg) < 0)
    BY <2>1
  <2> QED
    BY <2>1, <2>2
<1>3. CASE IsDyn(Seg)
  <2>1. \A k \in 1..i-1 : ~(pattern[k].value = "var" /\ pattern[k].name = Seg.size.of)
    BY <1>1, <1>3 DEF NoCause, SizeIsRead
  <2>2. \A k \in DOMAIN binds : binds[k].name # Seg.size.of
    BY <2>1 DEF BoundBefore
  <2>3. BoundAs(Seg.size.of) = {}
    BY <2>2 DEF BoundAs, ToSet
  <2>4. Dyn(Seg) = outer - Seg.size.n
    BY <1>1, <2>3, CrashAssumption DEF Dyn, SizeOf, Plus
  <2>5. Width(Seg) = outer - Seg.size.n
    BY <1>3, <2>4, Shapes DEF Width
  <2>6. Size(Seg, Start.env) = outer - Seg.size.n
    <3>1. Seg.size.of \notin DOMAIN Start.env
      BY DEF Start
    <3> QED
      BY <1>3, <3>1 DEF Size
  <2>7. Bits(Seg, Start) = 8 * (outer - Seg.size.n)
    <3>1. Seg.value # "string" /\ Sized(Seg) /\ Seg.unit \in {"bytes", "unit8"}
      BY <1>1, <1>3, Shapes
    <3> QED
      BY <2>6, <3>1 DEF Bits
  <2>8. Bits(Seg, Start) \div 8 = outer - Seg.size.n
    <3> DEFINE w == outer - Seg.size.n
    <3>1. w \in Int
      BY <1>1
    <3> HIDE DEF w
    <3>2. (8 * w) \div 8 = w
      BY <3>1
    <3> QED
      BY <2>7, <3>2 DEF w
  <2>9. outer - Seg.size.n < 0 => outer < Seg.size.n
    BY <1>1
  <2> QED
    BY <1>1, <1>3, <2>5, <2>8, <2>9 DEF SizeIsNegative
<1> QED
  BY <1>2, <1>3

(* A false test with no crash before it stays so.                          *)
LEMMA StillTold ==
  ASSUME TypeOK, NextArm
  PROVE  /\ FailsEarly(segTests) => FailsEarly(segTests')
         /\ ~ACrash(segTests) /\ FailsEarly(Pushed(Seg)) => FailsEarly(segTests')
<1> DEFINE S == BOOLEAN \cup {Crash}
           m == Len(segTests)
           n == Len(Pushed(Seg))
<1>1. segTests \in Seq(S) /\ Pushed(Seg) \in Seq(S) /\ segTests' = segTests \o Pushed(Seg)
  BY TestsPushed DEF TypeOK
<1>2. /\ segTests' \in Seq(S) /\ Len(segTests') = m + n /\ m \in Nat /\ n \in Nat
      /\ \A k \in 1..m : segTests'[k] = segTests[k]
      /\ \A l \in 1..n : segTests'[m + l] = Pushed(Seg)[l]
  <2> HIDE DEF S
  <2> QED
    BY <1>1, Appended
<1>3. DOMAIN segTests = 1..m /\ DOMAIN Pushed(Seg) = 1..n /\ DOMAIN segTests' = 1..(m + n)
  <2> HIDE DEF S
  <2> QED
    BY <1>1, <1>2
<1> HIDE DEF m, n, S
<1>4. ASSUME NEW k \in 1..m, segTests[k] = FALSE, \A l \in 1..m : l <= k => segTests[l] # Crash
      PROVE  FailsEarly(segTests')
  <2>1. k \in 1..(m + n) /\ segTests'[k] = FALSE
    BY <1>2, <1>4
  <2>2. ASSUME NEW l \in 1..(m + n), l <= k PROVE segTests'[l] # Crash
    <3>1. l \in 1..m
      BY <1>2, <1>4, <2>2
    <3> QED
      BY <1>2, <1>4, <2>2, <3>1
  <2> QED
    BY <1>3, <2>1, <2>2 DEF FailsEarly
<1>5. ASSUME ~ACrash(segTests), NEW k \in 1..n, Pushed(Seg)[k] = FALSE,
             \A l \in 1..n : l <= k => Pushed(Seg)[l] # Crash
      PROVE  FailsEarly(segTests')
  <2>1. m + k \in 1..(m + n) /\ segTests'[m + k] = FALSE
    BY <1>2, <1>5
  <2>2. ASSUME NEW l \in 1..(m + n), l <= m + k PROVE segTests'[l] # Crash
    <3>1. CASE l \in 1..m
      BY <1>2, <1>3, <1>5, <3>1 DEF ACrash
    <3>2. CASE l \notin 1..m
      <4>1. l - m \in 1..n /\ m + (l - m) = l /\ l - m <= k
        BY <1>2, <2>2, <3>2
      <4> QED
        BY <1>2, <1>5, <4>1
    <3> QED
      BY <3>1, <3>2
  <2> QED
    BY <1>3, <2>1, <2>2 DEF FailsEarly
<1> QED
  BY <1>3, <1>4, <1>5 DEF FailsEarly

(* A negative size is told at once, unless a test before it crashes.       *)
LEMMA NegativeIsTold ==
  ASSUME TypeOK, NextArm, BoundBefore, NoCause, Inwards, ~IsRest(Seg), Width(Seg) < 0
  PROVE  FailsEarly(segTests')
<1>1. /\ i \in DOMAIN pattern /\ SizeIsNegative(i) /\ IsDyn(Seg) /\ Width(Seg) \in Int /\ Crash \notin Int
      /\ Count \in Nat
  BY ArmFacts, InputType, FixedWidth, CrashAssumption DEF Input
<1>2. ~ACrash(segTests)
  BY <1>1 DEF NoCause, Inwards
<1>3. Seg.value \notin {"string", "int"} /\ Dyn(Seg) = Width(Seg)
  BY <1>1, Shapes DEF Width
<1>4. Pushed(Seg) = <<Dyn(Seg) >= 0>>
  BY <1>1, <1>3 DEF Pushed, SizeTest
<1> DEFINE t == Dyn(Seg) >= 0
<1>5. t = FALSE
  BY <1>1, <1>3
<1> HIDE DEF t
<1>6. Pushed(Seg) = <<t>>
  BY <1>4 DEF t
<1>7. FailsEarly(Pushed(Seg))
  <2>1. FALSE # Crash
    BY CrashAssumption
  <2>2. DOMAIN <<FALSE>> = {1} /\ <<FALSE>>[1] = FALSE
    OBVIOUS
  <2> QED
    BY <1>5, <1>6, <2>1, <2>2 DEF FailsEarly
<1> QED
  BY <1>2, <1>7, StillTold

LEMMA ArmContained ==
  ASSUME TypeOK, RestIsLast, BoundBefore, NextArm, Contained
  PROVE  Contained'
<1>1. /\ i \in 1..Len(pattern) /\ i' = i + 1 /\ Seg = pattern[i] /\ UNCHANGED input /\ Input
      /\ Count \in Nat /\ Crash \notin Int /\ ~hasRest /\ Len(pattern) \in Nat
  BY ArmFacts, ArmOrder, InputType, CrashAssumption
<1>2. /\ Count' = Count /\ (NoCause' => NoCause)
      /\ pattern' = pattern /\ \A k : EndOf(k)' = EndOf(k)
  BY <1>1, CauseStays DEF input
<1> SUFFICES ASSUME NoCause PROVE Off' \in Int /\ (FailsEarly(segTests)' \/ Inwards')
  BY <1>2 DEF Contained
<1>3. Off \in Int /\ (FailsEarly(segTests) \/ Inwards) /\ Listed(Seg) /\ binds \in Seq(Bindings)
  BY ArmFacts DEF Contained, NoCause, TypeOK
<1>4. Off' \in Int /\ (IsRest(Seg) => Off' = Off /\ hasRest' = TRUE)
      /\ (~IsRest(Seg) => Off' = Off + Width(Seg) /\ Width(Seg) \in Int /\ Taken(Seg) = Width(Seg) /\ hasRest' = FALSE)
  <2>1. CASE IsRest(Seg)
    BY <1>1, <1>3, <2>1, OffMoves
  <2>2. CASE ~IsRest(Seg)
    <3>1. Off' = Plus(Off, Width(Seg)) /\ hasRest' = FALSE /\ Taken(Seg) = Width(Seg) /\ Width(Seg) \in Int
      BY <1>1, <2>2, OffMoves, FixedWidth DEF Taken
    <3> QED
      BY <1>1, <1>3, <2>2, <3>1 DEF Plus
  <2> QED
    BY <2>1, <2>2
<1>5. FailsEarly(segTests) => FailsEarly(segTests)'
  BY StillTold DEF FailsEarly
<1>6. CASE Inwards /\ ~IsRest(Seg) /\ Width(Seg) < 0
  <2>1. FailsEarly(segTests')
    BY <1>6, NegativeIsTold
  <2> QED
    BY <1>4, <2>1 DEF FailsEarly
<1>7. CASE Inwards /\ (IsRest(Seg) \/ ~(Width(Seg) < 0))
  <2>1. /\ Off \in Nat /\ Off = EndOf(i - 1)
        /\ ACrash(segTests) => Off > Count /\ \E l \in 1..i-1 : pattern[l].value = "int" /\ EndOf(l) > Count
        /\ \A k \in DOMAIN binds : binds[k].value = Crash => Off > Count
    BY <1>1, <1>7 DEF Inwards
  <2>2. /\ Taken(Seg) \in Int /\ Off' \in Nat /\ Off' >= Off
        /\ Off + Taken(Seg) > Count => Off' > Count
        /\ Taken(Seg) < 0 => Off' > Count
    BY <1>1, <1>4, <1>7, <2>1 DEF Taken
  <2>3. ~IsRest(Seg) => Off' = EndOf(i)
    <3> SUFFICES ASSUME ~IsRest(Seg) PROVE Off' = EndOf(i)
      OBVIOUS
    <3>1. EndOf(i) = Plus(EndOf(i - 1), Bits(Seg, Start) \div 8) /\ Bits(Seg, Start) \div 8 = Width(Seg)
      BY <1>1, EndOfMore, FixedWidth
    <3> QED
      BY <1>1, <1>4, <2>1, <3>1 DEF Plus
  <2>4. hasRest' \/ Off' = EndOf(i)
    BY <1>4, <2>3
  <2>5. ASSUME NEW k \in DOMAIN segTests', segTests'[k] = Crash
        PROVE  Off' > Count /\ \E l \in 1..i : pattern[l].value = "int" /\ EndOf(l) > Count
    <3>1. CASE k \in DOMAIN segTests /\ segTests'[k] = segTests[k]
      <4>1. Off > Count /\ \E l \in 1..i-1 : pattern[l].value = "int" /\ EndOf(l) > Count
        BY <2>1, <2>5, <3>1 DEF ACrash
      <4>2. \A l \in 1..i-1 : l \in 1..i
        BY <1>1
      <4> QED
        BY <1>1, <2>1, <2>2, <4>1, <4>2
    <3>2. CASE \E l \in DOMAIN Pushed(Seg) : segTests'[k] = Pushed(Seg)[l]
      <4>1. Off + Taken(Seg) > Count /\ Seg.value = "int"
        BY <2>1, <2>2, <2>5, <3>2, PushedIs
      <4>2. ~IsRest(Seg)
        BY <4>1, Shapes
      <4> QED
        BY <1>1, <2>2, <2>3, <4>1, <4>2
    <3> QED
      BY <3>1, <3>2, TestsGrow
  <2>6. ASSUME NEW k \in DOMAIN binds', binds'[k].value = Crash PROVE Off' > Count
    <3>1. CASE Seg.value # "var" \/ k \in DOMAIN binds
      <4>1. k \in DOMAIN binds /\ binds'[k] = binds[k]
        <5>1. CASE Seg.value # "var"
          BY <2>6, <5>1, BindsPushed
        <5>2. CASE Seg.value = "var"
          <6>1. binds' = Append(binds, [name |-> Seg.name, value |-> Value(Seg)]) /\ k \in DOMAIN binds
            BY <3>1, <5>2, BindsPushed
          <6> QED
            BY <1>3, <6>1
        <5> QED
          BY <5>1, <5>2
      <4> QED
        BY <1>1, <2>1, <2>2, <2>6, <4>1
    <3>2. CASE Seg.value = "var" /\ k \notin DOMAIN binds
      <4>1. binds' = Append(binds, [name |-> Seg.name, value |-> Value(Seg)])
        BY <3>2, BindsPushed
      <4>2. binds'[k].value = Value(Seg)
        BY <1>3, <2>6, <3>2, <4>1
      <4>3. Value(Seg) = IF Taken(Seg) >= 0 /\ Off + Taken(Seg) <= Count
                           THEN <<Type(Seg), Bytes(Off, Taken(Seg))>> ELSE Crash
        BY <1>3, <2>1, <2>2, <3>2, ValueIs
      <4>4. CASE Taken(Seg) >= 0 /\ Off + Taken(Seg) <= Count
        <5>1. Off >= 0 /\ Bytes(Off, Taken(Seg)) \in Seq(Byte)
          <6>1. /\ Off \in Int /\ Off >= 0 /\ Taken(Seg) \in Int /\ Taken(Seg) >= 0
                /\ subject \in Seq(Byte) /\ Off + Taken(Seg) <= Len(subject)
            BY <1>1, <2>1, <2>2, <4>4 DEF Input, Count
          <6> QED
            BY ONLY <6>1 DEF Bytes
        <5>2. Type(Seg) \in {"int", "bytes"}
          BY DEF Type
        <5>3. Value(Seg) \in {"int", "bytes"} \X Seq(Byte)
          BY <4>3, <4>4, <5>1, <5>2
        <5> QED
          BY <2>6, <4>2, <5>3, CrashAssumption
      <4>5. CASE ~(Taken(Seg) >= 0 /\ Off + Taken(Seg) <= Count)
        BY <1>1, <2>1, <2>2, <4>5
      <4> QED
        BY <4>4, <4>5
    <3> QED
      BY <3>1, <3>2
  <2>7. i' - 1 = i
    BY <1>1
  <2>8. Inwards'
    BY <1>2, <2>2, <2>4, <2>5, <2>6, <2>7 DEF Inwards, ACrash
  <2> QED
    BY <1>4, <2>8
<1> QED
  BY <1>3, <1>4, <1>5, <1>6, <1>7
-----------------------------------------------------------------------------
(* The test on the length is left out only where the offset is zero.       *)
LEMMA LengthTestIs ==
  ASSUME TypeOK
  PROVE  \/ LengthTest = <<>> /\ Off = 0 /\ hasRest
         \/ \E t \in BOOLEAN \cup {Crash} :
              /\ LengthTest = <<t>> /\ (t = Crash <=> Off = Crash)
              /\ t = TRUE <=> Off # Crash /\ IF hasRest THEN Count >= Off ELSE Count = Off
<1>1. CASE hasRest /\ constOff = 0 /\ dynOff = <<>>
  <2>1. LengthTest = <<>>
    BY <1>1 DEF LengthTest
  <2>2. Off = 0
    BY <1>1, SumOfNone, CrashAssumption DEF Off, Plus
  <2> QED
    BY <1>1, <2>1, <2>2
<1>2. CASE ~(hasRest /\ constOff = 0 /\ dynOff = <<>>)
  <2> DEFINE t == IF Off = Crash THEN Crash ELSE IF hasRest THEN Count >= Off ELSE Count = Off
  <2>1. LengthTest = <<t>>
    BY <1>2 DEF LengthTest
  <2>2. (Count >= Off) \in BOOLEAN /\ (Count = Off) \in BOOLEAN /\ Crash \notin BOOLEAN
    BY CrashAssumption
  <2>3. t \in BOOLEAN \cup {Crash} /\ (t = Crash <=> Off = Crash)
    BY <2>2
  <2>4. t = TRUE <=> Off # Crash /\ IF hasRest THEN Count >= Off ELSE Count = Off
    BY <2>2
  <2> HIDE DEF t
  <2> QED
    BY <2>1, <2>3, <2>4
<1> QED
  BY <1>1, <1>2

LEMMA TestsAre ==
  ASSUME TypeOK
  PROVE  /\ Tests \in Seq(BOOLEAN \cup {Crash})
         /\ LengthTest = <<>> => Tests = segTests
         /\ \A t : LengthTest = <<t>> =>
              /\ 1 \in DOMAIN Tests /\ Tests[1] = t
              /\ \A k \in DOMAIN Tests \ {1} : k - 1 \in DOMAIN segTests /\ Tests[k] = segTests[k - 1]
              /\ \A k \in DOMAIN segTests : k + 1 \in DOMAIN Tests /\ Tests[k + 1] = segTests[k]
<1> DEFINE S == BOOLEAN \cup {Crash}
<1>1. segTests \in Seq(S)
  BY DEF TypeOK
<1>2. LengthTest \in Seq(S)
  <2>1. CASE LengthTest = <<>>
    BY <2>1
  <2>2. ASSUME NEW t \in S, LengthTest = <<t>> PROVE LengthTest \in Seq(S)
    <3> HIDE DEF S
    <3> QED
      BY <2>2
  <2> QED
    BY <2>1, <2>2, LengthTestIs
<1>3. Tests \in Seq(S)
  <2> HIDE DEF S
  <2> QED
    BY <1>1, <1>2 DEF Tests
<1>4. LengthTest = <<>> => Tests = segTests
  <2> HIDE DEF S
  <2> QED
    BY <1>1 DEF Tests
<1>5. ASSUME NEW t, LengthTest = <<t>>
      PROVE  /\ 1 \in DOMAIN Tests /\ Tests[1] = t
             /\ \A k \in DOMAIN Tests \ {1} : k - 1 \in DOMAIN segTests /\ Tests[k] = segTests[k - 1]
             /\ \A k \in DOMAIN segTests : k + 1 \in DOMAIN Tests /\ Tests[k + 1] = segTests[k]
  <2> DEFINE n == Len(segTests)
  <2>1. Tests = LengthTest \o segTests
    BY DEF Tests
  <2> HIDE DEF S, n
  <2>2. Len(LengthTest) = 1 /\ LengthTest[1] = t
    BY <1>5
  <2>3. /\ Len(Tests) = 1 + n /\ n \in Nat /\ DOMAIN Tests = 1..1+n /\ DOMAIN segTests = 1..n
        /\ Tests[1] = t /\ \A k \in 1..n : Tests[1 + k] = segTests[k]
    <3>1. /\ Len(Tests) = Len(LengthTest) + Len(segTests) /\ Len(segTests) \in Nat
          /\ \A k \in 1..Len(LengthTest) : Tests[k] = LengthTest[k]
          /\ \A k \in 1..Len(segTests) : Tests[Len(LengthTest) + k] = segTests[k]
      BY <1>1, <1>2, <2>1, Appended
    <3>2. Len(Tests) = 1 + n /\ n \in Nat /\ \A k \in 1..n : Tests[1 + k] = segTests[k]
      BY <2>2, <3>1 DEF n
    <3> QED
      BY <1>1, <1>3, <2>2, <3>1, <3>2 DEF n
  <2>4. ASSUME NEW k \in DOMAIN Tests \ {1} PROVE k - 1 \in DOMAIN segTests /\ Tests[k] = segTests[k - 1]
    <3>1. k - 1 \in 1..n /\ 1 + (k - 1) = k
      BY <2>3
    <3> QED
      BY <2>3, <3>1
  <2> QED
    BY <2>3, <2>4
<1> QED
  BY <1>3, <1>4, <1>5

(* The emitted `and` and the bindings after it.                            *)
BindCrashes == \E k \in DOMAIN binds : binds[k].value = Crash
TestCrashes == \E k \in DOMAIN Tests : Tests[k] = Crash /\ \A l \in DOMAIN Tests : l < k => Tests[l] = TRUE

LEMMA VerdictIs ==
  ASSUME TypeOK
  PROVE  /\ Verdict \in {"match", "mismatch", "crash"}
         /\ Verdict = "match" <=> AllTrue(Tests) /\ ~BindCrashes
         /\ Verdict = "crash" => TestCrashes \/ (AllTrue(Tests) /\ BindCrashes)
<1> DEFINE failing == {k \in 1..Len(Tests) : Tests[k] # TRUE}
           first == CHOOSE k \in failing : \A l \in failing : k <= l
           crashing == \E b \in ToSet(binds) : b.value = Crash
<1>1. Len(Tests) \in Nat /\ DOMAIN Tests = 1..Len(Tests)
  BY TestsAre
<1>2. failing = {} <=> AllTrue(Tests)
  BY <1>1 DEF AllTrue
<1>3. crashing <=> BindCrashes
  BY DEF BindCrashes, ToSet
<1>4. Verdict = IF failing # {} THEN (IF Tests[first] = Crash THEN "crash" ELSE "mismatch")
                ELSE IF crashing THEN "crash" ELSE "match"
  BY DEF Verdict
<1> HIDE DEF first, crashing
<1>5. CASE failing = {}
  <2> HIDE DEF failing
  <2> QED
    BY <1>2, <1>3, <1>4, <1>5
<1>6. CASE failing # {}
  <2>1. failing \in SUBSET Nat
    <3>1. failing \subseteq 1..Len(Tests)
      OBVIOUS
    <3>2. 1..Len(Tests) \subseteq Nat
      BY <1>1
    <3> HIDE DEF failing
    <3> QED
      BY <3>1, <3>2
  <2>2. \E k \in failing : \A l \in failing : k <= l
    <3> HIDE DEF failing
    <3> QED
      BY <1>6, <2>1, LeastIndex
  <2>3. first \in failing /\ \A l \in failing : first <= l
    <3> HIDE DEF failing
    <3> QED
      BY <2>2 DEF first
  <2>4. first \in DOMAIN Tests /\ \A l \in DOMAIN Tests : l < first => Tests[l] = TRUE
    <3>1. first \in 1..Len(Tests)
      BY <2>3
    <3>2. ASSUME NEW l \in DOMAIN Tests, l < first PROVE Tests[l] = TRUE
      <4>1. l \in 1..Len(Tests)
        BY <1>1
      <4>2. ~(first <= l)
        BY <1>1, <3>1, <3>2, <4>1
      <4> QED
        BY <2>3, <4>1, <4>2
    <3> QED
      BY <1>1, <3>1, <3>2
  <2>5. Tests[first] = Crash => TestCrashes
    BY <2>4 DEF TestCrashes
  <2> HIDE DEF failing
  <2> QED
    BY <1>2, <1>4, <1>6, <2>5
<1> QED
  BY <1>5, <1>6

(* Where the test on the length passes, the offset is inside the subject.  *)
LEMMA LengthHolds ==
  ASSUME TypeOK, LengthTest = <<>> \/ Tests[1] = TRUE
  PROVE  Off # Crash /\ Off \in Int /\ Count >= Off /\ (hasRest \/ Count = Off)
<1>1. Off \in Sizes /\ Count \in Nat /\ Crash \notin Int
  BY OffType, InputType, CrashAssumption
<1>2. CASE LengthTest = <<>>
  <2>1. ~\E t : LengthTest = <<t>>
    BY <1>2
  <2>2. Off = 0 /\ hasRest
    BY <2>1, LengthTestIs
  <2> QED
    BY <1>1, <2>2
<1>3. CASE LengthTest # <<>>
  <2>1. PICK t \in BOOLEAN \cup {Crash} :
          /\ LengthTest = <<t>> /\ (t = Crash <=> Off = Crash)
          /\ t = TRUE <=> Off # Crash /\ IF hasRest THEN Count >= Off ELSE Count = Off
    BY <1>3, LengthTestIs
  <2>2. t = TRUE
    BY <1>3, <2>1, TestsAre
  <2>3. Off # Crash /\ Off \in Int
    BY <1>1, <2>1, <2>2 DEF Sizes
  <2>4. IF hasRest THEN Count >= Off ELSE Count = Off
    BY <2>1, <2>2
  <2> QED
    BY <1>1, <2>3, <2>4
<1> QED
  BY <1>2, <1>3

LEMMA AllTestsTrue ==
  ASSUME TypeOK
  PROVE  /\ AllTrue(Tests) => AllTrue(segTests) /\ (LengthTest = <<>> \/ Tests[1] = TRUE)
         /\ AllTrue(segTests) /\ (LengthTest = <<>> \/ Tests[1] = TRUE) => AllTrue(Tests)
<1>1. CASE LengthTest = <<>>
  BY <1>1, TestsAre
<1>2. ASSUME NEW t, LengthTest = <<t>>
      PROVE  /\ AllTrue(Tests) => AllTrue(segTests) /\ (LengthTest = <<>> \/ Tests[1] = TRUE)
             /\ AllTrue(segTests) /\ (LengthTest = <<>> \/ Tests[1] = TRUE) => AllTrue(Tests)
  <2>1. /\ 1 \in DOMAIN Tests /\ Tests[1] = t
        /\ \A k \in DOMAIN Tests \ {1} : k - 1 \in DOMAIN segTests /\ Tests[k] = segTests[k - 1]
        /\ \A k \in DOMAIN segTests : k + 1 \in DOMAIN Tests /\ Tests[k + 1] = segTests[k]
    BY <1>2, TestsAre
  <2>2. LengthTest # <<>>
    BY <1>2
  <2> QED
    BY <2>1, <2>2 DEF AllTrue
<1> QED
  BY <1>1, <1>2, LengthTestIs

LEMMA AtTheEnd ==
  ASSUME TypeOK, i > Len(pattern)
  PROVE  End = Reading[i - 1] /\ End \in States
<1>1. i - 1 = Len(pattern) /\ Len(pattern) \in Nat /\ Input
  BY InputType DEF TypeOK
<1>2. Len(pattern) \in 0..Len(pattern)
  BY <1>1
<1>3. Reading[Len(pattern)] \in States
  BY <1>1, <1>2, ReadingSteps DEF IsReading
<1> QED
  BY <1>1, <1>3 DEF End

LEMMA VerdictRight ==
  ASSUME TypeOK, Follows, i > Len(pattern), Documented
  PROVE  (Verdict = "match" <=> GleamMatches) /\ (GleamMatches => BindsAre(End.env))
<1>1. End = Reading[i - 1] /\ End \in States /\ Count \in Nat /\ FollowsTo(End)
  BY AtTheEnd, InputType DEF Follows
<1>2. ASSUME GleamMatches PROVE Verdict = "match" /\ BindsAre(End.env)
  <2>1. End.ok /\ End.pos = Count /\ At(End)
    BY <1>1, <1>2 DEF GleamMatches, FollowsTo
  <2>2. /\ Off \in 0..Count /\ Count = (IF hasRest THEN Count ELSE Off)
        /\ AllTrue(segTests) /\ BindsAre(End.env)
    BY <2>1 DEF At
  <2>3. LengthTest = <<>> \/ Tests[1] = TRUE
    <3>1. Off # Crash /\ IF hasRest THEN Count >= Off ELSE Count = Off
      BY <1>1, <2>2, CrashAssumption
    <3> QED
      BY <3>1, LengthTestIs, TestsAre
  <2>4. ~BindCrashes
    <3> SUFFICES ASSUME NEW k \in DOMAIN binds, binds[k].value = Crash PROVE FALSE
      BY DEF BindCrashes
    <3>1. binds[k].name \in DOMAIN End.env /\ binds[k].value = End.env[binds[k].name]
      BY <2>2 DEF BindsAre
    <3>2. End.env[binds[k].name] \in Values
      BY <1>1, <3>1, EnvLookup DEF States
    <3> QED
      BY <3>1, <3>2, CrashAssumption DEF Values
  <2> QED
    BY <2>2, <2>3, <2>4, AllTestsTrue, VerdictIs
<1>3. ASSUME Verdict = "match" PROVE GleamMatches
  <2>1. AllTrue(segTests) /\ (LengthTest = <<>> \/ Tests[1] = TRUE)
    BY <1>3, VerdictIs, AllTestsTrue
  <2>2. Off # Crash /\ Off \in Int /\ Count >= Off /\ (hasRest \/ Count = Off)
    BY <2>1, LengthHolds
  <2>3. ~Beyond
    BY <1>1, <2>2 DEF Beyond
  <2>4. End.ok /\ At(End)
    BY <1>1, <2>1, <2>3 DEF FollowsTo
  <2> QED
    BY <2>2, <2>4 DEF GleamMatches, At
<1> QED
  BY <1>2, <1>3

LEMMA CrashCaused ==
  ASSUME TypeOK, Contained, Verdict = "crash"
  PROVE  ~NoCause
<1> SUFFICES ASSUME NoCause PROVE FALSE
  OBVIOUS
<1>1. /\ Off \in Int /\ Off # Crash /\ Count \in Nat /\ FALSE # TRUE
      /\ FailsEarly(segTests) \/ Inwards
  BY InputType, CrashAssumption DEF Contained
<1>2. CASE AllTrue(Tests) /\ BindCrashes
  <2>1. Count >= Off /\ AllTrue(segTests)
    BY <1>2, AllTestsTrue, LengthHolds
  <2>2. ~FailsEarly(segTests)
    BY <1>1, <2>1 DEF FailsEarly, AllTrue
  <2> QED
    BY <1>1, <1>2, <2>1, <2>2 DEF BindCrashes, Inwards
<1>3. CASE TestCrashes
  <2>1. PICK k \in DOMAIN Tests : Tests[k] = Crash /\ \A l \in DOMAIN Tests : l < k => Tests[l] = TRUE
    BY <1>3 DEF TestCrashes
  <2>2. \E j \in DOMAIN segTests :
          /\ segTests[j] = Crash /\ \A l \in DOMAIN segTests : l < j => segTests[l] = TRUE
          /\ Count >= Off
    <3>1. CASE LengthTest = <<>>
      <4>1. Count >= Off /\ Tests = segTests
        BY <3>1, LengthHolds, TestsAre
      <4> QED
        BY <2>1, <4>1
    <3>2. ASSUME NEW t \in BOOLEAN \cup {Crash}, LengthTest = <<t>>, t # Crash
          PROVE  \E j \in DOMAIN segTests :
                   /\ segTests[j] = Crash /\ \A l \in DOMAIN segTests : l < j => segTests[l] = TRUE
                   /\ Count >= Off
      <4>1. 1 \in DOMAIN Tests /\ Tests[1] = t /\ Tests \in Seq(BOOLEAN \cup {Crash})
        BY <3>2, TestsAre
      <4>2. k # 1 /\ k \in Nat \ {0}
        BY <2>1, <3>2, <4>1
      <4>3. Tests[1] = TRUE
        BY <2>1, <4>1, <4>2
      <4>4. Count >= Off
        BY <4>3, LengthHolds
      <4>5. k - 1 \in DOMAIN segTests /\ segTests[k - 1] = Crash
        BY <2>1, <3>2, <4>2, TestsAre
      <4>6. ASSUME NEW l \in DOMAIN segTests, l < k - 1 PROVE segTests[l] = TRUE
        <5>1. l + 1 \in DOMAIN Tests /\ Tests[l + 1] = segTests[l]
          BY <3>2, TestsAre
        <5>2. l \in Nat
          BY DEF TypeOK
        <5> QED
          BY <2>1, <4>2, <4>6, <5>1, <5>2
      <4> QED
        BY <4>4, <4>5, <4>6
    <3> QED
      BY <1>1, <3>1, <3>2, LengthTestIs
  <2>3. PICK j \in DOMAIN segTests :
          /\ segTests[j] = Crash /\ \A l \in DOMAIN segTests : l < j => segTests[l] = TRUE
          /\ Count >= Off
    BY <2>2
  <2>4. CASE Inwards
    BY <1>1, <2>3, <2>4 DEF Inwards, ACrash
  <2>5. CASE FailsEarly(segTests)
    <3>1. PICK n \in DOMAIN segTests :
            segTests[n] = FALSE /\ \A l \in DOMAIN segTests : l <= n => segTests[l] # Crash
      BY <2>5 DEF FailsEarly
    <3>2. n \in Nat /\ j \in Nat
      BY DEF TypeOK
    <3>3. ~(j <= n) /\ ~(n < j)
      BY <1>1, <2>3, <3>1
    <3> QED
      BY <3>2, <3>3
  <2> QED
    BY <1>1, <2>4, <2>5
<1> QED
  BY <1>2, <1>3, VerdictIs
-----------------------------------------------------------------------------
(* The invariant: what the loop keeps, and what follows once it is done.   *)
LoopInv == TypeOK /\ RestIsLast /\ BoundBefore /\ Follows /\ Contained
IInv == LoopInv /\ AgreesWithGleam /\ CrashHasACause

LEMMA InitHolds == Init => IInv
<1> SUFFICES ASSUME Init PROVE IInv
  OBVIOUS
<1>1. Len(pattern) \in Nat
  BY PatternsAssumption DEF Init
<1>2. TypeOK
  <2>1. <<>> \in Seq(Sizes) /\ <<>> \in Seq(BOOLEAN \cup {Crash}) /\ <<>> \in Seq(Bindings)
    OBVIOUS
  <2>2. i = 1 /\ constOff = 0 /\ hasRest = FALSE
    BY DEF Init
  <2>3. i \in 1..Len(pattern)+1 /\ constOff \in Nat
    BY <1>1, <2>2
  <2> QED
    BY <2>1, <2>2, <2>3 DEF Init, TypeOK
<1>3. RestIsLast /\ BoundBefore
  BY DEF Init, RestIsLast, BoundBefore
<1>4. Off = 0 /\ Count \in Nat
  BY <1>2, InputType, SumOfNone, CrashAssumption DEF Init, Off, Plus
<1>5. Follows
  <2>1. Reading[i - 1] = Start
    BY <1>2, InputType, ReadingSteps DEF IsReading, Init
  <2>2. AllTrue(segTests) /\ BindsAre(Start.env)
    BY DEF Init, AllTrue, BindsAre, Start
  <2> QED
    BY <1>4, <2>1, <2>2 DEF Follows, FollowsTo, At, Start, Init
<1>6. Contained
  BY <1>4, EndOfNone DEF Contained, Inwards, ACrash, Init
<1> QED
  BY <1>2, <1>3, <1>5, <1>6 DEF IInv, LoopInv, AgreesWithGleam, CrashHasACause, Init

(* Every arm of the loop keeps the invariant.                              *)
LEMMA ArmKeeps == LoopInv /\ NextArm => IInv'
<1> SUFFICES ASSUME LoopInv, NextArm PROVE IInv'
  OBVIOUS
<1> USE DEF LoopInv
<1>1. TypeOK'
  <2>1. /\ i \in 1..Len(pattern) /\ i' = i + 1 /\ UNCHANGED input /\ UNCHANGED outcome /\ outcome = "compiling"
        /\ Len(pattern) \in Nat /\ pattern \in Patterns /\ subject \in Subjects /\ outer \in Outer
    BY ArmFacts, InputType DEF TypeOK
  <2>2. constOff' \in Nat /\ dynOff' \in Seq(Sizes) /\ hasRest' \in BOOLEAN
    BY OffMoves
  <2>3. segTests' \in Seq(BOOLEAN \cup {Crash})
    <3> DEFINE S == BOOLEAN \cup {Crash}
    <3>1. segTests \in Seq(S) /\ Pushed(Seg) \in Seq(S) /\ segTests' = segTests \o Pushed(Seg)
      BY TestsPushed DEF TypeOK
    <3>2. segTests' \in Seq(S)
      <4> HIDE DEF S
      <4> QED
        BY <3>1
    <3> QED
      BY <3>2
  <2>4. binds' \in Seq(Bindings)
    BY BindsPushed
  <2>5. Bindings' = Bindings /\ Sizes' = Sizes
    BY DEF Bindings, Sizes, Values
  <2> QED
    BY <2>1, <2>2, <2>3, <2>4, <2>5 DEF TypeOK, input
<1>2. RestIsLast' /\ BoundBefore' /\ Follows' /\ Contained'
  BY ArmOrder, ArmFollows, ArmContained
<1>3. outcome' = "compiling"
  BY ArmFacts
<1> QED
  BY <1>1, <1>2, <1>3 DEF IInv, AgreesWithGleam, CrashHasACause

(* When the loop is over, its locals stay and so does what Gleam reads.    *)
LEMMA LocalsStay ==
  ASSUME LoopInv, UNCHANGED <<input, i, constOff, dynOff, hasRest, segTests, binds>>,
         outcome' \in {"compiling", "panic", "match", "mismatch", "crash"}
  PROVE  /\ LoopInv' /\ End' = End /\ Count' = Count /\ (Documented' <=> Documented)
         /\ pattern' = pattern /\ \A k : EndOf(k)' = EndOf(k)
         /\ \A l \in DOMAIN pattern :
              (SizeIsRead(l)' <=> SizeIsRead(l)) /\ (SizeIsNegative(l)' <=> SizeIsNegative(l))
<1> USE DEF LoopInv, input
<1>1. Input /\ i - 1 \in 0..Len(pattern) /\ Len(pattern) \in 0..Len(pattern)
  BY InputType DEF TypeOK
<1>2. Reading'[i - 1] = Reading[i - 1] /\ Reading'[Len(pattern)] = Reading[Len(pattern)]
  BY <1>1, ReadingStays
<1>3. End' = End
  BY <1>2 DEF End
<1>4. /\ Count' = Count /\ Off' = Off /\ (NoCause' <=> NoCause) /\ (Documented' <=> Documented)
      /\ pattern' = pattern /\ \A k : EndOf(k)' = EndOf(k)
      /\ \A l \in DOMAIN pattern :
           (SizeIsRead(l)' <=> SizeIsRead(l)) /\ (SizeIsNegative(l)' <=> SizeIsNegative(l))
  BY CauseStays DEF Off
<1>5. TypeOK' /\ RestIsLast' /\ BoundBefore'
  BY DEF TypeOK, RestIsLast, BoundBefore
<1>6. Follows'
  BY <1>2, <1>4 DEF Follows, FollowsTo, At, Beyond, BindsAre, AllTrue
<1>7. Contained'
  <2>1. Inwards => Inwards'
    BY <1>4 DEF Inwards, ACrash
  <2>2. FailsEarly(segTests)' <=> FailsEarly(segTests)
    BY DEF FailsEarly
  <2> QED
    BY <1>4, <2>1, <2>2 DEF Contained
<1> QED
  BY <1>3, <1>4, <1>5, <1>6, <1>7

LEMMA PanicKeeps == LoopInv /\ Panic => IInv'
<1> SUFFICES ASSUME LoopInv, Panic PROVE IInv'
  OBVIOUS
<1>1. outcome' = "panic" /\ UNCHANGED <<input, i, constOff, dynOff, hasRest, segTests, binds>>
  BY DEF Panic
<1>2. LoopInv'
  BY <1>1, LocalsStay
<1> QED
  BY <1>1, <1>2 DEF IInv, AgreesWithGleam, CrashHasACause

LEMMA EvaluateKeeps == LoopInv /\ Evaluate => IInv'
<1> SUFFICES ASSUME LoopInv, Evaluate PROVE IInv'
  OBVIOUS
<1> USE DEF LoopInv
<1>1. /\ outcome' = Verdict /\ i > Len(pattern)
      /\ UNCHANGED <<input, i, constOff, dynOff, hasRest, segTests, binds>>
  BY DEF Evaluate
<1>2. Verdict \in {"match", "mismatch", "crash"}
  BY VerdictIs
<1>3. /\ LoopInv' /\ End' = End /\ Count' = Count /\ (Documented' <=> Documented)
      /\ pattern' = pattern /\ \A k : EndOf(k)' = EndOf(k)
      /\ \A l \in DOMAIN pattern :
           (SizeIsRead(l)' <=> SizeIsRead(l)) /\ (SizeIsNegative(l)' <=> SizeIsNegative(l))
  BY <1>1, <1>2, LocalsStay
<1>4. Documented => (Verdict = "match" <=> GleamMatches) /\ (GleamMatches => BindsAre(End.env))
  BY <1>1, VerdictRight
<1>5. AgreesWithGleam'
  BY <1>1, <1>3, <1>4 DEF AgreesWithGleam, GleamMatches, BindsAre
<1>6. CrashHasACause'
  <2>1. SUFFICES ASSUME Verdict = "crash", Documented PROVE CrashHasACause'
    BY <1>1, <1>3 DEF CrashHasACause
  <2>2. ~GleamMatches'
    BY <1>3, <1>4, <2>1 DEF GleamMatches
  <2>3. ~NoCause
    BY <2>1, CrashCaused
  <2>4. PICK l \in DOMAIN pattern :
          \/ SizeIsRead(l)
          \/ SizeIsNegative(l) /\ \E k \in 1..l-1 : pattern[k].value = "int" /\ EndOf(k) > Count
    BY <2>1, <2>3 DEF NoCause
  <2>5. /\ l \in DOMAIN pattern'
        /\ \/ SizeIsRead(l)'
           \/ SizeIsNegative(l)' /\ \E k \in 1..l-1 : pattern'[k].value = "int" /\ EndOf(k)' > Count'
    BY <1>3, <2>4
  <2> QED
    BY <2>2, <2>5 DEF CrashHasACause
<1> QED
  BY <1>3, <1>5, <1>6 DEF IInv

LEMMA StutterKeeps == IInv /\ UNCHANGED vars => IInv'
<1> SUFFICES ASSUME IInv, UNCHANGED vars PROVE IInv'
  OBVIOUS
<1>1. /\ outcome' = outcome /\ pattern' = pattern /\ outer' = outer /\ binds' = binds
      /\ UNCHANGED <<input, i, constOff, dynOff, hasRest, segTests, binds>>
  BY DEF vars, input
<1>2. LoopInv
  BY DEF IInv
<1>3. outcome \in {"compiling", "panic", "match", "mismatch", "crash"}
  BY <1>2 DEF LoopInv, TypeOK
<1>4. /\ LoopInv' /\ End' = End /\ Count' = Count /\ (Documented' <=> Documented)
      /\ \A k : EndOf(k)' = EndOf(k)
      /\ \A l \in DOMAIN pattern :
           (SizeIsRead(l)' <=> SizeIsRead(l)) /\ (SizeIsNegative(l)' <=> SizeIsNegative(l))
  BY <1>1, <1>2, <1>3, LocalsStay
<1>5. AgreesWithGleam'
  BY <1>1, <1>4 DEF IInv, AgreesWithGleam, GleamMatches
<1>6. CrashHasACause'
  BY <1>1, <1>4 DEF IInv, CrashHasACause, GleamMatches
<1> QED
  BY <1>4, <1>5, <1>6 DEF IInv

(* The invariant holds of every state.                                     *)
THEOREM Invariance == Spec => []IInv
<1>1. IInv /\ [Next]_vars => IInv'
  BY ArmKeeps, PanicKeeps, EvaluateKeeps, StutterKeeps DEF IInv, Next, Step, NextArm
<1> QED
  BY InitHolds, <1>1, PTL DEF Spec

(* Code that is emitted for a pattern of documented segments and does not  *)
(* crash takes the branch exactly when Gleam's pattern matches, and binds  *)
(* the same values: for patterns of any length and every subject.  Nothing *)
(* is said of a pattern with a size of :bits or a variable of unit(8).     *)
THEOREM Agreement == Spec => []AgreesWithGleam
BY Invariance, PTL DEF IInv

(* For a pattern of documented segments the code crashes only where        *)
(* Gleam's pattern does not match, and only when a size is read from the   *)
(* subject, or when a literal beyond the subject's end is tested before    *)
(* a negative size is.                                                     *)
THEOREM CrashesHaveACause == Spec => []CrashHasACause
BY Invariance, PTL DEF IInv
-----------------------------------------------------------------------------
(* The bodies of functions and branches.                                   *)
(* A text is a sequence of tokens.                                         *)
Pairs == [name : Names, of : Int, what : {"value", "temp", "part", "given"}]
Args == Seq(Int \cup Pairs)
EvalForms == {"nil", "v", "value", "check", "recur"}
Token == [form : {"let", "use", "do", "close"} \cup EvalForms, binds : Args]

(* How deep the parentheses of a text are after each of its tokens; every  *)
(* one is closed; and the first one is, at the end only.                   *)
IsDepth(t, f) ==
  /\ f \in [0..Len(t) -> Int] /\ f[0] = 0
  /\ \A m \in 1..Len(t) : f[m] = f[m - 1] + Turn(t[m])
Balanced(t) ==
  \E f : IsDepth(t, f) /\ (\A m \in 0..Len(t) : f[m] >= 0) /\ f[Len(t)] = 0
Whole(t) ==
  /\ t # <<>>
  /\ \E f : IsDepth(t, f) /\ (\A m \in 1..Len(t)-1 : f[m] > 0) /\ f[Len(t)] = 0

LEMMA TurnType == \A u \in Token : Turn(u) \in Int
BY DEF Turn, Token

LEMMA WholeIsBalanced ==
  ASSUME NEW t \in Seq(Token), Whole(t)
  PROVE  Balanced(t)
<1>1. PICK f : IsDepth(t, f) /\ (\A m \in 1..Len(t)-1 : f[m] > 0) /\ f[Len(t)] = 0
  BY DEF Whole
<1>2. Len(t) \in Nat /\ f[0] = 0 /\ \A m \in 0..Len(t) : f[m] \in Int
  <2>1. Len(t) \in Nat
    OBVIOUS
  <2> QED
    BY <1>1, <2>1 DEF IsDepth
<1>3. ASSUME NEW m \in 0..Len(t) PROVE f[m] >= 0
  <2>1. m = 0 \/ m = Len(t) \/ m \in 1..Len(t)-1
    BY <1>2
  <2> QED
    BY <1>1, <1>2, <2>1
<1> QED
  BY <1>1, <1>3 DEF Balanced

LEMMA Nothing == Balanced(<<>>)
<1> DEFINE f == [m \in 0..0 |-> 0]
<1>1. Len(<<>>) = 0
  OBVIOUS
<1>2. IsDepth(<<>>, f) /\ (\A m \in 0..0 : f[m] >= 0) /\ f[0] = 0
  BY <1>1 DEF IsDepth
<1> HIDE DEF f
<1> QED
  BY <1>1, <1>2 DEF Balanced

LEMMA Flat ==
  ASSUME NEW u \in Token, u.form \notin {"let", "use", "do", "close"}
  PROVE  Whole(<<u>>)
<1> DEFINE t == <<u>>
           f == [m \in 0..1 |-> 0]
<1>1. Len(t) = 1 /\ t[1] = u /\ t # <<>>
  OBVIOUS
<1>2. Turn(u) = 0
  BY DEF Turn, Opening
<1>3. f \in [0..1 -> Int] /\ f[0] = 0 /\ f[1] = 0
  OBVIOUS
<1> HIDE DEF f, t
<1>4. IsDepth(t, f)
  BY <1>1, <1>2, <1>3 DEF IsDepth
<1> QED
  BY <1>1, <1>3, <1>4 DEF Whole, t

(* Two texts side by side.                                                 *)
LEMMA Beside ==
  ASSUME NEW s \in Seq(Token), NEW t \in Seq(Token), Balanced(s), Balanced(t)
  PROVE  Balanced(s \o t)
<1>1. PICK f : IsDepth(s, f) /\ (\A m \in 0..Len(s) : f[m] >= 0) /\ f[Len(s)] = 0
  BY DEF Balanced
<1>2. PICK g : IsDepth(t, g) /\ (\A m \in 0..Len(t) : g[m] >= 0) /\ g[Len(t)] = 0
  BY DEF Balanced
<1> DEFINE n == Len(s)
           u == s \o t
           h == [m \in 0..Len(u) |-> IF m <= n THEN f[m] ELSE g[m - n]]
<1>3. /\ u \in Seq(Token) /\ Len(u) = n + Len(t) /\ n \in Nat /\ Len(t) \in Nat
      /\ (\A k \in 1..n : u[k] = s[k]) /\ (\A k \in 1..Len(t) : u[n + k] = t[k])
  BY Appended
<1> HIDE DEF u, n
<1>4. /\ f[0] = 0 /\ g[0] = 0 /\ f[n] = 0 /\ (\A m \in 0..n : f[m] \in Int /\ f[m] >= 0)
      /\ (\A m \in 0..Len(t) : g[m] \in Int /\ g[m] >= 0)
      /\ (\A m \in 1..n : f[m] = f[m - 1] + Turn(s[m]))
      /\ (\A m \in 1..Len(t) : g[m] = g[m - 1] + Turn(t[m]))
  BY <1>1, <1>2 DEF IsDepth, n
<1>5. \A m \in 0..Len(u) : h[m] \in Int /\ h[m] >= 0
  BY <1>3, <1>4
<1>6. ASSUME NEW m \in 1..Len(u) PROVE h[m] = h[m - 1] + Turn(u[m])
  <2>1. CASE m <= n
    <3>1. m \in 1..n /\ m - 1 \in 0..Len(u) /\ m - 1 <= n
      BY <1>3, <2>1
    <3>2. h[m] = f[m] /\ h[m - 1] = f[m - 1]
      BY <2>1, <3>1
    <3> QED
      BY <1>3, <1>4, <3>1, <3>2
  <2>2. CASE m > n
    <3>1. m - n \in 1..Len(t) /\ u[m] = t[m - n]
      <4>1. m - n \in 1..Len(t) /\ n + (m - n) = m
        BY <1>3, <2>2
      <4> QED
        BY <1>3, <4>1
    <3>2. h[m] = g[m - n] /\ g[m - n] = g[m - n - 1] + Turn(u[m])
      BY <1>3, <1>4, <2>2, <3>1
    <3>3. h[m - 1] = g[m - n - 1]
      BY <1>3, <1>4, <2>2
    <3> QED
      BY <3>2, <3>3
  <2> QED
    BY <1>3, <2>1, <2>2
<1>7. h[0] = 0 /\ h[Len(u)] = 0
  BY <1>2, <1>3, <1>4
<1>8. h \in [0..Len(u) -> Int]
  BY <1>5
<1> HIDE DEF h
<1> QED
  BY <1>5, <1>6, <1>7, <1>8 DEF Balanced, IsDepth, u

(* A text in parentheses.                                                  *)
LEMMA Wrapped ==
  ASSUME NEW o \in Token, o.form \in {"let", "use", "do"}, NEW t \in Seq(Token), Balanced(t)
  PROVE  Whole(<<o>> \o t \o <<Close>>)
<1>1. PICK f : IsDepth(t, f) /\ (\A m \in 0..Len(t) : f[m] >= 0) /\ f[Len(t)] = 0
  BY DEF Balanced
<1> DEFINE n == Len(t)
           u == <<o>> \o t \o <<Close>>
           h == [m \in 0..n+2 |-> IF m = 0 \/ m = n + 2 THEN 0 ELSE f[m - 1] + 1]
<1>2. /\ n \in Nat /\ Len(u) = n + 2 /\ u[1] = o /\ u[n + 2] = Close
      /\ \A k \in 1..n : u[k + 1] = t[k]
  OBVIOUS
<1>3. Turn(o) = 1 /\ Turn(Close) = -1
  BY DEF Turn, Opening, Close
<1>4. /\ f[0] = 0 /\ f[n] = 0 /\ (\A m \in 0..n : f[m] \in Int /\ f[m] >= 0)
      /\ (\A m \in 1..n : f[m] = f[m - 1] + Turn(t[m]))
  BY <1>1 DEF IsDepth
<1> HIDE DEF u, n
<1>5. \A m \in 0..n+2 : h[m] \in Int
  BY <1>2, <1>4
<1>6. ASSUME NEW m \in 1..n+2 PROVE h[m] = h[m - 1] + Turn(u[m])
  <2>1. CASE m = 1
    BY <1>2, <1>3, <1>4, <2>1
  <2>2. CASE m = n + 2 /\ m # 1
    BY <1>2, <1>3, <1>4, <2>2
  <2>3. CASE m # 1 /\ m # n + 2
    <3>1. m - 1 \in 1..n /\ (m - 1) + 1 = m
      BY <1>2, <2>3
    <3>2. u[m] = t[m - 1]
      BY <1>2, <3>1
    <3>3. h[m] = f[m - 1] + 1 /\ h[m - 1] = f[m - 1 - 1] + 1
      BY <1>2, <2>3
    <3>4. f[m - 1] = f[m - 1 - 1] + Turn(t[m - 1])
      BY <1>4, <3>1
    <3>5. f[m - 1] \in Int /\ f[m - 1 - 1] \in Int
      BY <1>2, <1>4, <3>1
    <3>6. Turn(t[m - 1]) \in Int
      BY DEF Turn
    <3> QED
      BY <3>2, <3>3, <3>4, <3>5, <3>6
  <2> QED
    BY <2>1, <2>2, <2>3
<1>7. h[0] = 0 /\ h[n + 2] = 0 /\ \A m \in 1..n+1 : h[m] > 0
  BY <1>2, <1>4
<1>8. h \in [0..n+2 -> Int]
  BY <1>5
<1> HIDE DEF h
<1>9. u # <<>>
  BY <1>2
<1>10. IsDepth(u, h) /\ (\A m \in 1..Len(u)-1 : h[m] > 0) /\ h[Len(u)] = 0
  BY <1>2, <1>6, <1>7, <1>8 DEF IsDepth
<1> QED
  BY <1>9, <1>10 DEF Whole, u

(* Texts whose parentheses stand at the same places.                       *)
SameForms(s, t) == Len(s) = Len(t) /\ \A m \in 1..Len(s) : s[m].form = t[m].form

LEMMA SameNesting ==
  ASSUME NEW s \in Seq(Token), NEW t \in Seq(Token), SameForms(s, t)
  PROVE  (Balanced(s) => Balanced(t)) /\ (Whole(s) => Whole(t))
<1>1. \A m \in 1..Len(s) : Turn(s[m]) = Turn(t[m])
  BY DEF SameForms, Turn
<1>2. \A f : IsDepth(s, f) => IsDepth(t, f)
  BY <1>1 DEF SameForms, IsDepth
<1>3. Len(s) = Len(t) /\ (s # <<>> => t # <<>>)
  BY DEF SameForms
<1> QED
  BY <1>2, <1>3 DEF Balanced, Whole

(* The depth before each token, as the module computes it.                 *)
LEMMA DepthIs ==
  ASSUME text \in Seq(Token), NEW f, IsDepth(text, f)
  PROVE  \A k \in 1..Len(text) : Depth(k) = f[k - 1]
<1> DEFINE n == Len(text)
           Deep(g, m) == IF m = 0 THEN 0 ELSE g[m - 1] + Turn(text[m])
           g == CHOOSE h : h = [m \in 0..n |-> Deep(h, m)]
<1>1. n \in Nat /\ f \in [0..n -> Int] /\ f[0] = 0 /\ \A m \in 1..n : f[m] = f[m - 1] + Turn(text[m])
  BY DEF IsDepth
<1>2. f = [m \in 0..n |-> Deep(f, m)]
  <2>1. ASSUME NEW m \in 0..n PROVE f[m] = Deep(f, m)
    BY <1>1
  <2> HIDE DEF Deep
  <2> QED
    BY <1>1, <2>1
<1>3. g = [m \in 0..n |-> Deep(g, m)]
  BY <1>2
<1>4. \A m \in 0..n : g[m] = Deep(g, m)
  <2> HIDE DEF g, Deep
  <2> QED
    BY <1>3
<1> HIDE DEF g
<1>5. \A m \in 0..n : g[m] = f[m]
  <2> DEFINE Bad == {m \in 0..n : g[m] # f[m]}
  <2>1. SUFFICES ASSUME Bad # {} PROVE FALSE
    OBVIOUS
  <2>2. Bad \in SUBSET Nat
    BY <1>1
  <2>3. PICK m \in Bad : \A l \in Bad : m <= l
    <3> HIDE DEF Bad
    <3> QED
      BY <2>1, <2>2, LeastIndex
  <2>4. m \in 0..n /\ g[m] # f[m] /\ g[m] = Deep(g, m)
    BY <1>4, <2>3
  <2>5. m # 0
    BY <1>1, <2>4
  <2>6. m - 1 \in 0..n /\ m \in 1..n /\ ~(m <= m - 1)
    BY <1>1, <2>4, <2>5
  <2>7. g[m - 1] = f[m - 1]
    BY <2>3, <2>6
  <2> QED
    BY <1>1, <2>4, <2>5, <2>6, <2>7
<1>6. ASSUME NEW k \in 1..n PROVE Depth(k) = f[k - 1]
  <2>1. Depth(k) = g[k - 1]
    BY DEF Depth, g
  <2>2. k - 1 \in 0..n
    BY <1>1
  <2> QED
    BY <1>5, <2>1, <2>2
<1> QED
  BY <1>6

(* Such a text is one form.                                                *)
LEMMA WholeIsOneForm ==
  ASSUME text \in Seq(Token), Whole(text)
  PROVE  Forms = 1
<1> DEFINE n == Len(text)
           S == {k \in DOMAIN text : Depth(k) = 0 /\ text[k].form # "close"}
<1>1. n \in Nat /\ DOMAIN text = 1..n /\ text # <<>>
  BY DEF Whole
<1>2. PICK f : IsDepth(text, f) /\ (\A m \in 1..n-1 : f[m] > 0) /\ f[n] = 0
  BY DEF Whole
<1>3. \A k \in 1..n : Depth(k) = f[k - 1]
  BY <1>2, DepthIs
<1>4. /\ f[0] = 0 /\ (\A m \in 0..n : f[m] \in Int)
      /\ \A m \in 1..n : f[m] = f[m - 1] + Turn(text[m])
  BY <1>1, <1>2 DEF IsDepth
<1>5. n >= 1
  BY <1>1
<1> HIDE DEF n
<1>6. text[1].form # "close"
  <2>1. SUFFICES ASSUME text[1].form = "close" PROVE FALSE
    OBVIOUS
  <2>2. Turn(text[1]) = -1
    BY <2>1 DEF Turn, Opening
  <2>3. f[1] = -1
    BY <1>1, <1>4, <1>5, <2>2
  <2> QED
    BY <1>1, <1>2, <1>5, <2>3
<1>7. \A k \in 1..n : Depth(k) = 0 <=> k = 1
  <2>1. ASSUME NEW k \in 1..n, k # 1 PROVE Depth(k) # 0
    <3>1. k - 1 \in 1..n-1 /\ k - 1 \in 0..n
      BY <1>1, <2>1
    <3>2. f[k - 1] > 0
      BY <1>2, <3>1
    <3> QED
      BY <1>3, <1>4, <3>1, <3>2
  <2>2. Depth(1) = 0
    BY <1>1, <1>3, <1>4, <1>5
  <2> QED
    BY <2>1, <2>2
<1>8. S = {1}
  BY <1>1, <1>5, <1>6, <1>7
<1>9. Forms = Cardinality(S)
  BY DEF Forms
<1> QED
  BY <1>8, <1>9, FS_Singleton

(* What a text is at every moment: its parentheses match; a recur is       *)
(* followed by nothing but them, and stands in no body with a use.         *)
Occurs(form, t) == \E k \in 1..Len(t) : t[k].form = form
RecurLast(t) ==
  \A k \in 1..Len(t) : t[k].form = "recur" => \A l \in k+1..Len(t) : t[l].form = "close"
Useless == \A k \in 1..Len(stmts) : stmts[k].kind # "use"
Good(t) ==
  /\ t \in Seq(Token) /\ Balanced(t) /\ RecurLast(t)
  /\ Occurs("recur", t) => Useless
  /\ Occurs("use", t) => ~Useless

LEMMA TokenTypes ==
  /\ \A b \in Seq(Pairs) : Let(b) \in Token /\ Use(b) \in Token
  /\ Do \in Token /\ Close \in Token
  /\ \A k \in Int, part \in EvalForms : Eval(k, part) \in Token
<1>1. \A b \in Seq(Pairs) : b \in Args
  BY DEF Args
<1>2. <<>> \in Args /\ \A k \in Int : <<k>> \in Args
  BY DEF Args
<1>3. ASSUME NEW b \in Seq(Pairs) PROVE Let(b) \in Token /\ Use(b) \in Token
  <2>1. b \in Args
    BY <1>1
  <2> QED
    BY <2>1 DEF Let, Use, Token
<1>4. Do \in Token /\ Close \in Token
  BY <1>2 DEF Do, Close, Token
<1>5. ASSUME NEW k \in Int, NEW part \in EvalForms PROVE Eval(k, part) \in Token
  <2>1. <<k>> \in Args
    BY <1>2
  <2> QED
    BY <2>1 DEF Eval, Token, EvalForms
<1> QED
  BY <1>3, <1>4, <1>5

LEMMA MoreBinds ==
  ASSUME NEW t \in Seq(Token), t # <<>>, NEW bs \in Seq(Pairs)
  PROVE  Let(bs \o Head(t).binds) \in Token /\ Use(bs \o Head(t).binds) \in Token
<1> DEFINE more == bs \o Head(t).binds
<1>1. more \in Args
  <2>1. Head(t) \in Token
    OBVIOUS
  <2>2. Head(t).binds \in Args /\ bs \in Args
    BY <2>1 DEF Token, Args
  <2> QED
    BY <2>2 DEF Args
<1> HIDE DEF more
<1>2. Let(more) \in Token /\ Use(more) \in Token
  BY <1>1 DEF Let, Use, Token
<1> QED
  BY <1>2 DEF more

LEMMA GoodNothing == Good(<<>>)
BY Nothing DEF Good, RecurLast, Occurs

LEMMA GoodEval ==
  ASSUME NEW k \in Int, NEW part \in EvalForms \ {"recur"}
  PROVE  LET t == <<Eval(k, part)>> IN
         Good(t) /\ Whole(t) /\ t # <<>> /\ Head(t).form = part /\ ~Occurs("recur", t)
<1> DEFINE u == Eval(k, part)
           t == <<u>>
<1>1. u \in Token /\ u.form = part
  <2>1. u \in Token
    BY TokenTypes
  <2> QED
    BY <2>1 DEF Eval
<1> HIDE DEF u
<1>2. t \in Seq(Token) /\ Len(t) = 1 /\ t[1] = u /\ t # <<>> /\ Head(t) = u
  BY <1>1
<1>3. Whole(t)
  BY <1>1, Flat DEF EvalForms
<1> HIDE DEF t
<1>4. Balanced(t)
  BY <1>2, <1>3, WholeIsBalanced
<1> QED
  BY <1>1, <1>2, <1>3, <1>4 DEF Good, RecurLast, Occurs, EvalForms, u, t

LEMMA GoodBeside ==
  ASSUME NEW s, Good(s), ~Occurs("recur", s), NEW t, Good(t)
  PROVE  /\ Good(s \o t)
         /\ s # <<>> => s \o t # <<>> /\ Head(s \o t) = Head(s)
<1> DEFINE u == s \o t
<1>1. s \in Seq(Token) /\ t \in Seq(Token)
  BY DEF Good
<1>2. /\ u \in Seq(Token) /\ Len(u) = Len(s) + Len(t) /\ Len(s) \in Nat /\ Len(t) \in Nat
      /\ (\A k \in 1..Len(s) : u[k] = s[k]) /\ (\A k \in 1..Len(t) : u[Len(s) + k] = t[k])
  BY <1>1, Appended
<1>3. Balanced(u)
  BY <1>1, Beside DEF Good
<1> HIDE DEF u
<1>4. ASSUME NEW k \in 1..Len(u)
      PROVE  \/ k \in 1..Len(s) /\ u[k] = s[k]
             \/ k - Len(s) \in 1..Len(t) /\ u[k] = t[k - Len(s)]
  <2>1. CASE k <= Len(s)
    BY <1>2, <2>1
  <2>2. CASE k > Len(s)
    <3>1. k - Len(s) \in 1..Len(t) /\ Len(s) + (k - Len(s)) = k
      BY <1>2, <2>2
    <3> QED
      BY <1>2, <3>1
  <2> QED
    BY <1>2, <2>1, <2>2
<1>5. \A form : Occurs(form, u) => Occurs(form, s) \/ Occurs(form, t)
  BY <1>4 DEF Occurs
<1>6. RecurLast(u)
  <2>1. SUFFICES ASSUME NEW k \in 1..Len(u), u[k].form = "recur", NEW l \in k+1..Len(u)
                 PROVE  u[l].form = "close"
    BY DEF RecurLast
  <2>2. k - Len(s) \in 1..Len(t) /\ t[k - Len(s)].form = "recur"
    BY <1>4, <2>1 DEF Occurs
  <2>3. l - Len(s) \in k - Len(s) + 1..Len(t) /\ l \in 1..Len(u) /\ ~(l \in 1..Len(s))
    BY <1>2, <2>2
  <2>4. u[l] = t[l - Len(s)]
    BY <1>4, <2>3
  <2> QED
    BY <2>2, <2>3, <2>4 DEF Good, RecurLast
<1>7. s # <<>> => u # <<>> /\ Head(u) = Head(s)
  BY <1>1, <1>2
<1> QED
  BY <1>2, <1>3, <1>5, <1>6, <1>7 DEF Good, u

LEMMA GoodWrap ==
  ASSUME NEW t, Good(t), NEW o \in Token, o.form \in {"let", "use", "do"},
         o.form = "use" => ~Useless
  PROVE  LET u == <<o>> \o t \o <<Close>> IN
         /\ Good(u) /\ Whole(u) /\ u # <<>> /\ Head(u) = o
         /\ Occurs("recur", u) => Occurs("recur", t)
<1> DEFINE n == Len(t)
           u == <<o>> \o t \o <<Close>>
<1>1. t \in Seq(Token) /\ Close \in Token /\ Close.form = "close"
  BY TokenTypes DEF Good, Close
<1>2. /\ u \in Seq(Token) /\ n \in Nat /\ Len(u) = n + 2 /\ u[1] = o /\ u[n + 2] = Close
      /\ (\A k \in 1..n : u[k + 1] = t[k]) /\ u # <<>> /\ Head(u) = o
  BY <1>1
<1>3. Whole(u)
  BY <1>1, Wrapped DEF Good
<1> HIDE DEF u, n
<1>4. Balanced(u)
  BY <1>2, <1>3, WholeIsBalanced
<1>5. ASSUME NEW k \in 1..n+2
      PROVE  \/ k = 1 /\ u[k] = o
             \/ k = n + 2 /\ u[k].form = "close"
             \/ k - 1 \in 1..n /\ u[k] = t[k - 1]
  <2>1. CASE k # 1 /\ k # n + 2
    <3>1. k - 1 \in 1..n /\ (k - 1) + 1 = k
      BY <1>2, <2>1
    <3> QED
      BY <1>2, <3>1
  <2> QED
    BY <1>1, <1>2, <2>1
<1>6. Occurs("recur", u) => Occurs("recur", t)
  BY <1>2, <1>5 DEF Occurs, n
<1>7. Occurs("use", u) => Occurs("use", t) \/ o.form = "use"
  BY <1>2, <1>5 DEF Occurs, n
<1>8. RecurLast(u)
  <2>1. SUFFICES ASSUME NEW k \in 1..n+2, u[k].form = "recur", NEW l \in k+1..n+2
                 PROVE  u[l].form = "close"
    BY <1>2 DEF RecurLast
  <2>2. k - 1 \in 1..n /\ t[k - 1].form = "recur"
    BY <1>5, <2>1
  <2>3. CASE l = n + 2
    BY <1>1, <1>2, <2>3
  <2>4. CASE l # n + 2
    <3>1. l - 1 \in (k - 1) + 1..n /\ l \in 1..n+2 /\ l # 1
      BY <1>2, <2>2, <2>4
    <3>2. u[l] = t[l - 1]
      BY <1>5, <2>4, <3>1
    <3> QED
      BY <2>2, <3>1, <3>2 DEF Good, RecurLast, n
  <2> QED
    BY <2>3, <2>4
<1> QED
  BY <1>2, <1>3, <1>4, <1>6, <1>7, <1>8 DEF Good, u

(* A text whose first token is replaced by one of the same form.           *)
LEMMA GoodMerge ==
  ASSUME NEW t, Good(t), t # <<>>, NEW o \in Token, o.form = Head(t).form
  PROVE  LET u == <<o>> \o Tail(t) IN
         /\ Good(u) /\ (Whole(t) => Whole(u)) /\ u # <<>> /\ Head(u) = o
         /\ Occurs("recur", u) => Occurs("recur", t)
<1> DEFINE u == <<o>> \o Tail(t)
<1>1. t \in Seq(Token) /\ Len(t) \in Nat \ {0} /\ Head(t) = t[1]
  BY EmptySeq DEF Good
<1>2. /\ u \in Seq(Token) /\ Len(u) = Len(t) /\ u[1] = o /\ u # <<>> /\ Head(u) = o
      /\ \A k \in 2..Len(t) : u[k] = t[k]
  BY <1>1
<1> HIDE DEF u
<1>3. \A k \in 1..Len(t) : u[k].form = t[k].form
  <2>1. \A k \in 1..Len(t) : k = 1 \/ k \in 2..Len(t)
    BY <1>1
  <2> QED
    BY <1>1, <1>2, <2>1
<1>4. SameForms(t, u)
  BY <1>2, <1>3 DEF SameForms
<1>5. Balanced(u) /\ (Whole(t) => Whole(u))
  BY <1>1, <1>2, <1>4, SameNesting DEF Good
<1>6. \A form : Occurs(form, u) => Occurs(form, t)
  BY <1>2, <1>3 DEF Occurs
<1>7. RecurLast(u)
  <2>1. \A k \in 1..Len(t) : \A l \in k+1..Len(t) : l \in 1..Len(t)
    BY <1>1
  <2> QED
    BY <1>2, <1>3, <2>1 DEF RecurLast, Good
<1> QED
  BY <1>2, <1>5, <1>6, <1>7 DEF Good, u

LEMMA GoodMergedLet ==
  ASSUME NEW bs \in Seq(Pairs), NEW t, Good(t)
  PROVE  LET u == MergedLet(bs, t) IN
         /\ Good(u) /\ u # <<>> /\ Head(u).form = "let"
         /\ t = <<>> \/ Head(t).form # "let" \/ Whole(t) => Whole(u)
         /\ Occurs("recur", u) => Occurs("recur", t)
<1> DEFINE u == MergedLet(bs, t)
<1>1. CASE t # <<>> /\ Head(t).form = "let"
  <2> DEFINE o == Let(bs \o Head(t).binds)
  <2>1. t \in Seq(Token)
    BY DEF Good
  <2>2. o \in Token
    BY <1>1, <2>1, MoreBinds
  <2>3. o \in Token /\ o.form = "let"
    BY <2>2 DEF Let
  <2>4. u = <<o>> \o Tail(t)
    BY <1>1 DEF MergedLet
  <2> HIDE DEF o, u
  <2>5. /\ Good(u) /\ (Whole(t) => Whole(u)) /\ u # <<>> /\ Head(u) = o
        /\ Occurs("recur", u) => Occurs("recur", t)
    BY <1>1, <2>3, <2>4, GoodMerge
  <2> QED
    BY <1>1, <2>3, <2>5 DEF u
<1>2. CASE ~(t # <<>> /\ Head(t).form = "let")
  <2> DEFINE o == Let(bs)
  <2>1. o \in Token /\ o.form = "let"
    BY TokenTypes DEF Let
  <2>2. u = <<o>> \o t \o <<Close>>
    BY <1>2 DEF MergedLet
  <2> HIDE DEF o, u
  <2>3. /\ Good(u) /\ Whole(u) /\ u # <<>> /\ Head(u) = o
        /\ Occurs("recur", u) => Occurs("recur", t)
    BY <2>1, <2>2, GoodWrap
  <2> QED
    BY <2>1, <2>3 DEF u
<1> QED
  BY <1>1, <1>2

(* The inductive invariant of a body.  The text begins as its first        *)
(* statement does; it is one form when that is the last statement, a use   *)
(* or an assignment, unless a let was spliced.                             *)
LetKinds == {"let", "assert let", "test", "case"}
Begins(t, kind) ==
  (Head(t).form = "let" <=> kind \in LetKinds) /\ (Head(t).form = "use" <=> kind = "use")
Closed(k) ==
  \/ k = Len(stmts) \/ stmts[k].kind \in {"use", "assert let"}
  \/ stmts[k].kind = "let" /\ ~Spliced
BodyInput ==
  /\ prefix \in Seq(Names) /\ (inFunction => prefix = <<>>)
  /\ stmts \in Seq([kind : Kinds, name : STRING]) /\ stmts # <<>>
  /\ \A k \in 1..Len(stmts) : Binds(k) => stmts[k].name \in Names
BodyType ==
  BodyInput /\ at \in 0..Len(stmts) /\ written \in BOOLEAN /\ (written => at = 0)
Growing ==
  at < Len(stmts) /\ ~written => Begins(text, stmts[at + 1].kind) /\ (Closed(at + 1) => Whole(text))
Finished == written /\ ~inFunction /\ ~Spliced /\ ~ShortLet(1) => Whole(text)
BodyInv == BodyType /\ Good(text) /\ (text = <<>> <=> at = Len(stmts)) /\ Growing /\ Finished

LEMMA BodyStarts ==
  ASSUME BodyInit, prefix \in Seq(Names), inFunction => prefix = <<>>
  PROVE  BodyInv
<1>1. /\ stmts \in Seq([kind : Kinds, name : STRING]) /\ stmts # <<>> /\ at = Len(stmts)
      /\ text = <<>> /\ written = FALSE
  BY DEF BodyInit
<1>2. Len(stmts) \in Nat
  BY <1>1
<1>3. BodyType
  <2>1. BodyInput
    <3>1. \A k \in 1..Len(stmts) : Binds(k) => stmts[k].name \in Names
      BY <1>1 DEF BodyInit
    <3> QED
      BY <1>1, <3>1, Zenon DEF BodyInput
  <2>2. written \in BOOLEAN /\ ~written
    BY <1>1, Zenon
  <2>3. at \in 0..Len(stmts)
    BY <1>1, <1>2
  <2> QED
    BY <2>1, <2>2, <2>3, Zenon DEF BodyType
<1>4. Good(text)
  BY <1>1, GoodNothing
<1>5. Growing /\ Finished
  BY <1>1, <1>2 DEF Growing, Finished
<1> QED
  BY <1>1, <1>3, <1>4, <1>5 DEF BodyInv

(* What a statement is put in front of.                                    *)
LEMMA WhatFollows ==
  ASSUME BodyInv, at > 0
  PROVE  /\ Good(Following) /\ (at = Len(stmts) => Following = <<>>)
         /\ ~written /\ at \in 1..Len(stmts) /\ at \in Int
         /\ \A form \in {"nil", "v"} :
              /\ Good(Rest(form)) /\ Rest(form) # <<>>
              /\ at = Len(stmts) => Whole(Rest(form))
              /\ at # Len(stmts) => Rest(form) = text
<1>1. /\ Len(stmts) \in Nat /\ at \in 0..Len(stmts) /\ (written => at = 0)
      /\ Good(text) /\ (text = <<>> <=> at = Len(stmts))
  BY DEF BodyInv, BodyType, BodyInput
<1>2. Good(Following) /\ (at = Len(stmts) => Following = <<>>)
  BY <1>1, GoodNothing DEF Following, AtEnd
<1>3. ASSUME NEW form \in {"nil", "v"}
      PROVE  /\ Good(Rest(form)) /\ Rest(form) # <<>>
             /\ at = Len(stmts) => Whole(Rest(form))
             /\ at # Len(stmts) => Rest(form) = text
  <2>1. form \in EvalForms \ {"recur"} /\ 0 \in Int
    BY DEF EvalForms
  <2>2. LET t == <<Eval(0, form)>> IN Good(t) /\ Whole(t) /\ t # <<>>
    BY <2>1, GoodEval
  <2> QED
    BY <1>1, <2>2 DEF Rest, AtEnd
<1> QED
  BY <1>1, <1>2, <1>3

LEMMA StatementKeeps ==
  ASSUME BodyInv, NEW kind, Statement(kind), UNCHANGED prefix,
         Good(text'), text' # <<>>, Begins(text', kind), Closed(at) => Whole(text')
  PROVE  BodyInv'
<1>1. /\ at > 0 /\ stmts[at].kind = kind /\ at' = at - 1
      /\ stmts' = stmts /\ inFunction' = inFunction /\ written' = written
  BY DEF Statement, bodyInput
<1>2. Len(stmts) \in Nat /\ at \in 1..Len(stmts) /\ ~written
  BY <1>1 DEF BodyInv, BodyType, BodyInput
<1>3. at' \in 0..Len(stmts) /\ at' < Len(stmts) /\ at' + 1 = at
  BY <1>1, <1>2
<1>4. Good(text)'
  BY <1>1 DEF Good, Useless
<1>5. Begins(text, kind)'
  BY DEF Begins
<1>6. Spliced' <=> Spliced
  BY <1>1 DEF Spliced, ShortLet
<1>7. (Closed(at + 1))' => Closed(at)
  BY <1>1, <1>3, <1>6 DEF Closed
<1>8. Whole(text)' <=> Whole(text')
  BY DEF Whole
<1>9. BodyType'
  BY <1>1, <1>2, <1>3 DEF BodyInv, BodyType, BodyInput, Binds
<1>10. Growing'
  <2>1. (stmts[at + 1].kind)' = kind
    BY <1>1, <1>3
  <2> QED
    BY <1>5, <1>7, <1>8, <2>1 DEF Growing
<1>11. Finished'
  BY <1>1, <1>2 DEF Finished
<1>12. (text = <<>> <=> at = Len(stmts))'
  BY <1>1, <1>3
<1> QED
  BY <1>4, <1>9, <1>10, <1>11, <1>12 DEF BodyInv

LEMMA SideBySide ==
  /\ \A x \in Token, y \in Token, z \in Token : <<x>> \o <<y>> \o <<z>> = <<x, y, z>>
  /\ \A x \in Token, y \in Token, z \in Token, m \in Seq(Token) :
       <<x, y>> \o m \o <<z>> = <<x>> \o (<<y>> \o m) \o <<z>>
<1>1. ASSUME NEW x \in Token, NEW y \in Token, NEW z \in Token, NEW m \in Seq(Token)
      PROVE  <<x, y>> \o m \o <<z>> = <<x>> \o (<<y>> \o m) \o <<z>>
  <2> DEFINE u == <<x, y>> \o m \o <<z>>
             w == <<x>> \o (<<y>> \o m) \o <<z>>
  <2>1. u \in Seq(Token) /\ w \in Seq(Token) /\ Len(u) = Len(m) + 3 /\ Len(w) = Len(m) + 3
    OBVIOUS
  <2>2. \A k \in 1..Len(m)+3 : u[k] = w[k]
    OBVIOUS
  <2> HIDE DEF u, w
  <2>3. u = w
    BY <2>1, <2>2
  <2> QED
    BY <2>3 DEF u, w
<1>2. ASSUME NEW x \in Token, NEW y \in Token, NEW z \in Token
      PROVE  <<x>> \o <<y>> \o <<z>> = <<x, y, z>>
  <2> DEFINE u == <<x>> \o <<y>> \o <<z>>
             w == <<x, y, z>>
  <2>1. u \in Seq(Token) /\ w \in Seq(Token) /\ Len(u) = 3 /\ Len(w) = 3
    OBVIOUS
  <2>2. \A k \in 1..3 : u[k] = w[k]
    OBVIOUS
  <2> HIDE DEF u, w
  <2>3. u = w
    BY <2>1, <2>2
  <2> QED
    BY <2>3 DEF u, w
<1> QED
  BY <1>1, <1>2

(* A statement that is evaluated and leaves nothing to close.              *)
LEMMA EvaluatedKeeps ==
  ASSUME BodyInv, NEW kind, Statement(kind), UNCHANGED prefix,
         kind \notin LetKinds \cup {"use"},
         text' = <<Eval(at, "value")>> \o Following
  PROVE  BodyInv'
<1> DEFINE e == <<Eval(at, "value")>>
<1>1. at > 0 /\ stmts[at].kind = kind
  BY DEF Statement
<1>2. Good(Following) /\ (at = Len(stmts) => Following = <<>>) /\ at \in Int
  BY <1>1, WhatFollows
<1>3. Good(e) /\ Whole(e) /\ e # <<>> /\ Head(e).form = "value" /\ ~Occurs("recur", e)
  <2>1. "value" \in EvalForms \ {"recur"}
    BY DEF EvalForms
  <2> QED
    BY <1>2, <2>1, GoodEval
<1> HIDE DEF e
<1>4. text' = e \o Following
  BY DEF e
<1>5. Good(text') /\ text' # <<>> /\ Head(text') = Head(e)
  BY <1>2, <1>3, <1>4, GoodBeside
<1>6. Begins(text', kind)
  BY <1>3, <1>5 DEF Begins, LetKinds
<1>7. Closed(at) => Whole(text')
  <2>1. SUFFICES ASSUME Closed(at) PROVE Whole(text')
    OBVIOUS
  <2>2. at = Len(stmts)
    BY <1>1, <2>1 DEF Closed, LetKinds
  <2>3. e \o <<>> = e
    <3>1. e \in Seq(Token)
      BY <1>3 DEF Good
    <3> QED
      BY <3>1
  <2> QED
    BY <1>2, <1>3, <1>4, <2>2, <2>3
<1> QED
  BY <1>5, <1>6, <1>7, StatementKeeps

(* A let that ends before what follows.                                    *)
LEMMA ShortLetKeeps ==
  ASSUME BodyInv, NEW kind, Statement(kind), UNCHANGED prefix, kind \in {"test", "case"},
         NEW b \in Pairs, NEW part \in {"check", "value"},
         text' = <<Let(<<b>>), Eval(at, part), Close>> \o Following
  PROVE  BodyInv'
<1> DEFINE e == <<Eval(at, part)>>
           o == Let(<<b>>)
           u == <<o>> \o e \o <<Close>>
<1>1. at > 0 /\ stmts[at].kind = kind
  BY DEF Statement
<1>2. Good(Following) /\ (at = Len(stmts) => Following = <<>>) /\ at \in Int
  BY <1>1, WhatFollows
<1>3. Good(e) /\ ~Occurs("recur", e)
  <2>1. part \in EvalForms \ {"recur"}
    BY DEF EvalForms
  <2> QED
    BY <1>2, <2>1, GoodEval
<1>4. o \in Token /\ o.form = "let"
  <2>1. <<b>> \in Seq(Pairs)
    OBVIOUS
  <2>2. o \in Token
    BY <2>1, TokenTypes
  <2> QED
    BY <2>2 DEF Let
<1> HIDE DEF o
<1>5. u = <<o, Eval(at, part), Close>>
  <2>1. Eval(at, part) \in Token /\ Close \in Token
    BY <1>2, TokenTypes DEF EvalForms
  <2> QED
    BY <1>4, <2>1, SideBySide
<1> HIDE DEF e
<1>6. Good(u) /\ Whole(u) /\ u # <<>> /\ Head(u) = o /\ (Occurs("recur", u) => Occurs("recur", e))
  BY <1>3, <1>4, GoodWrap
<1>7. text' = u \o Following
  BY <1>5 DEF o
<1> HIDE DEF u
<1>8. Good(text') /\ text' # <<>> /\ Head(text') = o
  BY <1>2, <1>3, <1>6, <1>7, GoodBeside
<1>9. Begins(text', kind)
  BY <1>4, <1>8 DEF Begins, LetKinds
<1>10. Closed(at) => Whole(text')
  <2>1. SUFFICES ASSUME Closed(at) PROVE Whole(text')
    OBVIOUS
  <2>2. at = Len(stmts)
    BY <1>1, <2>1 DEF Closed
  <2>3. u \o <<>> = u
    <3>1. u \in Seq(Token)
      BY <1>6 DEF Good
    <3> QED
      BY <3>1
  <2> QED
    BY <1>2, <1>6, <1>7, <2>2, <2>3
<1> QED
  BY <1>8, <1>9, <1>10, StatementKeeps

LEMMA BindingType ==
  ASSUME BodyInv, at \in 1..Len(stmts)
  PROVE  /\ \A what \in {"value", "temp", "part", "given"} :
              /\ Binds(at) => Binding(stmts[at].name, at, what) \in Pairs
              /\ Binding("v", at, what) \in Pairs
              /\ Binding("subject", at, what) \in Pairs
         /\ stmts[at].kind \in Kinds /\ at \in Int
<1>1. stmts \in Seq([kind : Kinds, name : STRING]) /\ at \in Int
  BY DEF BodyInv, BodyType, BodyInput
<1>2. stmts[at] \in [kind : Kinds, name : STRING]
  <2> DEFINE Statements == [kind : Kinds, name : STRING]
  <2>1. stmts \in Seq(Statements)
    BY <1>1
  <2> HIDE DEF Statements
  <2>2. stmts[at] \in Statements
    BY <2>1
  <2> QED
    BY <2>2 DEF Statements
<1>3. Binds(at) => stmts[at].name \in Names
  BY DEF BodyInv, BodyType, BodyInput
<1>4. stmts[at].kind \in Kinds
  BY <1>2
<1>5. "v" \in Names /\ "subject" \in Names
  BY NamesAssumption
<1> QED
  BY <1>1, <1>3, <1>4, <1>5 DEF Binding, Pairs

LEMMA AssignLetKeeps ==
  ASSUME BodyInv, AssignLet, UNCHANGED prefix
  PROVE  BodyInv'
<1> DEFINE b == Binding(stmts[at].name, at, "value")
           t == Rest("nil")
<1>1. Statement("let") /\ at > 0 /\ stmts[at].kind = "let" /\ text' = MergedLet(<<b>>, t)
  BY DEF AssignLet, Statement
<1>2. /\ at \in 1..Len(stmts) /\ ~written /\ Good(t) /\ t # <<>>
      /\ (at = Len(stmts) => Whole(t)) /\ (at # Len(stmts) => t = text)
  BY <1>1, WhatFollows
<1>3. b \in Pairs
  BY <1>1, <1>2, BindingType DEF Binds
<1> HIDE DEF b, t
<1>4. <<b>> \in Seq(Pairs)
  BY <1>3
<1>5. /\ Good(text') /\ text' # <<>> /\ Head(text').form = "let"
      /\ Head(t).form # "let" \/ Whole(t) => Whole(text')
  BY <1>1, <1>2, <1>4, GoodMergedLet
<1>6. Closed(at) => Whole(text')
  <2>1. SUFFICES ASSUME at # Len(stmts), ~Spliced, Head(t).form = "let" PROVE Whole(t)
    BY <1>1, <1>2, <1>5 DEF Closed
  <2>2. Len(stmts) \in Nat
    BY DEF BodyInv, BodyType, BodyInput
  <2>3. at < Len(stmts) /\ at \in 1..Len(stmts)-1
    BY <1>2, <2>1, <2>2
  <2>4. stmts[at + 1].kind \in LetKinds /\ (Closed(at + 1) => Whole(t))
    BY <1>2, <2>1, <2>3 DEF BodyInv, Growing, Begins
  <2>5. ~ShortLet(at + 1)
    BY <1>1, <2>1, <2>3 DEF Spliced
  <2>6. Closed(at + 1)
    <3>1. CASE at + 1 = Len(stmts)
      BY <3>1 DEF Closed
    <3>2. CASE at + 1 # Len(stmts)
      <4>1. at + 1 < Len(stmts)
        BY <2>2, <2>3, <3>2
      <4>2. stmts[at + 1].kind \in {"let", "assert let"}
        BY <2>4, <2>5, <4>1 DEF ShortLet, LetKinds
      <4> QED
        BY <2>1, <4>2 DEF Closed
    <3> QED
      BY <3>1, <3>2
  <2> QED
    BY <2>4, <2>6
<1>7. Begins(text', "let")
  BY <1>5 DEF Begins, LetKinds
<1> QED
  BY <1>1, <1>5, <1>6, <1>7, StatementKeeps

LEMMA BindingAssertKeeps ==
  ASSUME BodyInv, BindingAssert, UNCHANGED prefix
  PROVE  BodyInv'
<1> DEFINE o == Let(<<Binding("v", at, "temp")>>)
           e == <<Eval(at, "check")>>
           b == Binding(stmts[at].name, at, "part")
           t == Rest("v")
           m == MergedLet(<<b>>, t)
<1>1. /\ Statement("assert let") /\ at > 0
      /\ text' = <<o, Eval(at, "check")>> \o m \o <<Close>>
  BY DEF BindingAssert, Statement
<1>2. at \in 1..Len(stmts) /\ Good(t)
  BY <1>1, WhatFollows
<1>3. b \in Pairs /\ Binding("v", at, "temp") \in Pairs /\ at \in Int
  BY <1>1, <1>2, BindingType DEF Binds, Statement
<1>4. o \in Token /\ o.form = "let"
  <2>1. <<Binding("v", at, "temp")>> \in Seq(Pairs)
    BY <1>3
  <2>2. o \in Token
    BY <2>1, TokenTypes
  <2> QED
    BY <2>2 DEF Let
<1>5. Good(e) /\ ~Occurs("recur", e) /\ e # <<>>
  <2>1. "check" \in EvalForms \ {"recur"}
    BY DEF EvalForms
  <2> QED
    BY <1>3, <2>1, GoodEval
<1> HIDE DEF b, t
<1>6. Good(m)
  <2>1. <<b>> \in Seq(Pairs)
    BY <1>3
  <2> QED
    BY <1>2, <2>1, GoodMergedLet
<1> HIDE DEF m
<1>7. Good(e \o m)
  BY <1>5, <1>6, GoodBeside
<1>8. text' = <<o>> \o (e \o m) \o <<Close>>
  <2>1. m \in Seq(Token) /\ Eval(at, "check") \in Token /\ Close \in Token
    BY <1>3, <1>6, TokenTypes DEF Good, EvalForms
  <2> HIDE DEF o
  <2> QED
    BY <1>1, <1>4, <2>1, SideBySide
<1> HIDE DEF o, e
<1>9. Good(text') /\ Whole(text') /\ text' # <<>> /\ Head(text') = o
  BY <1>4, <1>7, <1>8, GoodWrap
<1>10. Begins(text', "assert let")
  BY <1>4, <1>9 DEF Begins, LetKinds
<1> QED
  BY <1>1, <1>9, <1>10, StatementKeeps

LEMMA TestAssertKeeps ==
  ASSUME BodyInv, TestAssert, UNCHANGED prefix
  PROVE  BodyInv'
<1>1. /\ Statement("test") /\ at > 0
      /\ text' = <<Let(<<Binding("v", at, "temp")>>), Eval(at, "check"), Close>> \o Following
  BY DEF TestAssert, Statement
<1>2. Binding("v", at, "temp") \in Pairs
  BY <1>1, WhatFollows, BindingType
<1> QED
  BY <1>1, <1>2, ShortLetKeeps

LEMMA CaseExpressionKeeps ==
  ASSUME BodyInv, CaseExpression, UNCHANGED prefix
  PROVE  BodyInv'
<1>1. /\ Statement("case") /\ at > 0
      /\ text' = <<Let(<<Binding("subject", at, "temp")>>), Eval(at, "value"), Close>>
                 \o Following
  BY DEF CaseExpression, Statement
<1>2. Binding("subject", at, "temp") \in Pairs
  BY <1>1, WhatFollows, BindingType
<1> QED
  BY <1>1, <1>2, ShortLetKeeps

(* A call that recurs has nothing after it, and no use before it.          *)
LEMMA SelfCallKeeps ==
  ASSUME BodyInv, SelfCall, UNCHANGED prefix
  PROVE  BodyInv'
<1>1. /\ Statement("self") /\ at > 0
      /\ text' = <<Eval(at, IF Recurs THEN "recur" ELSE "value")>> \o Following
  BY DEF SelfCall, Statement
<1>2. CASE ~Recurs
  <2>1. text' = <<Eval(at, "value")>> \o Following
    BY <1>1, <1>2
  <2>2. "self" \notin LetKinds \cup {"use"}
    BY DEF LetKinds
  <2> QED
    BY <1>1, <2>1, <2>2, EvaluatedKeeps
<1>3. CASE Recurs
  <2>1. at = Len(stmts) /\ Useless
    BY <1>3 DEF Recurs, AtEnd, Useless
  <2> DEFINE u == Eval(at, "recur")
             t == <<u>>
  <2>2. u \in Token /\ u.form = "recur"
    <3>1. at \in Int /\ "recur" \in EvalForms
      BY <1>1, WhatFollows DEF EvalForms
    <3>2. u \in Token
      BY <3>1, TokenTypes
    <3> QED
      BY <3>2 DEF Eval
  <2>3. text' = t
    <3>1. Following = <<>>
      BY <1>1, <2>1, WhatFollows
    <3>2. text' = t \o <<>>
      BY <1>1, <1>3, <3>1
    <3>3. t \in Seq(Token)
      BY <2>2
    <3> HIDE DEF t
    <3> QED
      BY <3>2, <3>3
  <2> HIDE DEF u
  <2>4. t \in Seq(Token) /\ Len(t) = 1 /\ t[1] = u /\ t # <<>> /\ Head(t) = u
    BY <2>2
  <2>5. Whole(t)
    BY <2>2, Flat
  <2> HIDE DEF t
  <2>6. Good(t)
    BY <2>1, <2>2, <2>4, <2>5, WholeIsBalanced DEF Good, RecurLast, Occurs
  <2>7. Begins(t, "self")
    BY <2>2, <2>4 DEF Begins, LetKinds
  <2> QED
    BY <1>1, <2>3, <2>4, <2>5, <2>6, <2>7, StatementKeeps
<1> QED
  BY <1>2, <1>3

LEMMA UseCallKeeps ==
  ASSUME BodyInv, UseCall, UNCHANGED prefix
  PROVE  BodyInv'
<1> DEFINE pair == Binding(stmts[at].name, at, "value")
<1>1. /\ Statement("use") /\ at > 0 /\ stmts[at].kind = "use"
      /\ text' = IF text # <<>> /\ Head(text).form = "use"
                   THEN <<Use(<<pair>> \o Head(text).binds)>> \o Tail(text)
                   ELSE <<Use(<<pair>>)>> \o text \o <<Close>>
  BY DEF UseCall, Statement
<1>2. at \in 1..Len(stmts) /\ ~written /\ pair \in Pairs
  BY <1>1, WhatFollows, BindingType DEF Binds
<1> HIDE DEF pair
<1>3. ~Useless
  BY <1>1, <1>2 DEF Useless
<1>4. Good(text) /\ (text = <<>> <=> at = Len(stmts)) /\ Growing
  BY DEF BodyInv
<1>5. SUFFICES Good(text') /\ Whole(text') /\ text' # <<>> /\ Head(text').form = "use"
  <2>1. Head(text').form = "use" => Begins(text', "use")
    BY DEF Begins, LetKinds
  <2> QED
    BY <1>1, <1>5, <2>1, StatementKeeps
<1>6. CASE text # <<>> /\ Head(text).form = "use"
  <2> DEFINE o == Use(<<pair>> \o Head(text).binds)
  <2>1. text \in Seq(Token) /\ <<pair>> \in Seq(Pairs)
    BY <1>2, <1>4 DEF Good
  <2>2. o \in Token
    BY <1>6, <2>1, MoreBinds
  <2>3. o \in Token /\ o.form = "use"
    BY <2>2 DEF Use
  <2> HIDE DEF o
  <2>4. text' = <<o>> \o Tail(text)
    BY <1>1, <1>6 DEF o
  <2>5. Whole(text)
    <3>1. Len(stmts) \in Nat
      BY DEF BodyInv, BodyType, BodyInput
    <3>2. at < Len(stmts)
      BY <1>2, <1>4, <1>6, <3>1
    <3> QED
      BY <1>2, <1>4, <1>6, <3>2 DEF Growing, Begins, Closed
  <2> QED
    BY <1>4, <1>6, <2>3, <2>4, <2>5, GoodMerge
<1>7. CASE ~(text # <<>> /\ Head(text).form = "use")
  <2> DEFINE o == Use(<<pair>>)
  <2>1. o \in Token
    <3>1. <<pair>> \in Seq(Pairs)
      BY <1>2
    <3> QED
      BY <3>1, TokenTypes
  <2>2. o.form = "use"
    BY DEF Use
  <2>3. text' = <<o>> \o text \o <<Close>>
    BY <1>1, <1>7
  <2> HIDE DEF o
  <2> QED
    BY <1>3, <1>4, <2>1, <2>2, <2>3, GoodWrap
<1> QED
  BY <1>6, <1>7

LEMMA SurroundKeeps ==
  ASSUME BodyInv, Surround, UNCHANGED prefix
  PROVE  BodyInv'
<1> DEFINE given == [k \in DOMAIN prefix |-> Binding(prefix[k], Given, "given")]
<1>1. /\ at = 0 /\ ~written /\ written' = TRUE
      /\ stmts' = stmts /\ inFunction' = inFunction /\ at' = at
      /\ text' = IF inFunction THEN text
                 ELSE IF prefix # <<>> THEN MergedLet(given, text)
                 ELSE IF Len(stmts) = 1 \/ Head(text).form \in {"let", "use"} THEN text
                 ELSE <<Do>> \o text \o <<Close>>
  BY DEF Surround, bodyInput
<1>2. /\ prefix \in Seq(Names) /\ Len(stmts) \in Nat \ {0} /\ Len(prefix) \in Nat
      /\ Good(text) /\ Growing
      /\ text # <<>> /\ at < Len(stmts)
  <2>1. BodyInput /\ Good(text) /\ Growing /\ (text = <<>> <=> at = Len(stmts))
    BY DEF BodyInv, BodyType
  <2>2. Len(stmts) \in Nat \ {0} /\ Len(prefix) \in Nat
    BY <2>1, EmptySeq DEF BodyInput
  <2>3. at < Len(stmts)
    BY <1>1, <2>2
  <2> QED
    BY <1>1, <2>1, <2>2, <2>3 DEF BodyInput
<1>3. Begins(text, stmts[1].kind) /\ (Closed(1) => Whole(text))
  BY <1>1, <1>2 DEF Growing
<1>4. given \in Seq(Pairs)
  <2>1. Given \in Int
    BY <1>2 DEF Given
  <2>2. \A k \in 1..Len(prefix) : prefix[k] \in Names
    BY <1>2
  <2>3. given \in [1..Len(prefix) -> Pairs]
    BY <1>2, <2>1, <2>2 DEF Binding, Pairs
  <2> HIDE DEF given
  <2> QED
    BY <1>2, <2>3
<1> HIDE DEF given
(* The text begins with a let only if that let is the whole of it.         *)
<1>5. ASSUME ~ShortLet(1), ~Spliced,
             Len(stmts) = 1 \/ Head(text).form \in {"let", "use"}
      PROVE  Whole(text)
  <2>1. CASE Len(stmts) = 1
    BY <1>3, <2>1 DEF Closed
  <2>2. CASE Len(stmts) # 1
    <3>1. 1 < Len(stmts)
      <4> DEFINE n == Len(stmts)
      <4>1. n \in Nat \ {0} /\ n # 1
        BY <1>2, <2>2
      <4> HIDE DEF n
      <4>2. 1 < n
        BY <4>1
      <4> QED
        BY <4>2 DEF n
    <3>2. stmts[1].kind \in {"let", "assert let", "use"}
      BY <1>3, <1>5, <2>2, <3>1 DEF Begins, LetKinds, ShortLet
    <3> QED
      BY <1>3, <1>5, <3>2 DEF Closed
  <2> QED
    BY <2>1, <2>2
<1>6. /\ Good(text') /\ text' # <<>>
      /\ ~inFunction /\ ~Spliced /\ ~ShortLet(1) => Whole(text')
  <2>1. CASE inFunction
    BY <1>1, <1>2, <2>1
  <2>2. CASE ~inFunction /\ prefix # <<>>
    <3>1. text' = MergedLet(given, text)
      BY <1>1, <2>2
    <3> QED
      BY <1>2, <1>4, <1>5, <3>1, GoodMergedLet
  <2>3. CASE ~inFunction /\ prefix = <<>> /\ (Len(stmts) = 1 \/ Head(text).form \in {"let", "use"})
    BY <1>1, <1>2, <1>5, <2>3
  <2>4. CASE ~inFunction /\ prefix = <<>> /\ ~(Len(stmts) = 1 \/ Head(text).form \in {"let", "use"})
    <3>1. text' = <<Do>> \o text \o <<Close>>
      BY <1>1, <2>4
    <3>2. Do \in Token /\ Do.form = "do"
      BY TokenTypes DEF Do
    <3> QED
      BY <1>2, <3>1, <3>2, GoodWrap
  <2> QED
    BY <2>1, <2>2, <2>3, <2>4
<1>7. Good(text)'
  BY <1>1, <1>6 DEF Good, Useless
<1>8. BodyType'
  <2>1. BodyType /\ written' \in BOOLEAN
    BY <1>1, Zenon DEF BodyInv
  <2> QED
    BY <1>1, <2>1 DEF BodyType, BodyInput, Binds
<1>9. Growing'
  BY <1>1 DEF Growing
<1>10. Finished'
  <2>1. (Spliced' <=> Spliced) /\ (ShortLet(1)' <=> ShortLet(1))
    BY <1>1 DEF Spliced, ShortLet
  <2> QED
    BY <1>1, <1>6, <2>1 DEF Finished, Whole
<1>11. (text = <<>> <=> at = Len(stmts))'
  BY <1>1, <1>2, <1>6
<1> QED
  BY <1>7, <1>8, <1>9, <1>10, <1>11 DEF BodyInv

LEMMA BodyStutters ==
  ASSUME BodyInv, UNCHANGED <<prefix, bodyVars>>
  PROVE  BodyInv'
BY DEF bodyVars, bodyInput, BodyInv, BodyType, BodyInput, Good, Useless, Growing, Closed,
       Spliced, ShortLet, Finished, Begins, Binds

(* The invariant of bodies holds of every state.                           *)
THEOREM BodyInvariance == BodySpec => []BodyInv
<1>1. BodyInv /\ [BodyStep /\ UNCHANGED prefix]_<<prefix, bodyVars>> => BodyInv'
  <2> SUFFICES ASSUME BodyInv, [BodyStep /\ UNCHANGED prefix]_<<prefix, bodyVars>> PROVE BodyInv'
    OBVIOUS
  <2>1. CASE UNCHANGED <<prefix, bodyVars>>
    BY <2>1, BodyStutters
  <2>2. ASSUME UNCHANGED prefix, NEW kind \in {"literal", "assert", "expr"}, Statement(kind),
               text' = <<Eval(at, "value")>> \o Following
        PROVE  BodyInv'
    <3>1. kind \notin LetKinds \cup {"use"}
      BY DEF LetKinds
    <3> QED
      BY <2>2, <3>1, EvaluatedKeeps
  <2>3. CASE LiteralAssert /\ UNCHANGED prefix
    BY <2>2, <2>3 DEF LiteralAssert
  <2>4. CASE BoolAssert /\ UNCHANGED prefix
    BY <2>2, <2>4 DEF BoolAssert
  <2>5. CASE Expression /\ UNCHANGED prefix
    BY <2>2, <2>5 DEF Expression
  <2> QED
    BY <2>1, <2>3, <2>4, <2>5, AssignLetKeeps, TestAssertKeeps, BindingAssertKeeps,
       CaseExpressionKeeps, SelfCallKeeps, UseCallKeeps, SurroundKeeps DEF BodyStep
<1> QED
  BY BodyStarts, <1>1, PTL DEF BodySpec

(* The body of a branch is one form of its if or cond, however long it is, *)
(* unless a let was spliced or the body begins with a let that ends before *)
(* it does, which is taken for the whole body.                             *)
THEOREM BranchIsOneForm == BodySpec => []OneForm
<1>1. BodyInv => OneForm
  <2> SUFFICES ASSUME BodyInv, written, ~inFunction, ~Spliced, ~ShortLet(1) PROVE Forms = 1
    BY DEF OneForm
  <2>1. text \in Seq(Token) /\ Whole(text)
    BY DEF BodyInv, Good, Finished
  <2> QED
    BY <2>1, WholeIsOneForm
<1> QED
  BY BodyInvariance, <1>1, PTL

(* A call that recurs is the last thing its function does: only closing    *)
(* parentheses follow it, and no callback of a use is around it.           *)
THEOREM RecursInTailPosition == BodySpec => []RecurInTail
<1>1. BodyInv => RecurInTail
  <2> SUFFICES ASSUME BodyInv, NEW k \in DOMAIN text, text[k].form = "recur"
               PROVE  /\ \A l \in k+1..Len(text) : text[l].form = "close"
                      /\ \A l \in 1..k-1 : text[l].form # "use"
    BY DEF RecurInTail
  <2>1. Good(text) /\ text \in Seq(Token)
    BY DEF BodyInv, Good
  <2>2. k \in 1..Len(text) /\ Len(text) \in Nat
    BY <2>1
  <2>3. Occurs("recur", text) /\ ~Occurs("use", text) /\ RecurLast(text)
    BY <2>1, <2>2 DEF Good, Occurs
  <2>4. \A l \in 1..k-1 : l \in 1..Len(text)
    BY <2>2
  <2> QED
    BY <2>2, <2>3, <2>4 DEF RecurLast, Occurs
<1> QED
  BY BodyInvariance, <1>1, PTL

-----------------------------------------------------------------------------
(* What the evaluation of a text does.  A run goes from a state to a state,*)
(* token by token; RunsTo says what a text does wherever it stands: it     *)
(* leaves the environments as they are and adds to the trace.              *)
Scopes == [Names -> Int]
Events == [of : Int, part : {"temp", "check", "value"}, env : Scopes]
LetStates == [env : Scopes, trace : Seq(Events)]
TextStates == [envs : Seq(Scopes), trace : Seq(Events)]

BindsTo(bs, e, f, ev) ==
  \A tr \in Seq(Events) :
    RunBindings([env |-> e, trace |-> tr], bs) = [env |-> f, trace |-> tr \o ev]
State(S, e, tr) == [envs |-> Append(S, e), trace |-> tr]
IsRun(t, r, s1, s2) ==
  /\ r \in [0..Len(t) -> TextStates] /\ r[0] = s1 /\ r[Len(t)] = s2
  /\ \A m \in 1..Len(t) : r[m] = RunToken(r[m - 1], t[m])
Runs(t, s1, s2) == \E r : IsRun(t, r, s1, s2)
RunsTo(t, e, ev) ==
  \A S \in Seq(Scopes), tr \in Seq(Events) : Runs(t, State(S, e, tr), State(S, e, tr \o ev))

LEMMA Joined ==
  ASSUME NEW X, NEW a \in Seq(X), NEW b \in Seq(X), NEW c \in Seq(X)
  PROVE  /\ (a \o b) \o c = a \o (b \o c) /\ a \o b \in Seq(X)
         /\ a \o <<>> = a /\ <<>> \o a = a
<1>1. (a \o b) \o c = a \o (b \o c)
  BY ConcatAssociative
<1>2. a \o b \in Seq(X)
  BY ConcatProperties
<1>3. a \o <<>> = a /\ <<>> \o a = a
  BY ConcatEmptySeq
<1> QED
  BY <1>1, <1>2, <1>3

LEMMA EventsJoined ==
  \A a, b, c \in Seq(Events) : a \o b \in Seq(Events) /\ (a \o b) \o c = a \o (b \o c)
BY Joined

(* Two functions on intervals, the second going on where the first ends.   *)
Glue(p, V, n, m, h, q) ==
  /\ p \in [0..n+m -> V] /\ p[0] = h[0] /\ p[n + m] = q[m]
  /\ \A k \in 1..n : p[k] = h[k] /\ p[k - 1] = h[k - 1]
  /\ \A k \in 1..m : p[n + k] = q[k] /\ p[n + k - 1] = q[k - 1]

LEMMA Glued ==
  ASSUME NEW V, NEW n \in Nat, NEW m \in Nat, NEW h \in [0..n -> V], NEW q \in [0..m -> V],
         h[n] = q[0]
  PROVE  \E p : Glue(p, V, n, m, h, q)
<1> DEFINE p == [k \in 0..n+m |-> IF k <= n THEN h[k] ELSE q[k - n]]
<1>1. \A k \in 0..n+m : p[k] = IF k <= n THEN h[k] ELSE q[k - n]
  OBVIOUS
<1> HIDE DEF p
<1>2. \A k \in 0..n : p[k] = h[k] /\ p[k] \in V
  <2> TAKE k \in 0..n
  <2>1. k \in 0..n+m /\ k <= n
    OBVIOUS
  <2> QED
    BY <1>1, <2>1
<1>3. \A k \in 0..m : p[n + k] = q[k] /\ p[n + k] \in V
  <2> TAKE k \in 0..m
  <2>1. n + k \in 0..n+m /\ (n + k <= n => k = 0) /\ n + k - n = k /\ n + 0 = n
    OBVIOUS
  <2>2. CASE k = 0
    BY <1>2, <2>1, <2>2
  <2>3. CASE k # 0
    BY <1>1, <2>1, <2>3
  <2> QED
    BY <2>2, <2>3
<1>4. \A k \in 0..n+m : p[k] \in V
  <2> TAKE k \in 0..n+m
  <2>1. CASE k <= n
    BY <1>2, <2>1
  <2>2. CASE k > n
    <3>1. k - n \in 0..m /\ n + (k - n) = k
      BY <2>2
    <3> QED
      BY <1>3, <3>1
  <2> QED
    BY <2>1, <2>2
<1>5. p \in [0..n+m -> V]
  BY <1>4 DEF p
<1>6. ASSUME NEW k \in 1..n PROVE p[k] = h[k] /\ p[k - 1] = h[k - 1]
  <2>1. k \in 0..n /\ k - 1 \in 0..n
    OBVIOUS
  <2> QED
    BY <1>2, <2>1
<1>7. ASSUME NEW k \in 1..m PROVE p[n + k] = q[k] /\ p[n + k - 1] = q[k - 1]
  <2>1. k \in 0..m /\ k - 1 \in 0..m /\ n + k - 1 = n + (k - 1)
    OBVIOUS
  <2> QED
    BY <1>3, <2>1
<1>8. p[0] = h[0] /\ p[n + m] = q[m]
  <2>1. 0 \in 0..n /\ m \in 0..m
    OBVIOUS
  <2> QED
    BY <1>2, <1>3, <2>1
<1> QED
  BY <1>5, <1>6, <1>7, <1>8 DEF Glue

LEMMA EventType ==
  ASSUME NEW k \in Int, NEW e \in Scopes, NEW part \in {"temp", "check", "value", "recur"}
  PROVE  Event(k, part, e) \in Events
BY DEF Event, Events

LEMMA RunBindingType ==
  ASSUME NEW st \in LetStates, NEW b \in Pairs
  PROVE  RunBinding(st, b) \in LetStates
<1>1. st.env \in Scopes /\ st.trace \in Seq(Events) /\ "v" \in Names
  BY NamesAssumption DEF LetStates
<1>2. b.name \in Names /\ b.of \in Int /\ st.env["v"] \in Int
  BY <1>1 DEF Pairs, Scopes
<1> DEFINE v == IF b.what = "part" THEN -st.env["v"] ELSE IF b.what = "temp" THEN -b.of ELSE b.of
           f == [st.env EXCEPT ![b.name] = v]
           x == Event(b.of, b.what, st.env)
           tr == IF b.what \in {"value", "temp"} THEN Append(st.trace, x) ELSE st.trace
<1>3. v \in Int
  BY <1>2
<1> HIDE DEF v
<1>4. f \in Scopes
  BY <1>1, <1>3 DEF Scopes
<1>5. b.what \in {"value", "temp"} => x \in Events
  BY <1>1, <1>2, EventType
<1> HIDE DEF x, f
<1>6. tr \in Seq(Events)
  BY <1>1, <1>5
<1>7. RunBinding(st, b) = [env |-> f, trace |-> tr]
  BY DEF RunBinding, f, v, x
<1> HIDE DEF tr
<1> QED
  BY <1>4, <1>6, <1>7 DEF LetStates

(* RunBindings goes from binding to binding.                               *)
IsBinding(bs, h, s1, s2) ==
  /\ h \in [0..Len(bs) -> LetStates] /\ h[0] = s1 /\ h[Len(bs)] = s2
  /\ \A m \in 1..Len(bs) : h[m] = RunBinding(h[m - 1], bs[m])

LEMMA BindingExists ==
  ASSUME NEW bs \in Seq(Pairs), NEW st \in LetStates
  PROVE  \E h : \E s2 \in LetStates : IsBinding(bs, h, st, s2)
<1> DEFINE n == Len(bs)
           step == [m \in 1..n |-> [s \in LetStates |-> RunBinding(s, bs[m])]]
<1>1. n \in Nat /\ \A m \in 1..n : bs[m] \in Pairs
  OBVIOUS
<1>2. Steps(step, n, LetStates)
  BY <1>1, RunBindingType DEF Steps
<1>3. PICK h : IsFold(h, step, n, LetStates, st)
  BY <1>1, <1>2, FoldExists
<1>4. h[n] \in LetStates /\ \A m \in 0..n : h[m] \in LetStates
  BY <1>1, <1>3 DEF IsFold
<1>5. ASSUME NEW m \in 1..n PROVE h[m] = RunBinding(h[m - 1], bs[m])
  <2>1. m - 1 \in 0..n
    BY <1>1
  <2>2. h[m] = step[m][h[m - 1]] /\ h[m - 1] \in LetStates
    BY <1>3, <1>4, <2>1 DEF IsFold
  <2> QED
    BY <2>2
<1>6. IsBinding(bs, h, st, h[n])
  BY <1>3, <1>5 DEF IsBinding, IsFold
<1> QED
  BY <1>4, <1>6

LEMMA BindingIs ==
  ASSUME NEW bs \in Seq(Pairs), NEW h, NEW s1, NEW s2, IsBinding(bs, h, s1, s2)
  PROVE  RunBindings(s1, bs) = s2
<1> DEFINE n == Len(bs)
           After(g, m) == IF m = 0 THEN s1 ELSE RunBinding(g[m - 1], bs[m])
           g == CHOOSE f : f = [m \in 0..n |-> After(f, m)]
<1>1. /\ n \in Nat /\ h \in [0..n -> LetStates] /\ h[0] = s1 /\ h[n] = s2
      /\ \A m \in 1..n : h[m] = RunBinding(h[m - 1], bs[m])
  BY DEF IsBinding
<1>2. h = [m \in 0..n |-> After(h, m)]
  <2>1. ASSUME NEW m \in 0..n PROVE h[m] = After(h, m)
    BY <1>1
  <2> HIDE DEF After
  <2> QED
    BY <1>1, <2>1
<1>3. g = [m \in 0..n |-> After(g, m)]
  BY <1>2
<1>4. \A m \in 0..n : g[m] = After(g, m)
  <2> HIDE DEF g, After
  <2> QED
    BY <1>3
<1>5. RunBindings(s1, bs) = g[n]
  BY DEF RunBindings, g
<1> HIDE DEF g
<1>6. SameSteps(g, h, n)
  <2>1. g[0] = h[0]
    BY <1>1, <1>4
  <2>2. \A m \in 1..n : g[m - 1] = h[m - 1] => g[m] = h[m]
    BY <1>1, <1>4
  <2> QED
    BY <2>1, <2>2 DEF SameSteps
<1>7. Same(g, h, n)
  BY <1>1, <1>6, SameFold
<1>8. g[n] = h[n]
  BY <1>1, <1>7 DEF Same
<1> QED
  BY <1>1, <1>5, <1>8

LEMMA BindNothing == ASSUME NEW e \in Scopes PROVE BindsTo(<<>>, e, e, <<>>)
<1> SUFFICES ASSUME NEW tr \in Seq(Events)
             PROVE  RunBindings([env |-> e, trace |-> tr], <<>>) = [env |-> e, trace |-> tr \o <<>>]
  BY DEF BindsTo
<1> DEFINE st == [env |-> e, trace |-> tr]
           h == [m \in 0..0 |-> st]
<1>1. st \in LetStates
  BY DEF LetStates
<1> HIDE DEF st
<1>2. IsBinding(<<>>, h, st, st)
  <2>1. Len(<<>>) = 0
    OBVIOUS
  <2> QED
    BY <1>1, <2>1 DEF IsBinding
<1>3. RunBindings(st, <<>>) = st
  <2>1. <<>> \in Seq(Pairs)
    OBVIOUS
  <2> QED
    BY <1>2, <2>1, BindingIs
<1> QED
  BY <1>3 DEF st

(* A binding of each kind.                                                 *)
LEMMA BindOne ==
  ASSUME NEW b \in Pairs, NEW e \in Scopes, NEW f, NEW ev,
         f = [e EXCEPT ![b.name] =
                IF b.what = "part" THEN -e["v"] ELSE IF b.what = "temp" THEN -b.of ELSE b.of],
         ev = IF b.what \in {"value", "temp"} THEN <<Event(b.of, b.what, e)>> ELSE <<>>
  PROVE  f \in Scopes /\ BindsTo(<<b>>, e, f, ev)
<1>1. ASSUME NEW tr \in Seq(Events)
      PROVE  /\ RunBindings([env |-> e, trace |-> tr], <<b>>) = [env |-> f, trace |-> tr \o ev]
             /\ f \in Scopes
  <2> DEFINE st == [env |-> e, trace |-> tr]
             s2 == RunBinding(st, b)
             h == [m \in 0..1 |-> IF m = 0 THEN st ELSE s2]
             bs == <<b>>
  <2>1. st \in LetStates /\ st.env = e /\ st.trace = tr
    BY DEF LetStates
  <2>2. s2 = [env |-> f, trace |-> tr \o ev]
    <3>1. s2.env = f /\ s2.trace = (IF b.what \in {"value", "temp"} THEN Append(tr, Event(b.of, b.what, e)) ELSE tr)
          /\ s2 = [env |-> s2.env, trace |-> s2.trace]
      BY DEF RunBinding
    <3>2. b.what \in {"value", "temp"} => Event(b.of, b.what, e) \in Events
      BY EventType DEF Pairs
    <3>3. tr \o <<>> = tr /\ \A x \in Events : Append(tr, x) = tr \o <<x>>
      OBVIOUS
    <3> HIDE DEF s2
    <3> QED
      BY <3>1, <3>2, <3>3
  <2> HIDE DEF st
  <2>3. s2 \in LetStates
    BY <2>1, RunBindingType
  <2> HIDE DEF s2
  <2>4. bs \in Seq(Pairs) /\ Len(bs) = 1 /\ bs[1] = b
    OBVIOUS
  <2> HIDE DEF bs
  <2>5. IsBinding(bs, h, st, s2)
    <3>1. h \in [0..1 -> LetStates] /\ h[0] = st /\ h[1] = s2
      BY <2>1, <2>3
    <3> HIDE DEF h
    <3>2. h[1] = RunBinding(h[0], bs[1])
      BY <3>1, <2>4 DEF s2
    <3> QED
      BY <3>1, <3>2, <2>4 DEF IsBinding
  <2>6. RunBindings(st, bs) = s2
    BY <2>4, <2>5, BindingIs
  <2>7. f \in Scopes
    BY <2>2, <2>3 DEF LetStates
  <2> QED
    BY <2>2, <2>6, <2>7 DEF st, bs
<1>2. <<>> \in Seq(Events)
  OBVIOUS
<1> QED
  BY <1>1, <1>2 DEF BindsTo

LEMMA BindsBoth ==
  ASSUME NEW a \in Seq(Pairs), NEW b \in Seq(Pairs), NEW e \in Scopes, NEW f \in Scopes, NEW g \in Scopes,
         NEW x \in Seq(Events), NEW y \in Seq(Events), BindsTo(a, e, f, x), BindsTo(b, f, g, y)
  PROVE  BindsTo(a \o b, e, g, x \o y)
<1> SUFFICES ASSUME NEW tr \in Seq(Events)
             PROVE  RunBindings([env |-> e, trace |-> tr], a \o b) = [env |-> g, trace |-> tr \o (x \o y)]
  BY DEF BindsTo
<1> DEFINE s1 == [env |-> e, trace |-> tr]
           s2 == [env |-> f, trace |-> tr \o x]
           s3 == [env |-> g, trace |-> tr \o (x \o y)]
           u == a \o b
           n == Len(a)
<1>1. /\ s1 \in LetStates /\ s2 \in LetStates
      /\ RunBindings(s1, a) = s2 /\ RunBindings(s2, b) = s3
  <2>1. tr \o x \in Seq(Events) /\ (tr \o x) \o y = tr \o (x \o y)
    BY EventsJoined
  <2> QED
    BY <2>1 DEF BindsTo, LetStates
<1>2. /\ u \in Seq(Pairs) /\ Len(u) = n + Len(b) /\ n \in Nat /\ Len(b) \in Nat
      /\ (\A k \in 1..n : u[k] = a[k]) /\ (\A k \in 1..Len(b) : u[n + k] = b[k])
  BY Appended
<1> HIDE DEF s1, s2, s3, u, n
<1>3. PICK h : IsBinding(a, h, s1, s2)
  BY <1>1, BindingExists, BindingIs
<1>4. PICK q : IsBinding(b, q, s2, s3)
  BY <1>1, BindingExists, BindingIs
<1> DEFINE m == Len(b)
<1>5. /\ h \in [0..n -> LetStates] /\ q \in [0..m -> LetStates]
      /\ h[0] = s1 /\ h[n] = s2 /\ q[0] = s2 /\ q[m] = s3
      /\ (\A k \in 1..n : h[k] = RunBinding(h[k - 1], a[k]))
      /\ (\A k \in 1..m : q[k] = RunBinding(q[k - 1], b[k]))
  BY <1>3, <1>4 DEF IsBinding, n
<1>6. PICK p : Glue(p, LetStates, n, m, h, q)
  <2>1. n \in Nat /\ m \in Nat
    BY <1>2
  <2>2. h \in [0..n -> LetStates] /\ q \in [0..m -> LetStates] /\ h[n] = q[0]
    BY <1>5
  <2> HIDE DEF m
  <2> QED
    BY ONLY <2>1, <2>2, Glued
<1> HIDE DEF m
<1>7. ASSUME NEW k \in 1..Len(u) PROVE p[k] = RunBinding(p[k - 1], u[k])
  <2>1. CASE k <= n
    <3>1. k \in 1..n
      BY <1>2, <2>1
    <3> QED
      BY <1>2, <1>5, <1>6, <3>1 DEF Glue
  <2>2. CASE k > n
    <3> DEFINE l == k - n
    <3>1. l \in 1..m /\ n + l = k
      BY <1>2, <2>2 DEF m
    <3> HIDE DEF l
    <3>2. p[n + l] = q[l] /\ p[n + l - 1] = q[l - 1] /\ u[n + l] = b[l]
      BY <1>2, <1>6, <3>1 DEF m, Glue
    <3>3. q[l] = RunBinding(q[l - 1], b[l])
      BY <1>5, <3>1
    <3>4. k = n + l /\ k - 1 = n + l - 1
      BY <1>2, <3>1 DEF m
    <3> QED
      BY ONLY <3>2, <3>3, <3>4
  <2> QED
    BY <1>2, <2>1, <2>2
<1>10. IsBinding(u, p, s1, s3)
  BY <1>2, <1>5, <1>6, <1>7 DEF IsBinding, m, Glue
<1> QED
  BY <1>2, <1>10, BindingIs DEF s1, s3, u

-----------------------------------------------------------------------------
LEMMA StateType ==
  ASSUME NEW S \in Seq(Scopes), NEW e \in Scopes, NEW tr \in Seq(Events)
  PROVE  State(S, e, tr) \in TextStates
BY DEF State, TextStates

LEMMA RunsNothing == ASSUME NEW e \in Scopes PROVE RunsTo(<<>>, e, <<>>)
<1> SUFFICES ASSUME NEW S \in Seq(Scopes), NEW tr \in Seq(Events)
             PROVE  Runs(<<>>, State(S, e, tr), State(S, e, tr \o <<>>))
  BY DEF RunsTo
<1> DEFINE s == State(S, e, tr)
           r == [m \in 0..0 |-> s]
<1>1. s \in TextStates /\ tr \o <<>> = tr /\ Len(<<>>) = 0
  BY StateType, ConcatEmptySeq
<1> HIDE DEF s
<1>2. IsRun(<<>>, r, s, s)
  BY <1>1 DEF IsRun
<1> HIDE DEF r
<1> QED
  BY <1>1, <1>2 DEF Runs, s

LEMMA RunsOne ==
  ASSUME NEW u \in Token, NEW s1 \in TextStates, NEW s2 \in TextStates, s2 = RunToken(s1, u)
  PROVE  Runs(<<u>>, s1, s2)
<1> DEFINE t == <<u>>
           r == [m \in 0..1 |-> IF m = 0 THEN s1 ELSE s2]
<1>1. Len(t) = 1 /\ t[1] = u
  OBVIOUS
<1>2. r \in [0..1 -> TextStates] /\ r[0] = s1 /\ r[1] = s2
  OBVIOUS
<1> HIDE DEF t, r
<1>3. IsRun(t, r, s1, s2)
  BY <1>1, <1>2 DEF IsRun
<1> QED
  BY <1>3 DEF Runs, t

LEMMA RunsOn ==
  ASSUME NEW a \in Seq(Token), NEW b \in Seq(Token), NEW s1, NEW s2, NEW s3,
         Runs(a, s1, s2), Runs(b, s2, s3)
  PROVE  Runs(a \o b, s1, s3)
<1> DEFINE u == a \o b
           n == Len(a)
           m == Len(b)
<1>2. /\ u \in Seq(Token) /\ Len(u) = n + m /\ n \in Nat /\ m \in Nat
      /\ (\A k \in 1..n : u[k] = a[k]) /\ (\A k \in 1..m : u[n + k] = b[k])
  BY Appended
<1>3. PICK h : IsRun(a, h, s1, s2)
  BY DEF Runs
<1>4. PICK q : IsRun(b, q, s2, s3)
  BY DEF Runs
<1> HIDE DEF u
<1>5. /\ h \in [0..n -> TextStates] /\ q \in [0..m -> TextStates]
      /\ h[0] = s1 /\ h[n] = s2 /\ q[0] = s2 /\ q[m] = s3
      /\ (\A k \in 1..n : h[k] = RunToken(h[k - 1], a[k]))
      /\ (\A k \in 1..m : q[k] = RunToken(q[k - 1], b[k]))
  BY <1>3, <1>4 DEF IsRun
<1> HIDE DEF n, m
<1>6. PICK p : Glue(p, TextStates, n, m, h, q)
  <2>1. n \in Nat /\ m \in Nat
    BY <1>2
  <2>2. h \in [0..n -> TextStates] /\ q \in [0..m -> TextStates] /\ h[n] = q[0]
    BY <1>5
  <2> QED
    BY ONLY <2>1, <2>2, Glued
<1>7. ASSUME NEW k \in 1..Len(u) PROVE p[k] = RunToken(p[k - 1], u[k])
  <2>1. CASE k <= n
    <3>1. k \in 1..n
      BY <1>2, <2>1
    <3> QED
      BY <1>2, <1>5, <1>6, <3>1 DEF Glue
  <2>2. CASE k > n
    <3> DEFINE l == k - n
    <3>1. l \in 1..m /\ n + l = k
      BY <1>2, <2>2
    <3> HIDE DEF l
    <3>2. p[n + l] = q[l] /\ p[n + l - 1] = q[l - 1] /\ u[n + l] = b[l]
      BY <1>2, <1>6, <3>1 DEF Glue
    <3>3. q[l] = RunToken(q[l - 1], b[l])
      BY <1>5, <3>1
    <3>4. k = n + l /\ k - 1 = n + l - 1
      BY <1>2, <3>1
    <3> QED
      BY ONLY <3>2, <3>3, <3>4
  <2> QED
    BY <1>2, <2>1, <2>2
<1>8. IsRun(u, p, s1, s3)
  BY <1>2, <1>5, <1>6, <1>7 DEF IsRun, Glue
<1> QED
  BY <1>8 DEF Runs, u

LEMMA RunsBeside ==
  ASSUME NEW a \in Seq(Token), NEW b \in Seq(Token), NEW e \in Scopes,
         NEW x \in Seq(Events), NEW y \in Seq(Events), RunsTo(a, e, x), RunsTo(b, e, y)
  PROVE  RunsTo(a \o b, e, x \o y)
<1> SUFFICES ASSUME NEW S \in Seq(Scopes), NEW tr \in Seq(Events)
             PROVE  Runs(a \o b, State(S, e, tr), State(S, e, tr \o (x \o y)))
  BY DEF RunsTo
<1>1. tr \o x \in Seq(Events) /\ (tr \o x) \o y = tr \o (x \o y)
  BY EventsJoined
<1>2. Runs(a, State(S, e, tr), State(S, e, tr \o x))
  BY DEF RunsTo
<1>3. Runs(b, State(S, e, tr \o x), State(S, e, (tr \o x) \o y))
  BY <1>1 DEF RunsTo
<1> QED
  BY <1>1, <1>2, <1>3, RunsOn

(* What an evaluation adds: what it evaluates with what it sees.           *)
LEMMA RunsEval ==
  ASSUME NEW k \in Int, NEW part \in EvalForms, NEW e \in Scopes, NEW ev,
         ev = IF part \in {"nil", "v"} THEN <<>> ELSE <<Event(k, part, e)>>
  PROVE  ev \in Seq(Events) /\ RunsTo(<<Eval(k, part)>>, e, ev)
<1> DEFINE u == Eval(k, part)
           x == Event(k, part, e)
<1>1. u \in Token /\ u.form = part /\ u.binds[1] = k
  <2>1. u \in Token
    BY TokenTypes
  <2> QED
    BY <2>1 DEF Eval
<1>2. part \notin {"nil", "v"} => x \in Events
  BY EventType DEF EvalForms
<1>3. ev \in Seq(Events)
  <2> HIDE DEF x
  <2>1. <<>> \in Seq(Events) /\ \A w \in Events : <<w>> \in Seq(Events)
    OBVIOUS
  <2> QED
    BY <1>2, <2>1 DEF x
<1>4. ASSUME NEW S \in Seq(Scopes), NEW tr \in Seq(Events)
      PROVE  Runs(<<u>>, State(S, e, tr), State(S, e, tr \o ev))
  <2> DEFINE s1 == State(S, e, tr)
             s2 == State(S, e, tr \o ev)
  <2>1. tr \o ev \in Seq(Events)
    BY <1>3, Joined
  <2>2. s1 \in TextStates /\ s2 \in TextStates
    BY <2>1, StateType
  <2>3. s1.envs = Append(S, e) /\ s1.trace = tr /\ Last(Append(S, e)) = e
    BY DEF State, Last
  <2>4. part \notin Opening \cup {"close"}
    BY DEF EvalForms, Opening
  <2>5. CASE part \in {"nil", "v"}
    <3>1. s2 = s1
      BY <2>5, ConcatEmptySeq
    <3>2. RunToken(s1, u) = s1
      BY <1>1, <2>4, <2>5 DEF RunToken
    <3> HIDE DEF s1, s2, u
    <3>3. Runs(<<u>>, s1, s2)
      BY <1>1, <2>2, <3>1, <3>2, RunsOne
    <3> QED
      BY <3>3 DEF s1, s2, u
  <2>6. CASE part \notin {"nil", "v"}
    <3>1. tr \o ev = Append(tr, x)
      <4> HIDE DEF x
      <4>1. tr \o <<x>> = Append(tr, x)
        BY <1>2, <2>6
      <4> QED
        BY <2>6, <4>1 DEF x
    <3>2. RunToken(s1, u) = s2
      <4>1. RunToken(s1, u) = [envs |-> s1.envs, trace |-> Append(s1.trace, Event(u.binds[1], u.form, Last(s1.envs)))]
        BY <1>1, <2>4, <2>6 DEF RunToken
      <4>2. RunToken(s1, u) = [envs |-> Append(S, e), trace |-> Append(tr, x)]
        <5> HIDE DEF s1, u
        <5> QED
          BY <1>1, <2>3, <4>1
      <4> QED
        BY <3>1, <4>2 DEF State
    <3> HIDE DEF s1, s2, u
    <3>3. Runs(<<u>>, s1, s2)
      BY <1>1, <2>2, <3>2, RunsOne
    <3> QED
      BY <3>3 DEF s1, s2, u
  <2> QED
    BY <2>5, <2>6
<1> QED
  BY <1>3, <1>4 DEF RunsTo

(* A form: its bindings, what it holds, and the environment is again what  *)
(* it was.                                                                 *)
LEMMA RunsWrapped ==
  ASSUME NEW o \in Token, o.form \in Opening, o.binds \in Seq(Pairs), NEW t \in Seq(Token),
         NEW e \in Scopes, NEW f \in Scopes, NEW x \in Seq(Events), NEW y \in Seq(Events),
         BindsTo(o.binds, e, f, x), RunsTo(t, f, y)
  PROVE  RunsTo(<<o>> \o t \o <<Close>>, e, x \o y)
<1> SUFFICES ASSUME NEW S \in Seq(Scopes), NEW tr \in Seq(Events)
             PROVE  Runs(<<o>> \o t \o <<Close>>, State(S, e, tr), State(S, e, tr \o (x \o y)))
  BY DEF RunsTo
<1> DEFINE In == Append(S, e)
           s1 == State(S, e, tr)
           s2 == State(In, f, tr \o x)
           s3 == State(In, f, tr \o (x \o y))
           s4 == State(S, e, tr \o (x \o y))
<1>1. /\ tr \o x \in Seq(Events) /\ tr \o (x \o y) \in Seq(Events) /\ x \o y \in Seq(Events)
      /\ (tr \o x) \o y = tr \o (x \o y)
  <2>1. x \in Seq(Events) /\ y \in Seq(Events) /\ tr \in Seq(Events)
    OBVIOUS
  <2>2. tr \o x \in Seq(Events) /\ x \o y \in Seq(Events)
    BY ONLY <2>1, EventsJoined
  <2>3. tr \o (x \o y) \in Seq(Events)
    BY ONLY <2>1, <2>2, EventsJoined
  <2>4. (tr \o x) \o y = tr \o (x \o y)
    BY ONLY <2>1, EventsJoined
  <2> QED
    BY <2>2, <2>3, <2>4
<1>2. In \in Seq(Scopes) /\ Last(In) = e
  BY DEF Last
<1>3. s1 \in TextStates /\ s2 \in TextStates /\ s3 \in TextStates /\ s4 \in TextStates
  <2> HIDE DEF In
  <2> QED
    BY <1>1, <1>2, StateType
<1>4. RunToken(s1, o) = s2
  <2>1. s1.envs = In /\ s1.trace = tr
    BY DEF State
  <2>2. RunBindings([env |-> e, trace |-> tr], o.binds) = [env |-> f, trace |-> tr \o x]
    BY DEF BindsTo
  <2> DEFINE inner == RunBindings([env |-> Last(s1.envs), trace |-> s1.trace], o.binds)
  <2>3. RunToken(s1, o) = [envs |-> Append(s1.envs, inner.env), trace |-> inner.trace]
    BY DEF RunToken
  <2> HIDE DEF s1, In
  <2>4. inner = [env |-> f, trace |-> tr \o x]
    BY <1>2, <2>1, <2>2
  <2> HIDE DEF inner
  <2>5. inner.env = f /\ inner.trace = tr \o x
    BY <2>4
  <2>6. RunToken(s1, o) = [envs |-> Append(In, f), trace |-> tr \o x]
    BY <2>1, <2>3, <2>5
  <2> QED
    BY <2>6 DEF State
<1>5. Runs(t, s2, s3)
  <2> HIDE DEF In
  <2> QED
    BY <1>1, <1>2 DEF RunsTo
<1>6. RunToken(s3, Close) = s4 /\ Close \in Token
  <2>1. s3.envs = Append(In, f) /\ s3.trace = tr \o (x \o y)
    BY DEF State
  <2>2. Front(Append(In, f)) = In
    <3> HIDE DEF In
    <3>1. \A w \in Scopes : Front(Append(In, w)) = In
      BY <1>2 DEF Front
    <3> QED
      BY <3>1
  <2>3. Close.form = "close" /\ "close" \notin Opening
    BY DEF Close, Opening
  <2> HIDE DEF s3
  <2>4. RunToken(s3, Close) = [envs |-> In, trace |-> tr \o (x \o y)]
    BY <2>1, <2>2, <2>3 DEF RunToken
  <2> QED
    BY <2>4, TokenTypes DEF State
<1> HIDE DEF s1, s2, s3, s4
<1>7. Runs(<<o>>, s1, s2) /\ Runs(<<Close>>, s3, s4)
  BY <1>3, <1>4, <1>6, RunsOne
<1>8. <<o>> \in Seq(Token) /\ <<Close>> \in Seq(Token) /\ <<o>> \o t \in Seq(Token)
  BY <1>6
<1>9. Runs(<<o>> \o t, s1, s3)
  BY <1>5, <1>7, <1>8, RunsOn
<1>10. Runs(<<o>> \o t \o <<Close>>, s1, s4)
  BY <1>7, <1>8, <1>9, RunsOn
<1> QED
  BY <1>10 DEF s1, s4

(* A text that is a let or a with-use: what it binds and what it holds.    *)
Opens(t, e, ev, o, m, f, x, y) ==
  /\ o \in Token /\ o.form \in {"let", "use"} /\ o.binds \in Seq(Pairs)
  /\ m \in Seq(Token) /\ f \in Scopes /\ x \in Seq(Events) /\ y \in Seq(Events)
  /\ t = <<o>> \o m \o <<Close>> /\ ev = x \o y
  /\ BindsTo(o.binds, e, f, x) /\ RunsTo(m, f, y)
OpenRuns(t, e, ev) == \E o, m, f, x, y : Opens(t, e, ev, o, m, f, x, y)

LEMMA OpenIsRun ==
  ASSUME NEW t, NEW e \in Scopes, NEW ev, OpenRuns(t, e, ev)
  PROVE  RunsTo(t, e, ev) /\ ev \in Seq(Events) /\ t \in Seq(Token)
<1>1. PICK o, m, f, x, y : Opens(t, e, ev, o, m, f, x, y)
  BY DEF OpenRuns
<1>2. RunsTo(t, e, ev)
  BY <1>1, RunsWrapped DEF Opens, Opening
<1>3. x \o y \in Seq(Events)
  BY <1>1, Joined DEF Opens
<1>4. Close \in Token
  BY TokenTypes
<1>5. t \in Seq(Token)
  BY <1>1, <1>4 DEF Opens
<1> QED
  BY <1>1, <1>2, <1>3, <1>5 DEF Opens

LEMMA NewOpens ==
  ASSUME NEW o \in Token, o.form \in {"let", "use"}, o.binds \in Seq(Pairs), NEW t \in Seq(Token),
         NEW e \in Scopes, NEW f \in Scopes, NEW x \in Seq(Events), NEW y \in Seq(Events),
         BindsTo(o.binds, e, f, x), RunsTo(t, f, y)
  PROVE  OpenRuns(<<o>> \o t \o <<Close>>, e, x \o y)
<1>1. Opens(<<o>> \o t \o <<Close>>, e, x \o y, o, t, f, x, y)
  BY DEF Opens
<1> QED
  BY <1>1 DEF OpenRuns

(* Its first token may bind more before what it binds.                     *)
LEMMA OpensMore ==
  ASSUME NEW t, NEW e \in Scopes, NEW f \in Scopes, NEW x \in Seq(Events), NEW ev, OpenRuns(t, f, ev),
         NEW bs \in Seq(Pairs), BindsTo(bs, e, f, x),
         NEW new \in Token, new.form = Head(t).form, new.binds = bs \o Head(t).binds
  PROVE  OpenRuns(<<new>> \o Tail(t), e, x \o ev)
<1>1. PICK o, m, g, a, b : Opens(t, f, ev, o, m, g, a, b)
  BY DEF OpenRuns
<1>2. /\ o \in Token /\ o.form \in {"let", "use"} /\ o.binds \in Seq(Pairs)
      /\ m \in Seq(Token) /\ g \in Scopes /\ a \in Seq(Events) /\ b \in Seq(Events)
      /\ t = <<o>> \o m \o <<Close>> /\ ev = a \o b
      /\ BindsTo(o.binds, f, g, a) /\ RunsTo(m, g, b)
  BY <1>1 DEF Opens
<1>3. Head(t) = o /\ <<new>> \o Tail(t) = <<new>> \o m \o <<Close>>
  <2>1. Close \in Token
    BY TokenTypes
  <2>2. <<o>> \o m \o <<Close>> = <<o>> \o (m \o <<Close>>)
    BY <1>2, <2>1, Joined
  <2>3. m \o <<Close>> \in Seq(Token)
    BY <1>2, <2>1
  <2> DEFINE r == m \o <<Close>>
  <2>4. t = <<o>> \o r /\ r \in Seq(Token)
    BY <1>2, <2>2, <2>3
  <2>5. <<new>> \o m \o <<Close>> = <<new>> \o r
    BY <1>2, <2>1, Joined
  <2> HIDE DEF r
  <2>6. Tail(t) = r
    <3>1. /\ Tail(<<o>> \o r) \in Seq(Token) /\ Len(Tail(<<o>> \o r)) = Len(r)
          /\ \A k \in 1..Len(r) : Tail(<<o>> \o r)[k] = r[k]
      BY <1>2, <2>4
    <3> QED
      BY <2>4, <3>1, SeqEqual
  <2>7. Head(<<o>> \o r) = o
    BY <1>2, <2>4
  <2> QED
    BY <2>4, <2>5, <2>6, <2>7
<1>4. new.binds \in Seq(Pairs) /\ x \o a \in Seq(Events) /\ (x \o a) \o b = x \o ev
  <2>1. new.binds = bs \o o.binds
    BY <1>3
  <2>2. bs \o o.binds \in Seq(Pairs)
    <3> DEFINE old == o.binds
    <3>1. old \in Seq(Pairs)
      BY <1>2
    <3> HIDE DEF old
    <3>2. bs \o old \in Seq(Pairs)
      BY <3>1
    <3> QED
      BY <3>2 DEF old
  <2>3. x \o a \in Seq(Events) /\ (x \o a) \o b = x \o (a \o b)
    <3>1. a \in Seq(Events) /\ b \in Seq(Events)
      BY <1>2
    <3> QED
      BY <3>1, Joined
  <2> QED
    BY <1>2, <2>1, <2>2, <2>3
<1>5. BindsTo(new.binds, e, g, x \o a)
  BY <1>2, <1>3, BindsBoth
<1>6. OpenRuns(<<new>> \o m \o <<Close>>, e, (x \o a) \o b)
  BY <1>2, <1>3, <1>4, <1>5, NewOpens
<1> QED
  BY <1>3, <1>4, <1>6

LEMMA HeadBinds ==
  ASSUME NEW t, NEW e, NEW ev, OpenRuns(t, e, ev)
  PROVE  Head(t).binds \in Seq(Pairs)
<1>1. PICK o, m, f, a, b : Opens(t, e, ev, o, m, f, a, b)
  BY DEF OpenRuns
<1>2. /\ Close \in Token /\ o \in Token /\ m \in Seq(Token) /\ t = <<o>> \o m \o <<Close>>
      /\ o.binds \in Seq(Pairs)
  BY <1>1, TokenTypes DEF Opens
<1>3. Head(t) = o
  BY <1>2
<1> QED
  BY <1>2, <1>3

LEMMA MergedRuns ==
  ASSUME NEW bs \in Seq(Pairs), NEW t \in Seq(Token), NEW e \in Scopes, NEW f \in Scopes,
         NEW x \in Seq(Events), NEW y \in Seq(Events), BindsTo(bs, e, f, x), RunsTo(t, f, y),
         t # <<>> /\ Head(t).form = "let" => OpenRuns(t, f, y)
  PROVE  OpenRuns(MergedLet(bs, t), e, x \o y)
<1>1. CASE t # <<>> /\ Head(t).form = "let"
  <2> DEFINE o == Let(bs \o Head(t).binds)
  <2>1. o.form = "let" /\ o.binds = bs \o Head(t).binds
    BY DEF Let
  <2>2. bs \o Head(t).binds \in Seq(Pairs)
    <3>1. Head(t).binds \in Seq(Pairs)
      BY <1>1, HeadBinds
    <3> QED
      BY <3>1, ConcatProperties
  <2>3. o \in Token
    BY <2>2, TokenTypes
  <2>4. MergedLet(bs, t) = <<o>> \o Tail(t)
    BY <1>1 DEF MergedLet
  <2> HIDE DEF o
  <2> QED
    BY <1>1, <2>1, <2>3, <2>4, OpensMore
<1>2. CASE ~(t # <<>> /\ Head(t).form = "let")
  <2> DEFINE o == Let(bs)
  <2>1. o \in Token
    BY TokenTypes
  <2>2. o.form = "let" /\ o.binds = bs
    BY DEF Let
  <2>3. MergedLet(bs, t) = <<o>> \o t \o <<Close>>
    BY <1>2 DEF MergedLet
  <2> HIDE DEF o
  <2> QED
    BY <2>1, <2>2, <2>3, NewOpens
<1> QED
  BY <1>1, <1>2

-----------------------------------------------------------------------------
(* What Gleam says, statement by statement.                                *)
LEMMA InputTypes ==
  ASSUME BodyInput
  PROVE  /\ Len(stmts) \in Nat \ {0} /\ Given \in Int /\ Unbound \in Int /\ Around \in Scopes
         /\ \A k \in 1..Len(stmts) : Binds(k) => stmts[k].name \in Names
<1>1. Len(stmts) \in Nat \ {0}
  BY EmptySeq DEF BodyInput
<1>2. Given \in Int /\ Unbound \in Int
  BY <1>1 DEF Given, Unbound
<1>3. Around \in Scopes
  BY <1>2 DEF Around, Scopes, Param
<1> QED
  BY <1>1, <1>2, <1>3 DEF BodyInput

AtStart == [name \in Names |-> IF name \in ToSet(prefix) THEN Given ELSE Around[name]]

LEMMA ScopeIs ==
  ASSUME BodyInput
  PROVE  /\ \A k \in 1..Len(stmts)+1 : Scope(k) \in Scopes
         /\ Scope(1) = AtStart
         /\ \A k \in 1..Len(stmts) :
              Scope(k + 1) = IF Binds(k) THEN [Scope(k) EXCEPT ![stmts[k].name] = k] ELSE Scope(k)
<1> DEFINE n == Len(stmts)
           Bind(m, v) == IF Binds(m) THEN [v EXCEPT ![stmts[m].name] = m] ELSE v
           step == [m \in 1..n |-> [v \in Scopes |-> Bind(m, v)]]
           After(g, m) == IF m = 0 THEN AtStart ELSE Bind(m, g[m - 1])
           g == CHOOSE f : f = [m \in 0..n |-> After(f, m)]
<1>1. n \in Nat /\ AtStart \in Scopes /\ \A k \in 1..n : Binds(k) => stmts[k].name \in Names
  BY InputTypes DEF AtStart, Scopes
<1>2. ASSUME NEW m \in 1..n, NEW v \in Scopes PROVE Bind(m, v) \in Scopes
  <2>1. m \in Int
    BY <1>1
  <2> QED
    BY <1>1, <2>1 DEF Scopes
<1>3. \A k : Scope(k) = g[k - 1]
  BY DEF Scope, AtStart
<1> HIDE DEF Bind
<1>4. Steps(step, n, Scopes)
  BY <1>2 DEF Steps
<1>5. PICK h : IsFold(h, step, n, Scopes, AtStart)
  BY <1>1, <1>4, FoldExists
<1>6. /\ h \in [0..n -> Scopes] /\ h[0] = AtStart
      /\ \A m \in 1..n : h[m] = Bind(m, h[m - 1])
  <2>1. h \in [0..n -> Scopes] /\ h[0] = AtStart /\ \A m \in 1..n : h[m] = step[m][h[m - 1]]
    BY <1>5 DEF IsFold
  <2>2. ASSUME NEW m \in 1..n PROVE h[m] = Bind(m, h[m - 1])
    <3>1. m - 1 \in 0..n
      BY <1>1
    <3>2. h[m - 1] \in Scopes
      BY <2>1, <3>1
    <3> QED
      BY <2>1, <3>2
  <2> QED
    BY <2>1, <2>2
<1>7. h = [m \in 0..n |-> After(h, m)]
  <2>1. ASSUME NEW m \in 0..n PROVE h[m] = After(h, m)
    BY <1>1, <1>6
  <2> HIDE DEF After
  <2> QED
    BY <1>6, <2>1
<1>8. g = [m \in 0..n |-> After(g, m)]
  BY <1>7
<1>9. \A m \in 0..n : g[m] = After(g, m)
  <2> HIDE DEF g, After
  <2> QED
    BY <1>8
<1> HIDE DEF g
<1>10. SameSteps(g, h, n)
  <2>1. g[0] = h[0]
    BY <1>1, <1>6, <1>9
  <2>2. \A m \in 1..n : g[m - 1] = h[m - 1] => g[m] = h[m]
    BY <1>1, <1>6, <1>9
  <2> QED
    BY <2>1, <2>2 DEF SameSteps
<1>11. Same(g, h, n)
  BY <1>1, <1>10, SameFold
<1>12. \A m \in 0..n : g[m] \in Scopes
  BY <1>6, <1>11 DEF Same
<1>13. \A m \in 1..n : g[m] = Bind(m, g[m - 1])
  BY <1>1, <1>9
<1>14. g[0] = AtStart
  BY <1>1, <1>9
<1>15. ASSUME NEW k \in 1..n+1 PROVE Scope(k) \in Scopes
  <2>1. k - 1 \in 0..n
    BY <1>1
  <2> QED
    BY <1>3, <1>12, <2>1
<1>16. ASSUME NEW k \in 1..n PROVE Scope(k + 1) = Bind(k, Scope(k))
  <2>1. (k + 1) - 1 = k
    BY <1>1
  <2> QED
    BY <1>3, <1>13, <2>1
<1>17. Scope(1) = AtStart
  BY <1>3, <1>14
<1> QED
  BY <1>15, <1>16, <1>17 DEF Bind

LEMMA OneAndOne ==
  ASSUME NEW X, NEW x \in X, NEW y \in X
  PROVE  <<x>> \o <<y>> = <<x, y>>
<1> DEFINE u == <<x>> \o <<y>>
           w == <<x, y>>
<1>1. u \in Seq(X) /\ w \in Seq(X) /\ Len(u) = 2 /\ Len(w) = 2
  OBVIOUS
<1>2. \A k \in 1..2 : u[k] = w[k]
  OBVIOUS
<1> HIDE DEF u, w
<1>3. u = w
  BY <1>1, <1>2
<1> QED
  BY <1>3 DEF u, w

Told(k, part) == Event(k, part, Scope(k))
LEMMA SeenIs ==
  ASSUME BodyInput, NEW k \in 1..Len(stmts)
  PROVE  /\ Seen(k) = IF stmts[k].kind \in {"test", "assert let"}
                        THEN <<Told(k, "temp")>> \o <<Told(k, "check")>>
                      ELSE IF stmts[k].kind = "case"
                        THEN <<Told(k, "temp")>> \o <<Told(k, "value")>>
                      ELSE <<Told(k, "value")>>
         /\ Seen(k) \in Seq(Events)
         /\ \A part \in {"temp", "check", "value"} : Told(k, part) \in Events
<1>1. \A part \in {"temp", "check", "value"} : Told(k, part) \in Events
  <2>1. k \in 1..Len(stmts)+1 /\ k \in Int
    BY InputTypes
  <2>2. Scope(k) \in Scopes
    BY <2>1, ScopeIs
  <2> QED
    BY <2>1, <2>2, EventType DEF Told
<1> DEFINE parts == PartsOf(stmts[k].kind)
<1>2. Seen(k) = [p \in DOMAIN parts |-> Told(k, parts[p])]
  BY DEF Seen, Told
<1> HIDE DEF parts
<1>3. ASSUME NEW a \in {"temp", "check", "value"}, NEW b \in {"temp", "check", "value"},
             parts = <<a, b>>
      PROVE  Seen(k) = <<Told(k, a)>> \o <<Told(k, b)>> /\ Seen(k) \in Seq(Events)
  <2> DEFINE x == Told(k, a)
             y == Told(k, b)
  <2>1. DOMAIN parts = 1..2 /\ parts[1] = a /\ parts[2] = b
    BY <1>3
  <2>2. x \in Events /\ y \in Events
    BY <1>1
  <2>3. Seen(k) = [p \in 1..2 |-> IF p = 1 THEN x ELSE y]
    BY <1>2, <2>1
  <2> HIDE DEF x, y
  <2>4. <<x>> \o <<y>> = <<x, y>>
    BY <2>2, OneAndOne
  <2>5. <<x, y>> = [p \in 1..2 |-> IF p = 1 THEN x ELSE y]
    BY <2>2
  <2>6. <<x, y>> \in Seq(Events)
    BY <2>2
  <2>7. Seen(k) = <<x>> \o <<y>> /\ Seen(k) \in Seq(Events)
    BY <2>3, <2>4, <2>5, <2>6
  <2> QED
    BY <2>7 DEF x, y
<1>4. ASSUME parts = <<"value">>
      PROVE  Seen(k) = <<Told(k, "value")>> /\ Seen(k) \in Seq(Events)
  <2> DEFINE x == Told(k, "value")
  <2>1. DOMAIN parts = 1..1 /\ parts[1] = "value"
    BY <1>4
  <2>2. x \in Events
    BY <1>1
  <2>3. Seen(k) = [p \in 1..1 |-> x]
    BY <1>2, <2>1
  <2> HIDE DEF x
  <2>4. <<x>> = [p \in 1..1 |-> x] /\ <<x>> \in Seq(Events)
    BY <2>2
  <2>5. Seen(k) = <<x>> /\ Seen(k) \in Seq(Events)
    BY <2>3, <2>4
  <2> QED
    BY <2>5 DEF x
<1>5. CASE stmts[k].kind \in {"test", "assert let"}
  <2>1. parts = <<"temp", "check">>
    BY <1>5 DEF parts, PartsOf
  <2> QED
    BY <1>1, <1>3, <1>5, <2>1
<1>6. CASE stmts[k].kind = "case"
  <2>1. parts = <<"temp", "value">>
    BY <1>6 DEF parts, PartsOf
  <2> QED
    BY <1>1, <1>3, <1>6, <2>1
<1>7. CASE stmts[k].kind \notin {"test", "assert let", "case"}
  <2>1. parts = <<"value">>
    BY <1>7 DEF parts, PartsOf
  <2> QED
    BY <1>1, <1>4, <1>7, <2>1
<1> QED
  BY <1>5, <1>6, <1>7

LEMMA GleamIs ==
  ASSUME BodyInput
  PROVE  /\ \A k \in 1..Len(stmts)+1 : GleamFrom(k) \in Seq(Events)
         /\ GleamFrom(Len(stmts) + 1) = <<>>
         /\ \A k \in 1..Len(stmts) : GleamFrom(k) = Seen(k) \o GleamFrom(k + 1)
<1> DEFINE n == Len(stmts)
           From(g, m) == IF m = n + 1 THEN <<>> ELSE Seen(m) \o g[m + 1]
           g == CHOOSE f : f = [m \in 1..n+1 |-> From(f, m)]
           step == [m \in 1..n |-> [v \in Seq(Events) |-> Seen(n + 1 - m) \o v]]
<1>1. n \in Nat
  BY InputTypes
<1>2. \A k \in 1..n : Seen(k) \in Seq(Events)
  BY SeenIs
<1>3. \A k : GleamFrom(k) = g[k]
  BY DEF GleamFrom
<1> HIDE DEF n
<1>4. Steps(step, n, Seq(Events))
  <2>1. ASSUME NEW m \in 1..n, NEW v \in Seq(Events) PROVE Seen(n + 1 - m) \o v \in Seq(Events)
    <3>1. n + 1 - m \in 1..n
      BY <1>1
    <3> QED
      BY <1>2, <3>1, Joined
  <2> QED
    BY <2>1 DEF Steps
<1>5. PICK h : IsFold(h, step, n, Seq(Events), <<>>)
  <2>1. <<>> \in Seq(Events)
    OBVIOUS
  <2> HIDE DEF step
  <2> QED
    BY <1>1, <1>4, <2>1, FoldExists
<1>6. /\ \A m \in 0..n : h[m] \in Seq(Events)
      /\ h[0] = <<>>
      /\ \A m \in 1..n : h[m] = Seen(n + 1 - m) \o h[m - 1]
  <2>1. h \in [0..n -> Seq(Events)] /\ h[0] = <<>> /\ \A m \in 1..n : h[m] = step[m][h[m - 1]]
    BY <1>5 DEF IsFold
  <2>2. ASSUME NEW m \in 1..n PROVE h[m] = Seen(n + 1 - m) \o h[m - 1]
    <3>1. m - 1 \in 0..n
      BY <1>1
    <3>2. h[m - 1] \in Seq(Events)
      BY <2>1, <3>1
    <3> QED
      BY <2>1, <3>2
  <2> QED
    BY <2>1, <2>2
<1> DEFINE back == [m \in 1..n+1 |-> h[n + 1 - m]]
<1>7. back = [m \in 1..n+1 |-> From(back, m)]
  <2>1. ASSUME NEW m \in 1..n+1 PROVE h[n + 1 - m] = From(back, m)
    <3>1. CASE m = n + 1
      <4>1. n + 1 - m = 0
        BY <1>1, <3>1
      <4> QED
        BY <1>6, <3>1, <4>1
    <3>2. CASE m # n + 1
      <4>1. n + 1 - m \in 1..n /\ m + 1 \in 1..n+1 /\ n + 1 - (n + 1 - m) = m
            /\ (n + 1 - m) - 1 = n + 1 - (m + 1)
        BY <1>1, <3>2
      <4>2. h[n + 1 - m] = Seen(m) \o h[n + 1 - (m + 1)]
        BY <1>6, <4>1
      <4>3. back[m + 1] = h[n + 1 - (m + 1)]
        BY <4>1
      <4> HIDE DEF back
      <4> QED
        BY <3>2, <4>2, <4>3
    <3> QED
      BY <3>1, <3>2
  <2> HIDE DEF From
  <2> QED
    BY <2>1
<1>8. g = [m \in 1..n+1 |-> From(g, m)]
  <2> HIDE DEF back
  <2> QED
    BY <1>7
<1>9. \A m \in 1..n+1 : g[m] = From(g, m)
  <2> HIDE DEF g, From
  <2> QED
    BY <1>8
<1> HIDE DEF g
<1>10. g[n + 1] = <<>> /\ \A m \in 1..n : g[m] = Seen(m) \o g[m + 1]
  <2>1. n + 1 \in 1..n+1 /\ \A m \in 1..n : m \in 1..n+1 /\ m # n + 1
    BY <1>1
  <2> QED
    BY <1>9, <2>1
<1> DEFINE gb == [m \in 0..n |-> g[n + 1 - m]]
<1>11. SameSteps(gb, h, n)
  <2>1. gb[0] = h[0]
    BY <1>1, <1>6, <1>10
  <2>2. ASSUME NEW m \in 1..n, gb[m - 1] = h[m - 1] PROVE gb[m] = h[m]
    <3>1. n + 1 - m \in 1..n /\ (n + 1 - m) + 1 = n + 1 - (m - 1) /\ m \in 0..n /\ m - 1 \in 0..n
      BY <1>1
    <3>2. gb[m] = g[n + 1 - m] /\ gb[m - 1] = g[n + 1 - (m - 1)]
      BY <3>1
    <3>3. g[n + 1 - m] = Seen(n + 1 - m) \o g[n + 1 - (m - 1)]
      BY <1>10, <3>1
    <3> HIDE DEF gb
    <3> QED
      BY <1>6, <2>2, <3>2, <3>3
  <2> HIDE DEF gb
  <2> QED
    BY <2>1, <2>2 DEF SameSteps
<1>12. Same(gb, h, n)
  <2> HIDE DEF gb
  <2> QED
    BY <1>1, <1>11, SameFold
<1>13. ASSUME NEW k \in 1..n+1 PROVE g[k] \in Seq(Events)
  <2>1. n + 1 - k \in 0..n /\ n + 1 - (n + 1 - k) = k
    BY <1>1
  <2>2. gb[n + 1 - k] = g[k]
    BY <2>1
  <2> HIDE DEF gb
  <2>3. gb[n + 1 - k] = h[n + 1 - k]
    BY <1>12, <2>1 DEF Same
  <2> QED
    BY <1>6, <2>1, <2>2, <2>3
<1> QED
  BY <1>3, <1>10, <1>13 DEF n

(* An environment has what Gleam has in scope; it may have more.           *)
Sees(e, k) ==
  e \in Scopes /\ \A name \in Names : Scope(k)[name] # Unbound => e[name] = Scope(k)[name]

LEMMA SeesTemp ==
  ASSUME NEW k, NEW e, Sees(e, k), NEW name \in Names, Scope(k)[name] = Unbound, NEW q \in Int
  PROVE  Sees([e EXCEPT ![name] = q], k)
<1> DEFINE f == [e EXCEPT ![name] = q]
<1>1. e \in [Names -> Int]
  BY DEF Sees, Scopes
<1>2. f \in [Names -> Int] /\ \A other \in Names \ {name} : f[other] = e[other]
  BY <1>1
<1> HIDE DEF f
<1>3. Sees(f, k)
  BY <1>2 DEF Sees, Scopes
<1> QED
  BY <1>3 DEF f

LEMMA SeesBound ==
  ASSUME BodyInput, NEW k \in 1..Len(stmts), Binds(k), NEW e, Sees(e, k)
  PROVE  Sees([e EXCEPT ![stmts[k].name] = k], k + 1)
<1> DEFINE name == stmts[k].name
           f == [e EXCEPT ![name] = k]
           g == [Scope(k) EXCEPT ![name] = k]
<1>1. name \in Names /\ k \in Int /\ k \in 1..Len(stmts)+1
  BY InputTypes
<1>2. e \in [Names -> Int] /\ Scope(k) \in [Names -> Int]
  BY <1>1, ScopeIs DEF Sees, Scopes
<1>3. Scope(k + 1) = g
  BY ScopeIs
<1> HIDE DEF name
<1>4. /\ f \in [Names -> Int] /\ f[name] = k /\ g[name] = k
      /\ \A other \in Names \ {name} : f[other] = e[other] /\ g[other] = Scope(k)[other]
  BY <1>1, <1>2
<1> HIDE DEF f, g
<1>5. \A other \in Names : g[other] # Unbound => f[other] = g[other]
  BY <1>4 DEF Sees
<1>6. Sees(f, k + 1)
  BY <1>3, <1>4, <1>5 DEF Sees, Scopes
<1> QED
  BY <1>6 DEF f, name

LEMMA SeesOn ==
  ASSUME BodyInput, NEW k \in 1..Len(stmts), ~Binds(k), NEW e, Sees(e, k)
  PROVE  Sees(e, k + 1)
BY ScopeIs DEF Sees

LEMMA SameAs ==
  ASSUME NEW k, NEW e, Sees(e, k), NEW part \in {"temp", "check", "value"}
  PROVE  Alike(<<Event(k, part, e)>>, <<Told(k, part)>>)
<1> DEFINE x == Event(k, part, e)
           y == Told(k, part)
<1>1. SameEvent(x, y)
  BY DEF Told, Event, SameEvent, Sees
<1> HIDE DEF x, y
<1>2. Len(<<x>>) = 1 /\ Len(<<y>>) = 1 /\ <<x>>[1] = x /\ <<y>>[1] = y
  OBVIOUS
<1>3. \A q \in 1..1 : q = 1
  OBVIOUS
<1>4. Alike(<<x>>, <<y>>)
  BY <1>1, <1>2, <1>3 DEF Alike
<1> QED
  BY <1>4 DEF x, y

LEMMA AlikeBeside ==
  ASSUME NEW a \in Seq(Events), NEW b \in Seq(Events), NEW c \in Seq(Events), NEW d \in Seq(Events),
         Alike(a, c), Alike(b, d)
  PROVE  Alike(a \o b, c \o d)
<1> DEFINE u == a \o b
           w == c \o d
           n == Len(c)
<1>1. /\ Len(u) = Len(a) + Len(b) /\ Len(a) \in Nat /\ Len(b) \in Nat
      /\ \A q \in 1..Len(a) : u[q] = a[q]
      /\ \A q \in 1..Len(b) : u[Len(a) + q] = b[q]
  BY Appended
<1>2. /\ Len(w) = Len(c) + Len(d) /\ Len(c) \in Nat /\ Len(d) \in Nat
      /\ \A q \in 1..Len(c) : w[q] = c[q]
      /\ \A q \in 1..Len(d) : w[Len(c) + q] = d[q]
  BY Appended
<1> HIDE DEF u, w
<1>3. /\ Len(a) = n /\ \A q \in 1..n : SameEvent(a[q], c[q])
      /\ Len(b) = Len(d) /\ \A q \in 1..Len(d) : SameEvent(b[q], d[q])
  BY DEF Alike
<1>4. ASSUME NEW q \in 1..Len(w) PROVE SameEvent(u[q], w[q])
  <2>1. CASE q <= n
    <3>1. q \in 1..n
      BY <1>2, <2>1
    <3> QED
      BY <1>1, <1>2, <1>3, <3>1
  <2>2. CASE q > n
    <3> DEFINE l == q - n
    <3>1. l \in 1..Len(d) /\ q = n + l
      BY <1>2, <2>2
    <3> HIDE DEF l
    <3>2. u[n + l] = b[l] /\ w[n + l] = d[l]
      BY <1>1, <1>2, <1>3, <3>1
    <3>3. SameEvent(b[l], d[l])
      BY <1>3, <3>1
    <3> QED
      BY ONLY <3>1, <3>2, <3>3
  <2> QED
    BY <1>2, <2>1, <2>2
<1>5. Len(u) = Len(w)
  BY <1>1, <1>2, <1>3
<1>6. Alike(u, w)
  BY <1>4, <1>5 DEF Alike
<1> QED
  BY <1>6 DEF u, w

-----------------------------------------------------------------------------
(* The invariant: wherever Gleam's variables are at hand, the text does    *)
(* what Gleam says of the statements it is made of.                        *)
Opened(k) == stmts[k].kind \in LetKinds \cup {"use"} /\ ~ShortLet(k)
Does(t, e, ev, k) ==
  /\ ev \in Seq(Events) /\ Alike(ev, GleamFrom(k)) /\ RunsTo(t, e, ev)
  /\ k <= Len(stmts) /\ Opened(k) => OpenRuns(t, e, ev)
Reads(t, k) == \A e : Sees(e, k) => \E ev : Does(t, e, ev, k)
Running ==
  at < Len(stmts) /\ ~written /\ ~Spliced /\ ~Captured => Reads(text, at + 1)

LEMMA GleamStays ==
  ASSUME UNCHANGED <<stmts, prefix, params>>
  PROVE  /\ \A k : GleamFrom(k)' = GleamFrom(k) /\ Scope(k)' = Scope(k)
         /\ (Spliced' <=> Spliced) /\ (Captured' <=> Captured) /\ Unbound' = Unbound
         /\ Around' = Around
<1>1. \A k : Scope(k)' = Scope(k)
  BY DEF Scope, Around, Given, Unbound, Binds, ToSet, Param
<1>2. \A k : Seen(k)' = Seen(k)
  BY <1>1 DEF Seen
<1>3. \A k : GleamFrom(k)' = GleamFrom(k)
  BY <1>2 DEF GleamFrom
<1>4. Spliced' <=> Spliced
  BY DEF Spliced, ShortLet
<1>5. Captured' <=> Captured
  BY <1>1 DEF Captured, Unbound
<1>6. Unbound' = Unbound /\ Around' = Around
  BY DEF Around, Unbound
<1> QED
  BY <1>1, <1>3, <1>4, <1>5, <1>6

LEMMA ReadsStays ==
  ASSUME UNCHANGED <<stmts, prefix, params>>, NEW k, k = (at + 1)', Reads(text', k)
  PROVE  Reads(text, at + 1)'
<1>1. ASSUME NEW e, Sees(e, at + 1)'
      PROVE  \E ev : Does(text, e, ev, at + 1)'
  <2>1. Sees(e, k)
    BY <1>1, GleamStays DEF Sees
  <2>2. PICK ev : Does(text', e, ev, k)
    BY <2>1 DEF Reads
  <2>3. Alike(ev, GleamFrom(k)) <=> Alike(ev, GleamFrom(at + 1))'
    BY GleamStays DEF Alike, SameEvent
  <2>4. Opened(k) <=> Opened(at + 1)'
    BY DEF Opened, ShortLet
  <2>5. Does(text, e, ev, at + 1)'
    BY <2>2, <2>3, <2>4 DEF Does
  <2> QED
    BY <2>5
<1> QED
  BY <1>1 DEF Reads

LEMMA StatementReads ==
  ASSUME BodyInv, NEW kind, Statement(kind), UNCHANGED prefix,
         ~Spliced /\ ~Captured => Reads(text', at)
  PROVE  Running'
<1>1. /\ at' = at - 1 /\ at > 0 /\ UNCHANGED <<stmts, params, prefix>>
  BY DEF Statement, bodyInput
<1>2. at \in Int
  BY <1>1, WhatFollows
<1>3. (at + 1)' = at
  BY <1>1, <1>2
<1>4. ASSUME ~Spliced', ~Captured' PROVE Reads(text, at + 1)'
  <2>1. Reads(text', at)
    BY <1>1, <1>4, GleamStays
  <2> QED
    BY <1>1, <1>3, <2>1, ReadsStays
<1> QED
  BY <1>4 DEF Running

(* What a statement is put in front of does what Gleam says, if it binds   *)
(* what the statement binds.                                               *)
After(t, e, ev) ==
  /\ ev \in Seq(Events) /\ Alike(ev, GleamFrom(at + 1)) /\ RunsTo(t, e, ev)
  /\ at # Len(stmts) /\ Opened(at + 1) => OpenRuns(t, e, ev)
  /\ at = Len(stmts) => ev = <<>>

LEMMA RestRuns ==
  ASSUME BodyInv, Running, ~Spliced, ~Captured, at > 0, NEW e, Sees(e, at + 1)
  PROVE  /\ \E ev : After(Following, e, ev)
         /\ \A form \in {"nil", "v"} : \E ev : After(Rest(form), e, ev)
<1>1. /\ Len(stmts) \in Nat /\ at \in 1..Len(stmts) /\ ~written /\ e \in Scopes
  BY WhatFollows, InputTypes DEF BodyInv, BodyType, Sees
<1>2. CASE at = Len(stmts)
  <2>1. GleamFrom(at + 1) = <<>> /\ Alike(<<>>, <<>>) /\ <<>> \in Seq(Events)
    BY <1>2, GleamIs DEF BodyInv, BodyType, Alike
  <2>2. Following = <<>>
    BY <1>1, <1>2, WhatFollows
  <2>3. After(Following, e, <<>>)
    BY <1>1, <1>2, <2>1, <2>2, RunsNothing DEF After
  <2>4. ASSUME NEW form \in {"nil", "v"} PROVE After(Rest(form), e, <<>>)
    <3>1. Rest(form) = <<Eval(0, form)>>
      BY <1>2 DEF Rest, AtEnd
    <3>2. RunsTo(<<Eval(0, form)>>, e, <<>>)
      <4>1. form \in EvalForms /\ 0 \in Int
        BY DEF EvalForms
      <4> QED
        BY <1>1, <4>1, RunsEval
    <3> QED
      BY <1>2, <2>1, <3>1, <3>2 DEF After
  <2> QED
    BY <2>3, <2>4
<1>3. CASE at # Len(stmts)
  <2>1. at < Len(stmts) /\ at + 1 <= Len(stmts)
    BY <1>1, <1>3
  <2>2. PICK ev : Does(text, e, ev, at + 1)
    BY <1>1, <2>1 DEF Running, Reads
  <2>3. After(text, e, ev)
    BY <1>3, <2>1, <2>2 DEF After, Does
  <2>4. Following = text /\ \A form \in {"nil", "v"} : Rest(form) = text
    BY <1>3 DEF Following, Rest, AtEnd
  <2> QED
    BY <2>3, <2>4
<1> QED
  BY <1>2, <1>3

LEMMA RestForm ==
  ASSUME NEW form \in {"nil", "v"}
  PROVE  Head(<<Eval(0, form)>>).form = form
<1>1. form \in EvalForms \ {"recur"} /\ 0 \in Int
  BY DEF EvalForms
<1>2. LET t == <<Eval(0, form)>> IN Head(t).form = form
  BY <1>1, GoodEval
<1> QED
  BY <1>2

(* A text that begins with a let is that let, if none is spliced.          *)
LEMMA LetIsOpened ==
  ASSUME BodyInv, ~Spliced, at > 0, stmts[at].kind \in {"let", "assert let"},
         NEW form \in {"nil", "v"}, Head(Rest(form)).form = "let"
  PROVE  at # Len(stmts) /\ Opened(at + 1)
<1>1. Len(stmts) \in Nat /\ at \in 1..Len(stmts) /\ ~written
  BY WhatFollows, InputTypes DEF BodyInv, BodyType
<1>2. at # Len(stmts)
  <2>1. SUFFICES ASSUME at = Len(stmts) PROVE FALSE
    OBVIOUS
  <2>2. Rest(form) = <<Eval(0, form)>>
    BY <2>1 DEF Rest, AtEnd
  <2>3. Head(Rest(form)).form = form
    BY <2>2, RestForm
  <2> QED
    BY <2>3
<1>3. at < Len(stmts) /\ at \in 1..Len(stmts)-1 /\ Rest(form) = text
  <2>1. at < Len(stmts) /\ at \in 1..Len(stmts)-1
    BY ONLY <1>1, <1>2
  <2>2. Rest(form) = text
    BY <1>2 DEF Rest, AtEnd
  <2> QED
    BY <2>1, <2>2
<1>4. stmts[at + 1].kind \in LetKinds
  BY <1>1, <1>3 DEF BodyInv, Growing, Begins
<1>5. ~ShortLet(at + 1)
  BY <1>3 DEF Spliced
<1> QED
  BY <1>2, <1>4, <1>5 DEF Opened

LEMMA LetBinds ==
  ASSUME NEW bs \in Seq(Pairs)
  PROVE  /\ Let(bs) \in Token /\ Let(bs).form = "let" /\ Let(bs).binds = bs
         /\ Use(bs) \in Token /\ Use(bs).form = "use" /\ Use(bs).binds = bs
<1>1. Let(bs) \in Token /\ Use(bs) \in Token
  BY TokenTypes
<1> QED
  BY <1>1 DEF Let, Use

LEMMA IndexType ==
  ASSUME BodyInput, NEW k \in 1..Len(stmts)
  PROVE  k \in Int /\ k \in 1..Len(stmts)+1 /\ k + 1 \in 1..Len(stmts)+1
BY InputTypes

LEMMA OneEvent == ASSUME NEW x \in Events PROVE <<x>> \in Seq(Events)
OBVIOUS

(* The events of a statement, then those after it.                         *)
LEMMA FirstThen ==
  ASSUME BodyInput, NEW k \in 1..Len(stmts), NEW e, Sees(e, k),
         stmts[k].kind \notin {"test", "assert let", "case"},
         NEW ev \in Seq(Events), Alike(ev, GleamFrom(k + 1))
  PROVE  /\ <<Event(k, "value", e)>> \in Seq(Events)
         /\ <<Event(k, "value", e)>> \o ev \in Seq(Events)
         /\ Alike(<<Event(k, "value", e)>> \o ev, GleamFrom(k))
<1>1. k \in Int /\ k + 1 \in 1..Len(stmts)+1 /\ e \in Scopes
  BY IndexType DEF Sees
<1>2. Event(k, "value", e) \in Events /\ Told(k, "value") \in Events
  BY <1>1, EventType, SeenIs
<1>3. <<Event(k, "value", e)>> \in Seq(Events) /\ <<Told(k, "value")>> \in Seq(Events)
  BY <1>2, OneEvent
<1>4. GleamFrom(k) = <<Told(k, "value")>> \o GleamFrom(k + 1) /\ GleamFrom(k + 1) \in Seq(Events)
  BY <1>1, GleamIs, SeenIs
<1>5. Alike(<<Event(k, "value", e)>>, <<Told(k, "value")>>)
  BY SameAs
<1>6. Alike(<<Event(k, "value", e)>> \o ev, GleamFrom(k))
  BY <1>3, <1>4, <1>5, AlikeBeside
<1>7. <<Event(k, "value", e)>> \o ev \in Seq(Events)
  BY <1>3, Joined
<1> QED
  BY <1>3, <1>6, <1>7

LEMMA TempThen ==
  ASSUME BodyInput, NEW k \in 1..Len(stmts), NEW e, Sees(e, k), NEW f, Sees(f, k), NEW part,
         \/ stmts[k].kind \in {"test", "assert let"} /\ part = "check"
         \/ stmts[k].kind = "case" /\ part = "value",
         NEW ev \in Seq(Events), Alike(ev, GleamFrom(k + 1))
  PROVE  /\ <<Event(k, "temp", e)>> \in Seq(Events) /\ <<Event(k, part, f)>> \in Seq(Events)
         /\ <<Event(k, "temp", e)>> \o (<<Event(k, part, f)>> \o ev) \in Seq(Events)
         /\ Alike(<<Event(k, "temp", e)>> \o (<<Event(k, part, f)>> \o ev), GleamFrom(k))
<1> DEFINE x == <<Event(k, "temp", e)>>
           y == <<Event(k, part, f)>>
           a == <<Told(k, "temp")>>
           b == <<Told(k, part)>>
<1>1. k \in Int /\ k + 1 \in 1..Len(stmts)+1 /\ e \in Scopes /\ f \in Scopes
  BY IndexType DEF Sees
<1>2. x \in Seq(Events) /\ y \in Seq(Events) /\ a \in Seq(Events) /\ b \in Seq(Events)
  <2>1. Event(k, "temp", e) \in Events /\ Event(k, part, f) \in Events
    BY <1>1, EventType
  <2>2. Told(k, "temp") \in Events /\ Told(k, part) \in Events
    BY SeenIs
  <2> QED
    BY <2>1, <2>2, OneEvent
<1>3. Seen(k) = a \o b
  BY SeenIs
<1>4. Alike(x, a) /\ Alike(y, b)
  BY SameAs
<1> HIDE DEF x, y, a, b
<1>5. GleamFrom(k) = (a \o b) \o GleamFrom(k + 1) /\ GleamFrom(k + 1) \in Seq(Events)
  BY <1>1, <1>3, GleamIs
<1>6. GleamFrom(k) = a \o (b \o GleamFrom(k + 1)) /\ b \o GleamFrom(k + 1) \in Seq(Events)
  <2> DEFINE c == GleamFrom(k + 1)
  <2>1. c \in Seq(Events) /\ GleamFrom(k) = (a \o b) \o c
    BY <1>5
  <2> HIDE DEF c
  <2>2. (a \o b) \o c = a \o (b \o c) /\ b \o c \in Seq(Events)
    <3>1. a \in Seq(Events) /\ b \in Seq(Events) /\ c \in Seq(Events)
      BY <1>2, <2>1
    <3>2. b \o c \in Seq(Events)
      BY <2>1, <3>1, ConcatProperties
    <3>3. (a \o b) \o c = a \o (b \o c)
      BY ONLY <3>1, EventsJoined
    <3> QED
      BY <3>2, <3>3
  <2>3. GleamFrom(k) = a \o (b \o c) /\ b \o c \in Seq(Events)
    BY <2>1, <2>2
  <2> QED
    BY <2>3 DEF c
<1>7. y \o ev \in Seq(Events) /\ x \o (y \o ev) \in Seq(Events)
  BY <1>2, Joined
<1>8. Alike(y \o ev, b \o GleamFrom(k + 1))
  BY <1>2, <1>4, <1>5, AlikeBeside
<1>9. Alike(x \o (y \o ev), GleamFrom(k))
  BY <1>2, <1>4, <1>6, <1>7, <1>8, AlikeBeside
<1> QED
  BY <1>2, <1>7, <1>9 DEF x, y

LEMMA AssignLetReads ==
  ASSUME BodyInv, Running, AssignLet, UNCHANGED prefix
  PROVE  Running'
<1> DEFINE name == stmts[at].name
           b == Binding(name, at, "value")
           t == Rest("nil")
<1>1. Statement("let") /\ at > 0 /\ stmts[at].kind = "let" /\ text' = MergedLet(<<b>>, t)
  BY DEF AssignLet, Statement
<1>2. at \in 1..Len(stmts) /\ BodyInput /\ Binds(at) /\ t \in Seq(Token) /\ at \in Int
  BY <1>1, WhatFollows DEF BodyInv, BodyType, Binds, Good
<1>3. b \in Pairs /\ b.name = name /\ b.of = at /\ b.what = "value"
  <2>1. b \in Pairs
    BY <1>2, BindingType
  <2> QED
    BY <2>1 DEF Binding
<1> SUFFICES ASSUME ~Spliced, ~Captured, NEW e, Sees(e, at)
             PROVE  \E ev : Does(text', e, ev, at)
  BY <1>1, StatementReads DEF Reads
<1> DEFINE f == [e EXCEPT ![name] = at]
           x == <<Event(at, "value", e)>>
<1>4. Sees(f, at + 1) /\ e \in Scopes /\ f \in Scopes
  BY <1>2, SeesBound DEF Sees
<1>5. PICK ev : After(t, f, ev)
  <2> HIDE DEF f
  <2> QED
    BY <1>1, <1>4, RestRuns
<1>6. x \in Seq(Events) /\ x \o ev \in Seq(Events) /\ Alike(x \o ev, GleamFrom(at))
  BY <1>1, <1>2, <1>5, FirstThen DEF After
<1>7. t # <<>> /\ Head(t).form = "let" => OpenRuns(t, f, ev)
  BY <1>1, <1>5, LetIsOpened DEF After
<1> HIDE DEF b
<1>8. BindsTo(<<b>>, e, f, x)
  BY <1>3, <1>4, BindOne
<1> HIDE DEF t, f, x
<1>9. OpenRuns(text', e, x \o ev)
  <2>1. <<b>> \in Seq(Pairs)
    BY <1>3
  <2> QED
    BY <1>1, <1>2, <1>4, <1>5, <1>6, <1>7, <1>8, <2>1, MergedRuns DEF After
<1>10. Does(text', e, x \o ev, at)
  BY <1>4, <1>6, <1>9, OpenIsRun DEF Does
<1> QED
  BY <1>10

(* A statement that is evaluated, whether it recurs or not.                *)
LEMMA EvaluatedReads ==
  ASSUME BodyInv, Running, NEW kind, Statement(kind), UNCHANGED prefix,
         kind \notin LetKinds \cup {"use"}, NEW part \in {"value", "recur"},
         text' = <<Eval(at, part)>> \o Following
  PROVE  Running'
<1>1. at > 0 /\ stmts[at].kind = kind
  BY DEF Statement
<1>2. at \in 1..Len(stmts) /\ BodyInput /\ Following \in Seq(Token) /\ at \in Int
  BY <1>1, WhatFollows DEF BodyInv, BodyType, Good
<1>3. ~Binds(at) /\ ~Opened(at) /\ stmts[at].kind \notin {"test", "assert let", "case"}
  BY <1>1 DEF Binds, Opened, LetKinds
<1> SUFFICES ASSUME ~Spliced, ~Captured, NEW e, Sees(e, at)
             PROVE  \E ev : Does(text', e, ev, at)
  BY StatementReads DEF Reads
<1> DEFINE x == <<Event(at, "value", e)>>
           s == <<Eval(at, part)>>
<1>4. Sees(e, at + 1) /\ e \in Scopes
  BY <1>2, <1>3, SeesOn DEF Sees
<1>5. PICK ev : After(Following, e, ev)
  BY <1>1, <1>4, RestRuns
<1>6. x \in Seq(Events) /\ x \o ev \in Seq(Events) /\ Alike(x \o ev, GleamFrom(at))
  BY <1>2, <1>3, <1>5, FirstThen DEF After
<1>7. RunsTo(s, e, x) /\ s \in Seq(Token)
  <2>1. part \in EvalForms /\ part \notin {"nil", "v"}
    BY DEF EvalForms
  <2>2. Event(at, part, e) = Event(at, "value", e)
    BY DEF Event
  <2>3. Eval(at, part) \in Token
    BY <1>2, <2>1, TokenTypes
  <2>4. RunsTo(s, e, <<Event(at, part, e)>>)
    BY <1>2, <1>4, <2>1, RunsEval
  <2> QED
    BY <2>2, <2>3, <2>4
<1> HIDE DEF x, s
<1>8. RunsTo(s \o Following, e, x \o ev)
  BY <1>2, <1>4, <1>5, <1>6, <1>7, RunsBeside DEF After
<1>9. Does(text', e, x \o ev, at)
  BY <1>3, <1>6, <1>8 DEF Does, s
<1> QED
  BY <1>9

LEMMA ShortLetReads ==
  ASSUME BodyInv, Running, NEW kind, Statement(kind), UNCHANGED prefix,
         NEW temp, NEW part,
         \/ kind = "test" /\ temp = "v" /\ part = "check"
         \/ kind = "case" /\ temp = "subject" /\ part = "value",
         text' = <<Let(<<Binding(temp, at, "temp")>>), Eval(at, part), Close>> \o Following
  PROVE  Running'
<1> DEFINE b == Binding(temp, at, "temp")
           o == Let(<<b>>)
           c == Eval(at, part)
           s == <<c>>
           u == <<o>> \o s \o <<Close>>
<1>1. at > 0 /\ stmts[at].kind = kind
  BY DEF Statement
<1>2. at \in 1..Len(stmts) /\ BodyInput /\ Following \in Seq(Token) /\ at \in Int
      /\ (at = Len(stmts) => Following = <<>>)
  BY <1>1, WhatFollows DEF BodyInv, BodyType, Good
<1>3. b \in Pairs /\ b.name = temp /\ b.of = at /\ b.what = "temp" /\ temp \in Names
  <2>1. b \in Pairs /\ temp \in Names
    BY <1>2, BindingType, NamesAssumption
  <2> QED
    BY <2>1 DEF Binding
<1> HIDE DEF b
<1>4. o \in Token /\ o.form = "let" /\ o.binds = <<b>> /\ <<b>> \in Seq(Pairs)
  <2>1. <<b>> \in Seq(Pairs)
    BY <1>3
  <2> QED
    BY <2>1, LetBinds
<1> HIDE DEF o
<1>5. c \in Token /\ Close \in Token /\ s \in Seq(Token)
  <2>1. part \in EvalForms
    BY DEF EvalForms
  <2>2. c \in Token /\ Close \in Token
    BY <1>2, <2>1, TokenTypes
  <2> HIDE DEF c
  <2> QED
    BY <2>2
<1>6. text' = u \o Following /\ u \in Seq(Token)
  <2> HIDE DEF c
  <2>1. u = <<o, c, Close>>
    BY <1>4, <1>5, SideBySide
  <2>2. text' = <<o, c, Close>> \o Following
    BY DEF o, b, c
  <2>3. <<o, c, Close>> \in Seq(Token)
    BY <1>4, <1>5
  <2> QED
    BY <2>1, <2>2, <2>3
<1> SUFFICES ASSUME ~Spliced, ~Captured, NEW e, Sees(e, at)
             PROVE  \E ev : Does(text', e, ev, at)
  BY StatementReads DEF Reads
<1> DEFINE f == [e EXCEPT ![temp] = -at]
           x == <<Event(at, "temp", e)>>
           y == <<Event(at, part, f)>>
<1>7. Sees(f, at) /\ e \in Scopes /\ f \in Scopes
  <2>1. Scope(at)[temp] = Unbound
    <3>1. at \in DOMAIN stmts
      BY <1>2 DEF BodyInput
    <3> QED
      BY <1>1, <3>1 DEF Captured
  <2>2. -at \in Int
    BY <1>2
  <2>3. Sees(f, at)
    BY <1>3, <2>1, <2>2, SeesTemp
  <2> HIDE DEF f
  <2> QED
    BY <2>3 DEF Sees
<1>8. PICK ev : After(Following, e, ev)
  <2>1. ~Binds(at)
    BY <1>1 DEF Binds
  <2>2. Sees(e, at + 1)
    BY <1>2, <2>1, SeesOn
  <2> QED
    BY <1>1, <2>2, RestRuns
<1> HIDE DEF f
<1>9. /\ x \in Seq(Events) /\ y \in Seq(Events) /\ x \o (y \o ev) \in Seq(Events)
      /\ Alike(x \o (y \o ev), GleamFrom(at))
  BY <1>1, <1>2, <1>7, <1>8, TempThen DEF After
<1>10. RunsTo(s, f, y)
  <2>1. part \in EvalForms /\ part \notin {"nil", "v"}
    BY DEF EvalForms
  <2> QED
    BY <1>2, <1>7, <2>1, RunsEval
<1>11. BindsTo(<<b>>, e, f, x)
  BY <1>3, <1>7, BindOne DEF f
<1> HIDE DEF x, y, s
<1>12. OpenRuns(u, e, x \o y)
  BY <1>4, <1>5, <1>7, <1>9, <1>10, <1>11, NewOpens
<1> HIDE DEF u
<1>13. RunsTo(u, e, x \o y) /\ x \o y \in Seq(Events)
  BY <1>7, <1>12, OpenIsRun
<1>14. RunsTo(text', e, (x \o y) \o ev)
  BY <1>2, <1>6, <1>7, <1>8, <1>13, RunsBeside DEF After
<1>15. (x \o y) \o ev = x \o (y \o ev)
  <2>1. x \in Seq(Events) /\ y \in Seq(Events) /\ ev \in Seq(Events)
    BY <1>8, <1>9 DEF After
  <2> QED
    BY ONLY <2>1, EventsJoined
<1>16. Opened(at) => OpenRuns(text', e, (x \o y) \o ev)
  <2>1. SUFFICES ASSUME Opened(at) PROVE OpenRuns(text', e, (x \o y) \o ev)
    OBVIOUS
  <2>2. at = Len(stmts)
    <3>1. Len(stmts) \in Nat /\ ~ShortLet(at)
      BY <1>2, <2>1, InputTypes DEF Opened
    <3> QED
      BY <1>1, <1>2, <3>1 DEF ShortLet
  <2>3. Following = <<>> /\ ev = <<>>
    BY <1>2, <1>8, <2>2 DEF After
  <2>4. text' = u /\ (x \o y) \o ev = x \o y
    <3>1. u \o <<>> = u
      BY <1>6
    <3>2. \A w \in Seq(Events) : w \o <<>> = w
      OBVIOUS
    <3> QED
      BY <1>6, <1>13, <2>3, <3>1, <3>2
  <2> QED
    BY <1>12, <2>4
<1>17. Does(text', e, x \o (y \o ev), at)
  BY <1>9, <1>14, <1>15, <1>16 DEF Does
<1> QED
  BY <1>17

LEMMA BindingAssertReads ==
  ASSUME BodyInv, Running, BindingAssert, UNCHANGED prefix
  PROVE  Running'
<1> DEFINE name == stmts[at].name
           a == Binding("v", at, "temp")
           b == Binding(name, at, "part")
           o == Let(<<a>>)
           c == Eval(at, "check")
           s == <<c>>
           t == Rest("v")
           m == MergedLet(<<b>>, t)
<1>1. /\ Statement("assert let") /\ at > 0 /\ stmts[at].kind = "assert let"
      /\ text' = <<o, c>> \o m \o <<Close>>
  BY DEF BindingAssert, Statement
<1>2. at \in 1..Len(stmts) /\ BodyInput /\ Binds(at) /\ t \in Seq(Token) /\ at \in Int
      /\ name \in Names /\ "v" \in Names
  BY <1>1, WhatFollows, InputTypes, NamesAssumption DEF BodyInv, BodyType, Binds, Good
<1>3. /\ a \in Pairs /\ a.name = "v" /\ a.of = at /\ a.what = "temp"
      /\ b \in Pairs /\ b.name = name /\ b.of = at /\ b.what = "part"
  <2>1. a \in Pairs /\ b \in Pairs
    BY <1>2, BindingType
  <2> QED
    BY <2>1 DEF Binding
<1> HIDE DEF a, b
<1>4. /\ o \in Token /\ o.form = "let" /\ o.binds = <<a>> /\ <<a>> \in Seq(Pairs)
      /\ <<b>> \in Seq(Pairs)
  <2>1. <<a>> \in Seq(Pairs) /\ <<b>> \in Seq(Pairs)
    BY <1>3
  <2> QED
    BY <2>1, LetBinds
<1> HIDE DEF o
<1>5. c \in Token /\ Close \in Token /\ s \in Seq(Token)
  <2>1. "check" \in EvalForms
    BY DEF EvalForms
  <2>2. c \in Token /\ Close \in Token
    BY <1>2, <2>1, TokenTypes
  <2> HIDE DEF c
  <2> QED
    BY <2>2
<1> SUFFICES ASSUME ~Spliced, ~Captured, NEW e, Sees(e, at)
             PROVE  \E ev : Does(text', e, ev, at)
  BY <1>1, StatementReads DEF Reads
<1> DEFINE f == [e EXCEPT !["v"] = -at]
           g == [f EXCEPT ![name] = at]
           x == <<Event(at, "temp", e)>>
           y == <<Event(at, "check", f)>>
<1>6. Sees(f, at) /\ e \in Scopes /\ f \in Scopes /\ f["v"] = -at
  <2>1. Scope(at)["v"] = Unbound
    <3>1. at \in DOMAIN stmts
      BY <1>2 DEF BodyInput
    <3> QED
      BY <1>1, <3>1 DEF Captured
  <2>2. -at \in Int
    BY <1>2
  <2>3. Sees(f, at)
    BY <1>2, <2>1, <2>2, SeesTemp
  <2>4. e \in [Names -> Int]
    BY DEF Sees, Scopes
  <2>5. f["v"] = -at
    BY <1>2, <2>4
  <2> HIDE DEF f
  <2> QED
    BY <2>3, <2>4, <2>5 DEF Sees, Scopes
<1> HIDE DEF f
<1>7. Sees(g, at + 1) /\ g \in Scopes
  <2>1. Sees(g, at + 1)
    BY <1>2, <1>6, SeesBound
  <2> HIDE DEF g
  <2> QED
    BY <2>1 DEF Sees
<1>8. PICK ev : After(t, g, ev)
  <2> HIDE DEF g
  <2> QED
    BY <1>1, <1>7, RestRuns
<1>9. /\ x \in Seq(Events) /\ y \in Seq(Events) /\ x \o (y \o ev) \in Seq(Events)
      /\ Alike(x \o (y \o ev), GleamFrom(at)) /\ ev \in Seq(Events)
  BY <1>1, <1>2, <1>6, <1>8, TempThen DEF After
<1>10. BindsTo(<<a>>, e, f, x)
  BY <1>3, <1>6, BindOne DEF f
<1>11. RunsTo(s, f, y)
  <2>1. "check" \in EvalForms
    BY DEF EvalForms
  <2> QED
    BY <1>2, <1>6, <2>1, RunsEval
<1>12. BindsTo(<<b>>, f, g, <<>>)
  <2>1. g = [f EXCEPT ![b.name] = -f["v"]]
    <3>1. -(-at) = at
      BY <1>2
    <3> QED
      BY <1>3, <1>6, <3>1
  <2> HIDE DEF g
  <2> QED
    BY <1>3, <1>6, <2>1, BindOne
<1>13. t # <<>> /\ Head(t).form = "let" => OpenRuns(t, g, ev)
  BY <1>1, <1>8, LetIsOpened DEF After
<1> HIDE DEF g, t, x, y, s, c
<1>14. OpenRuns(m, f, ev)
  <2>1. OpenRuns(m, f, <<>> \o ev)
    <3>1. <<>> \in Seq(Events)
      OBVIOUS
    <3> QED
      BY <1>2, <1>4, <1>6, <1>7, <1>8, <1>12, <1>13, <3>1, MergedRuns DEF After
  <2>2. <<>> \o ev = ev
    BY <1>9, ConcatEmptySeq
  <2> QED
    BY <2>1, <2>2
<1> HIDE DEF m
<1>15. RunsTo(m, f, ev) /\ m \in Seq(Token)
  BY <1>6, <1>14, OpenIsRun
<1>16. RunsTo(s \o m, f, y \o ev)
  BY <1>5, <1>6, <1>9, <1>11, <1>15, RunsBeside
<1>17. text' = <<o>> \o (s \o m) \o <<Close>> /\ s \o m \in Seq(Token) /\ y \o ev \in Seq(Events)
  <2>1. text' = <<o>> \o (<<c>> \o m) \o <<Close>>
    <3>1. o \in Token /\ c \in Token /\ Close \in Token /\ m \in Seq(Token)
      BY <1>4, <1>5, <1>15
    <3>2. text' = <<o, c>> \o m \o <<Close>>
      BY <1>1
    <3> QED
      BY ONLY <3>1, <3>2, SideBySide
  <2>2. s \o m \in Seq(Token)
    BY <1>5, <1>15
  <2>3. y \o ev \in Seq(Events)
    BY <1>9, ConcatProperties
  <2> QED
    BY <2>1, <2>2, <2>3 DEF s
<1>18. OpenRuns(text', e, x \o (y \o ev))
  <2> DEFINE w == s \o m
             z == y \o ev
  <2>1. /\ w \in Seq(Token) /\ z \in Seq(Events) /\ RunsTo(w, f, z)
        /\ text' = <<o>> \o w \o <<Close>>
    BY <1>16, <1>17
  <2> HIDE DEF w, z
  <2>2. OpenRuns(<<o>> \o w \o <<Close>>, e, x \o z)
    BY <1>4, <1>6, <1>9, <1>10, <2>1, NewOpens
  <2> QED
    BY <2>1, <2>2 DEF z
<1>19. Does(text', e, x \o (y \o ev), at)
  BY <1>6, <1>9, <1>18, OpenIsRun DEF Does
<1> QED
  BY <1>19

(* A use that begins the rest is the callback itself.                      *)
LEMMA UseIsOpened ==
  ASSUME BodyInv, at > 0, text # <<>>, Head(text).form = "use"
  PROVE  at # Len(stmts) /\ Opened(at + 1)
<1>1. Len(stmts) \in Nat /\ at \in 1..Len(stmts) /\ ~written /\ at # Len(stmts)
  BY WhatFollows, InputTypes DEF BodyInv, BodyType
<1>2. at < Len(stmts)
  BY ONLY <1>1
<1>3. stmts[at + 1].kind = "use"
  BY <1>1, <1>2 DEF BodyInv, Growing, Begins
<1> QED
  BY <1>1, <1>3 DEF Opened, ShortLet

LEMMA UseCallReads ==
  ASSUME BodyInv, Running, UseCall, UNCHANGED prefix
  PROVE  Running'
<1> DEFINE name == stmts[at].name
           b == Binding(name, at, "value")
           new == Use(<<b>> \o Head(text).binds)
           o == Use(<<b>>)
<1>1. /\ Statement("use") /\ at > 0 /\ stmts[at].kind = "use"
      /\ text' = IF text # <<>> /\ Head(text).form = "use"
                   THEN <<new>> \o Tail(text) ELSE <<o>> \o text \o <<Close>>
  BY DEF UseCall, Statement
<1>2. at \in 1..Len(stmts) /\ BodyInput /\ Binds(at) /\ text \in Seq(Token) /\ at \in Int
      /\ Following = text
  <2>1. at \in 1..Len(stmts) /\ BodyInput /\ text \in Seq(Token)
    BY <1>1, WhatFollows DEF BodyInv, BodyType, Good
  <2>2. Following = text
    BY DEF Following, AtEnd, BodyInv
  <2> QED
    BY <1>1, <2>1, <2>2, WhatFollows DEF Binds
<1>3. b \in Pairs /\ b.name = name /\ b.of = at /\ b.what = "value"
  <2>1. b \in Pairs
    BY <1>2, BindingType
  <2> QED
    BY <2>1 DEF Binding
<1> SUFFICES ASSUME ~Spliced, ~Captured, NEW e, Sees(e, at)
             PROVE  \E ev : Does(text', e, ev, at)
  BY <1>1, StatementReads DEF Reads
<1> DEFINE f == [e EXCEPT ![name] = at]
           x == <<Event(at, "value", e)>>
<1>4. Sees(f, at + 1) /\ e \in Scopes /\ f \in Scopes
  BY <1>2, SeesBound DEF Sees
<1>5. PICK ev : After(text, f, ev)
  <2> HIDE DEF f
  <2> QED
    BY <1>1, <1>2, <1>4, RestRuns
<1>6. x \in Seq(Events) /\ x \o ev \in Seq(Events) /\ Alike(x \o ev, GleamFrom(at))
  BY <1>1, <1>2, <1>5, FirstThen DEF After
<1> HIDE DEF b
<1>7. BindsTo(<<b>>, e, f, x) /\ <<b>> \in Seq(Pairs)
  BY <1>3, <1>4, BindOne
<1> HIDE DEF f, x, new, o
<1>8. CASE text # <<>> /\ Head(text).form = "use"
  <2>1. OpenRuns(text, f, ev)
    BY <1>1, <1>5, <1>8, UseIsOpened DEF After
  <2>2. new \in Token /\ new.form = Head(text).form /\ new.binds = <<b>> \o Head(text).binds
    <3>1. Head(text).binds \in Seq(Pairs)
      BY <2>1, HeadBinds
    <3>2. <<b>> \o Head(text).binds \in Seq(Pairs)
      BY <1>7, <3>1, ConcatProperties
    <3> QED
      BY <1>8, <3>2, LetBinds DEF new
  <2>3. OpenRuns(<<new>> \o Tail(text), e, x \o ev)
    BY <1>4, <1>6, <1>7, <2>1, <2>2, OpensMore
  <2> QED
    BY <1>1, <1>4, <1>6, <1>8, <2>3, OpenIsRun DEF Does
<1>9. CASE ~(text # <<>> /\ Head(text).form = "use")
  <2>1. o \in Token /\ o.form = "use" /\ o.binds = <<b>>
    BY <1>7, LetBinds DEF o
  <2>2. OpenRuns(<<o>> \o text \o <<Close>>, e, x \o ev)
    BY <1>2, <1>4, <1>5, <1>6, <1>7, <2>1, NewOpens DEF After
  <2> QED
    BY <1>1, <1>4, <1>6, <1>9, <2>2, OpenIsRun DEF Does
<1> QED
  BY <1>8, <1>9

(* The let around the body of a branch binds the names of its prefix.      *)
GivenBindings == [k \in DOMAIN prefix |-> Binding(prefix[k], Given, "given")]
LEMMA GivenBinds ==
  ASSUME BodyInput
  PROVE  /\ GivenBindings \in Seq(Pairs) /\ BindsTo(GivenBindings, Around, AtStart, <<>>)
         /\ AtStart \in Scopes
<1> DEFINE n == Len(prefix)
           gs == GivenBindings
           env(m) == [name \in Names |-> IF \E k \in 1..m : prefix[k] = name THEN Given ELSE Around[name]]
<1>1. /\ n \in Nat /\ Given \in Int /\ Around \in [Names -> Int] /\ "v" \in Names
      /\ prefix \in Seq(Names) /\ DOMAIN prefix = 1..n /\ \A k \in 1..n : prefix[k] \in Names
  BY InputTypes, NamesAssumption DEF BodyInput, Scopes
<1>2. /\ gs \in Seq(Pairs) /\ Len(gs) = n
      /\ \A k \in 1..n : gs[k].name = prefix[k] /\ gs[k].of = Given /\ gs[k].what = "given"
  <2>1. gs = [k \in 1..n |-> Binding(prefix[k], Given, "given")]
    BY <1>1 DEF GivenBindings
  <2>2. \A k \in 1..n : Binding(prefix[k], Given, "given") \in Pairs
    BY <1>1 DEF Binding, Pairs
  <2> HIDE DEF gs
  <2>3. gs \in [1..n -> Pairs] /\ \A k \in 1..n : gs[k] = Binding(prefix[k], Given, "given")
    BY <2>1, <2>2
  <2>4. gs \in Seq(Pairs) /\ Len(gs) = n
    BY <1>1, <2>3
  <2> QED
    BY <2>3, <2>4 DEF Binding
<1> HIDE DEF gs, n
<1>3. \A m : env(m) \in [Names -> Int]
  BY <1>1
<1>4. env(0) = Around
  <2>1. ~\E k \in 1..0 : TRUE
    OBVIOUS
  <2>2. env(0) = [name \in Names |-> Around[name]]
    BY <2>1
  <2> HIDE DEF env
  <2> QED
    BY <1>1, <2>2
<1>5. env(n) = AtStart
  <2>1. ToSet(prefix) = {prefix[k] : k \in 1..n}
    BY <1>1 DEF ToSet
  <2>2. \A name : name \in ToSet(prefix) <=> \E k \in 1..n : prefix[k] = name
    BY <2>1
  <2> QED
    BY <2>2 DEF AtStart
<1>6. ASSUME NEW m \in 1..n PROVE env(m) = [env(m - 1) EXCEPT ![prefix[m]] = Given]
  <2> DEFINE f == env(m)
             g == [env(m - 1) EXCEPT ![prefix[m]] = Given]
  <2>1. prefix[m] \in Names
    BY <1>1
  <2>2. \A name \in Names :
          (\E k \in 1..m : prefix[k] = name) <=> (prefix[m] = name \/ \E k \in 1..m-1 : prefix[k] = name)
    <3>1. 1..m = (1..m-1) \cup {m}
      BY <1>1
    <3> QED
      BY <3>1
  <2>3. f \in [Names -> Int] /\ g \in [Names -> Int]
    <3> HIDE DEF env
    <3> QED
      BY <1>1, <1>3, <2>1
  <2>4. \A name \in Names : f[name] = g[name]
    BY <1>3, <2>1, <2>2
  <2> HIDE DEF f, g
  <2>5. f = g
    BY <2>3, <2>4
  <2> QED
    BY <2>5 DEF f, g
<1> HIDE DEF env
<1>7. ASSUME NEW tr \in Seq(Events)
      PROVE  RunBindings([env |-> Around, trace |-> tr], gs) = [env |-> AtStart, trace |-> tr]
  <2> DEFINE st(m) == [env |-> env(m), trace |-> tr]
             h == [m \in 0..n |-> st(m)]
  <2>1. \A m : st(m) \in LetStates
    BY <1>3 DEF LetStates, Scopes
  <2>2. \A m : st(m).env = env(m) /\ st(m).trace = tr
    OBVIOUS
  <2>3. st(0) = [env |-> Around, trace |-> tr] /\ st(n) = [env |-> AtStart, trace |-> tr]
    BY <1>4, <1>5
  <2>4. ASSUME NEW m \in 1..n PROVE st(m) = RunBinding(st(m - 1), gs[m])
    <3>1. gs[m].name = prefix[m] /\ gs[m].of = Given /\ gs[m].what = "given"
      BY <1>2
    <3>2. RunBinding(st(m - 1), gs[m]) = [env |-> [st(m - 1).env EXCEPT ![prefix[m]] = Given], trace |-> st(m - 1).trace]
      BY <3>1 DEF RunBinding
    <3> QED
      BY <1>6, <2>2, <3>2
  <2> HIDE DEF st
  <2>5. h \in [0..n -> LetStates] /\ h[0] = st(0) /\ h[n] = st(n)
    BY <1>1, <2>1
  <2>6. \A m \in 1..n : h[m] = RunBinding(h[m - 1], gs[m])
    <3> SUFFICES ASSUME NEW m \in 1..n PROVE h[m] = RunBinding(h[m - 1], gs[m])
      OBVIOUS
    <3>1. m \in 0..n /\ m - 1 \in 0..n
      BY <1>1
    <3>2. h[m] = st(m) /\ h[m - 1] = st(m - 1)
      BY <3>1
    <3> QED
      BY <2>4, <3>2
  <2> HIDE DEF h
  <2>7. IsBinding(gs, h, st(0), st(n))
    BY <1>2, <2>5, <2>6 DEF IsBinding
  <2> QED
    BY <1>2, <2>3, <2>7, BindingIs
<1>8. BindsTo(gs, Around, AtStart, <<>>)
  <2>1. \A tr \in Seq(Events) : tr \o <<>> = tr
    BY ConcatEmptySeq
  <2> QED
    BY <1>7, <2>1 DEF BindsTo
<1>9. AtStart \in Scopes
  BY <1>3, <1>5 DEF Scopes
<1> QED
  BY <1>2, <1>8, <1>9 DEF gs

(* The whole body, from the variables around it.                           *)
RunsWhole(t) ==
  \E ev : ev \in Seq(Events) /\ Alike(ev, GleamFrom(1)) /\ RunsTo(t, Around, ev)
Ran == written /\ ~Spliced /\ ~Captured => RunsWhole(text)

LEMMA SurroundRuns ==
  ASSUME BodyInv, Running, Surround, ~Spliced, ~Captured
  PROVE  RunsWhole(text')
<1>1. /\ at = 0 /\ ~written
      /\ text' = IF inFunction THEN text
                 ELSE IF prefix # <<>> THEN MergedLet(GivenBindings, text)
                 ELSE IF Len(stmts) = 1 \/ Head(text).form \in {"let", "use"} THEN text
                 ELSE <<Do>> \o text \o <<Close>>
  BY DEF Surround, GivenBindings
<1>2. /\ BodyInput /\ Len(stmts) \in Nat \ {0} /\ text \in Seq(Token) /\ Around \in Scopes
      /\ Growing
  BY InputTypes DEF BodyInv, BodyType, Good
<1>3. at < Len(stmts) /\ at + 1 = 1 /\ 1 <= Len(stmts) /\ 1 \in 1..Len(stmts)+1
  BY <1>1, <1>2
<1>4. Sees(AtStart, 1) /\ AtStart \in Scopes
  BY <1>2, <1>3, ScopeIs DEF Sees
<1>5. PICK ev : Does(text, AtStart, ev, 1)
  BY <1>1, <1>3, <1>4 DEF Running, Reads
<1>6. /\ ev \in Seq(Events) /\ Alike(ev, GleamFrom(1)) /\ RunsTo(text, AtStart, ev)
      /\ Opened(1) => OpenRuns(text, AtStart, ev)
  BY <1>3, <1>5 DEF Does
<1>7. <<>> \in Seq(Events) /\ <<>> \o ev = ev
  BY <1>6, ConcatEmptySeq
<1>8. CASE ~inFunction /\ prefix # <<>>
  <2>1. text' = MergedLet(GivenBindings, text)
    BY <1>1, <1>8
  <2>2. Head(text).form = "let" => Opened(1)
    BY <1>1, <1>2, <1>3, <1>8 DEF Growing, Begins, Spliced, Opened
  <2>3. OpenRuns(text', Around, <<>> \o ev)
    BY <1>2, <1>4, <1>6, <1>7, <2>1, <2>2, GivenBinds, MergedRuns
  <2> QED
    BY <1>2, <1>6, <1>7, <2>3, OpenIsRun DEF RunsWhole
<1>9. CASE inFunction \/ prefix = <<>>
  <2>1. prefix = <<>>
    BY <1>2, <1>9 DEF BodyInput
  <2>2. AtStart = Around
    <3>1. ToSet(<<>>) = {}
      BY DEF ToSet
    <3>2. AtStart = [name \in Names |-> Around[name]]
      BY <2>1, <3>1 DEF AtStart
    <3> QED
      BY <1>2, <3>2 DEF Scopes
  <2>3. text' = text \/ text' = <<Do>> \o text \o <<Close>>
    BY <1>1, <2>1
  <2>4. ASSUME text' = <<Do>> \o text \o <<Close>> PROVE RunsTo(text', Around, ev)
    <3>1. Do \in Token /\ Do.form \in Opening /\ Do.binds = <<>> /\ <<>> \in Seq(Pairs)
      BY TokenTypes DEF Do, Opening
    <3>2. BindsTo(Do.binds, Around, Around, <<>>)
      BY <1>2, <3>1, BindNothing
    <3>3. RunsTo(<<Do>> \o text \o <<Close>>, Around, <<>> \o ev)
      BY <1>2, <1>6, <1>7, <2>2, <3>1, <3>2, RunsWrapped
    <3> QED
      BY <1>7, <2>4, <3>3
  <2> QED
    BY <1>6, <2>2, <2>3, <2>4 DEF RunsWhole
<1> QED
  BY <1>8, <1>9

(* What Clojure evaluates is what the run adds to the trace.               *)
LEMMA TraceIs ==
  ASSUME BodyInput, text \in Seq(Token), NEW ev \in Seq(Events), RunsTo(text, Around, ev)
  PROVE  Trace = ev
<1> DEFINE n == Len(text)
           start == [envs |-> <<Around>>, trace |-> <<>>]
           From(g, m) == IF m = 0 THEN start ELSE RunToken(g[m - 1], text[m])
           g == CHOOSE f : f = [m \in 0..n |-> From(f, m)]
<1>1. n \in Nat /\ Around \in Scopes
  BY InputTypes
<1>2. PICK r : IsRun(text, r, State(<<>>, Around, <<>>), State(<<>>, Around, <<>> \o ev))
  <2>1. <<>> \in Seq(Scopes) /\ <<>> \in Seq(Events)
    OBVIOUS
  <2> QED
    BY <2>1 DEF RunsTo, Runs
<1>3. /\ r \in [0..n -> TextStates] /\ r[0] = start /\ r[n].trace = ev
      /\ \A m \in 1..n : r[m] = RunToken(r[m - 1], text[m])
  <2>1. State(<<>>, Around, <<>>) = start
    <3>1. Append(<<>>, Around) = <<Around>>
      OBVIOUS
    <3> QED
      BY <3>1 DEF State
  <2>2. State(<<>>, Around, <<>> \o ev).trace = ev
    BY ConcatEmptySeq DEF State
  <2> QED
    BY <1>2, <2>1, <2>2 DEF IsRun
<1> HIDE DEF start
<1>4. r = [m \in 0..n |-> From(r, m)]
  <2>1. ASSUME NEW m \in 0..n PROVE r[m] = From(r, m)
    BY <1>1, <1>3
  <2> HIDE DEF From
  <2> QED
    BY <1>3, <2>1
<1>5. g = [m \in 0..n |-> From(g, m)]
  BY <1>4
<1>6. \A m \in 0..n : g[m] = From(g, m)
  <2> HIDE DEF g, From
  <2> QED
    BY <1>5
<1>7. Trace = g[n].trace
  BY DEF Trace, start
<1> HIDE DEF g
<1>8. SameSteps(g, r, n)
  <2>1. g[0] = r[0]
    BY <1>1, <1>3, <1>6
  <2>2. \A m \in 1..n : g[m - 1] = r[m - 1] => g[m] = r[m]
    BY <1>1, <1>3, <1>6
  <2> QED
    BY <2>1, <2>2 DEF SameSteps
<1>9. g[n] = r[n]
  BY <1>1, <1>8, SameFold DEF Same
<1> QED
  BY <1>3, <1>7, <1>9

-----------------------------------------------------------------------------
(* What the text ends with, closing parentheses aside: what the last       *)
(* statement evaluates to.                                                 *)
EndsWith(t, u) == \E m \in 1..Len(t) : t[m] = u /\ \A l \in m+1..Len(t) : t[l].form = "close"
LastKind == stmts[Len(stmts)].kind
Result(u) ==
  \/ LastKind = "assert let" /\ u = Eval(0, "v")
  \/ LastKind # "assert let" /\ \E form \in {"value", "recur"} : u = Eval(Len(stmts), form)
Yielding(t) == LastKind \notin {"let", "test", "use"} => \E u : Result(u) /\ EndsWith(t, u)
Ended == at < Len(stmts) => Yielding(text)

LEMMA EndsOne == ASSUME NEW u \in Token PROVE EndsWith(<<u>>, u)
<1> DEFINE t == <<u>>
<1>1. Len(t) = 1 /\ t[1] = u
  OBVIOUS
<1> HIDE DEF t
<1>2. 1 \in 1..1 /\ \A l \in 2..1 : FALSE
  OBVIOUS
<1>3. EndsWith(t, u)
  BY <1>1, <1>2 DEF EndsWith
<1> QED
  BY <1>3 DEF t

LEMMA EndsBeside ==
  ASSUME NEW s \in Seq(Token), NEW t \in Seq(Token), NEW u, EndsWith(t, u)
  PROVE  EndsWith(s \o t, u)
<1> DEFINE w == s \o t
           n == Len(s)
<1>1. /\ Len(w) = n + Len(t) /\ n \in Nat /\ Len(t) \in Nat
      /\ \A q \in 1..Len(t) : w[n + q] = t[q]
  BY Appended
<1> HIDE DEF w, n
<1>2. PICK m \in 1..Len(t) : t[m] = u /\ \A l \in m+1..Len(t) : t[l].form = "close"
  BY DEF EndsWith
<1>3. n + m \in 1..Len(w) /\ w[n + m] = u
  BY <1>1, <1>2
<1>4. ASSUME NEW l \in n+m+1..Len(w) PROVE w[l].form = "close"
  <2>1. l - n \in m+1..Len(t) /\ l - n \in 1..Len(t) /\ n + (l - n) = l
    BY <1>1, <1>2
  <2> QED
    BY <1>1, <1>2, <2>1
<1>5. EndsWith(w, u)
  BY <1>3, <1>4 DEF EndsWith
<1> QED
  BY <1>5 DEF w

LEMMA EndsClosed ==
  ASSUME NEW t \in Seq(Token), NEW u, EndsWith(t, u)
  PROVE  EndsWith(t \o <<Close>>, u)
<1> DEFINE c == <<Close>>
           w == t \o c
           n == Len(t)
<1>1. /\ Len(w) = n + 1 /\ n \in Nat /\ w[n + 1].form = "close"
      /\ \A q \in 1..n : w[q] = t[q]
  <2>1. Close \in Token /\ Close.form = "close"
    BY TokenTypes DEF Close
  <2>2. c \in Seq(Token) /\ Len(c) = 1 /\ c[1] = Close
    BY <2>1
  <2> HIDE DEF c
  <2>3. /\ Len(w) = n + Len(c) /\ n \in Nat
        /\ (\A q \in 1..n : w[q] = t[q]) /\ (\A q \in 1..Len(c) : w[n + q] = c[q])
    <3>1. t \in Seq(Token) /\ c \in Seq(Token)
      BY <2>2
    <3> QED
      BY ONLY <3>1, Appended
  <2>4. w[n + 1] = Close
    <3>1. 1 \in 1..Len(c)
      BY <2>2
    <3> QED
      BY <2>2, <2>3, <3>1
  <2> QED
    BY <2>1, <2>2, <2>3, <2>4
<1> HIDE DEF w, n
<1>2. PICK m \in 1..n : t[m] = u /\ \A l \in m+1..n : t[l].form = "close"
  BY DEF EndsWith, n
<1>3. m \in 1..Len(w) /\ w[m] = u
  BY <1>1, <1>2
<1>4. ASSUME NEW l \in m+1..Len(w) PROVE w[l].form = "close"
  <2>1. l = n + 1 \/ (l \in m+1..n /\ l \in 1..n)
    BY <1>1, <1>2
  <2> QED
    BY <1>1, <1>2, <2>1
<1>5. EndsWith(w, u)
  BY <1>3, <1>4 DEF EndsWith
<1> QED
  BY <1>5 DEF w, c

LEMMA EndsWrapped ==
  ASSUME NEW s \in Seq(Token), NEW t \in Seq(Token), NEW u, EndsWith(t, u)
  PROVE  EndsWith(s \o t \o <<Close>>, u)
<1>1. s \o t \in Seq(Token) /\ EndsWith(s \o t, u)
  BY EndsBeside
<1> QED
  BY <1>1, EndsClosed

(* The first token is not the last one, if it opens.                       *)
LEMMA EndsMore ==
  ASSUME NEW t \in Seq(Token), NEW o \in Token, NEW u, EndsWith(t, u), t # <<>>,
         Head(t).form # u.form
  PROVE  EndsWith(<<o>> \o Tail(t), u)
<1> DEFINE w == <<o>> \o Tail(t)
<1>1. Len(t) \in Nat \ {0} /\ Head(t) = t[1]
  BY EmptySeq
<1>2. Len(w) = Len(t) /\ \A k \in 2..Len(t) : w[k] = t[k]
  BY <1>1
<1> HIDE DEF w
<1>3. PICK m \in 1..Len(t) : t[m] = u /\ \A l \in m+1..Len(t) : t[l].form = "close"
  BY DEF EndsWith
<1>4. m \in 2..Len(t)
  BY <1>1, <1>3
<1>5. \A l \in m+1..Len(t) : l \in 2..Len(t)
  BY <1>1, <1>4
<1>6. EndsWith(w, u)
  BY <1>2, <1>3, <1>4, <1>5 DEF EndsWith
<1> QED
  BY <1>6 DEF w

LEMMA EndsMerged ==
  ASSUME NEW t \in Seq(Token), NEW u, EndsWith(t, u), u.form # "let", NEW bs \in Seq(Pairs)
  PROVE  EndsWith(MergedLet(bs, t), u)
<1>1. CASE t # <<>> /\ Head(t).form = "let"
  <2> DEFINE o == Let(bs \o Head(t).binds)
  <2>1. o \in Token
    BY <1>1, MoreBinds
  <2>2. MergedLet(bs, t) = <<o>> \o Tail(t)
    BY <1>1 DEF MergedLet
  <2> HIDE DEF o
  <2> QED
    BY <1>1, <2>1, <2>2, EndsMore
<1>2. CASE ~(t # <<>> /\ Head(t).form = "let")
  <2> DEFINE s == <<Let(bs)>>
  <2>1. s \in Seq(Token)
    <3>1. Let(bs) \in Token
      BY LetBinds
    <3> QED
      BY <3>1
  <2>2. MergedLet(bs, t) = s \o t \o <<Close>>
    BY <1>2 DEF MergedLet
  <2> HIDE DEF s
  <2> QED
    BY <2>1, <2>2, EndsWrapped
<1> QED
  BY <1>1, <1>2

LEMMA StatementYields ==
  ASSUME BodyInv, NEW kind, Statement(kind), Yielding(text')
  PROVE  Ended'
<1>1. stmts' = stmts
  BY DEF Statement, bodyInput
<1>2. Yielding(text)'
  BY <1>1 DEF Yielding, LastKind, Result
<1> QED
  BY <1>2 DEF Ended

LEMMA ResultType ==
  ASSUME BodyInput, NEW u, Result(u)
  PROVE  u \in Token /\ u.form \in {"v", "value", "recur"}
<1>1. Len(stmts) \in Int /\ 0 \in Int /\ {"v", "value", "recur"} \subseteq EvalForms
  BY InputTypes DEF EvalForms
<1>2. \A k \in Int, form \in {"v", "value", "recur"} : Eval(k, form) \in Token /\ Eval(k, form).form = form
  <2>1. \A k \in Int, form \in {"v", "value", "recur"} : Eval(k, form) \in Token
    BY <1>1, TokenTypes
  <2> QED
    BY <2>1 DEF Eval
<1> QED
  BY <1>1, <1>2 DEF Result

(* What comes before the text of the other statements changes nothing.     *)
LEMMA RestYields ==
  ASSUME BodyInv, Ended, at > 0, at # Len(stmts)
  PROVE  /\ Yielding(text) /\ Following = text /\ \A form \in {"nil", "v"} : Rest(form) = text
         /\ \A s \in Seq(Token) : Yielding(s \o text) /\ Yielding(s \o text \o <<Close>>)
         /\ \A bs \in Seq(Pairs) :
              /\ Yielding(MergedLet(bs, text))
              /\ text # <<>> /\ Head(text).form = "use" =>
                   Yielding(<<Use(bs \o Head(text).binds)>> \o Tail(text))
<1>1. Len(stmts) \in Nat /\ at \in 1..Len(stmts) /\ text \in Seq(Token) /\ BodyInput
  BY WhatFollows, InputTypes DEF BodyInv, BodyType, Good
<1>2. at < Len(stmts)
  BY ONLY <1>1, at # Len(stmts)
<1>3. Yielding(text) /\ Following = text /\ \A form \in {"nil", "v"} : Rest(form) = text
  BY <1>2 DEF Ended, Following, Rest, AtEnd
<1>4. ASSUME NEW s \in Seq(Token) PROVE Yielding(s \o text) /\ Yielding(s \o text \o <<Close>>)
  BY <1>1, <1>3, EndsBeside, EndsWrapped DEF Yielding
<1>5. ASSUME NEW bs \in Seq(Pairs) PROVE Yielding(MergedLet(bs, text))
  BY <1>1, <1>3, EndsMerged, ResultType DEF Yielding
<1>6. ASSUME NEW bs \in Seq(Pairs), text # <<>>, Head(text).form = "use"
      PROVE  Yielding(<<Use(bs \o Head(text).binds)>> \o Tail(text))
  BY <1>1, <1>3, <1>6, MoreBinds, EndsMore, ResultType DEF Yielding
<1> QED
  BY <1>3, <1>4, <1>5, <1>6

LEMMA AssignLetYields ==
  ASSUME BodyInv, Ended, AssignLet
  PROVE  Ended'
<1> DEFINE bs == <<Binding(stmts[at].name, at, "value")>>
<1>1. Statement("let") /\ at > 0 /\ stmts[at].kind = "let" /\ text' = MergedLet(bs, Rest("nil"))
  BY DEF AssignLet, Statement
<1>2. CASE at = Len(stmts)
  <2>1. Yielding(text')
    BY <1>1, <1>2 DEF Yielding, LastKind
  <2> QED
    BY <1>1, <2>1, StatementYields
<1>3. CASE at # Len(stmts)
  <2>1. bs \in Seq(Pairs)
    <3>1. Binding(stmts[at].name, at, "value") \in Pairs
      BY <1>1, WhatFollows, BindingType DEF Binds
    <3> QED
      BY <3>1
  <2> HIDE DEF bs
  <2>2. Yielding(text')
    BY <1>1, <1>3, <2>1, RestYields
  <2> QED
    BY <1>1, <2>2, StatementYields
<1> QED
  BY <1>2, <1>3

LEMMA EvaluatedYields ==
  ASSUME BodyInv, Ended, NEW kind, Statement(kind), kind \notin LetKinds \cup {"use"},
         NEW part \in {"value", "recur"}, text' = <<Eval(at, part)>> \o Following
  PROVE  Ended'
<1> DEFINE c == Eval(at, part)
           s == <<c>>
<1>1. at > 0 /\ stmts[at].kind = kind /\ at \in Int /\ (at = Len(stmts) => Following = <<>>)
  BY WhatFollows DEF Statement
<1>2. c \in Token /\ s \in Seq(Token)
  <2>1. part \in EvalForms
    BY DEF EvalForms
  <2>2. c \in Token
    BY <1>1, <2>1, TokenTypes
  <2> HIDE DEF c
  <2> QED
    BY <2>2
<1>3. CASE at = Len(stmts)
  <2>1. text' = s
    <3>1. text' = s \o <<>>
      BY <1>1, <1>3
    <3> HIDE DEF s
    <3> QED
      BY <1>2, <3>1
  <2>2. EndsWith(s, c)
    <3> HIDE DEF c
    <3> QED
      BY <1>2, EndsOne
  <2>3. LastKind # "assert let"
    BY <1>1, <1>3 DEF LastKind, LetKinds
  <2>4. Result(c)
    BY <1>3, <2>3 DEF Result
  <2> HIDE DEF s, c
  <2>5. Yielding(text')
    BY <2>1, <2>2, <2>4 DEF Yielding
  <2> QED
    BY <2>5, StatementYields
<1>4. CASE at # Len(stmts)
  <2>1. text' = s \o text
    BY <1>1, <1>4, RestYields
  <2> HIDE DEF s
  <2>2. Yielding(text')
    BY <1>1, <1>2, <1>4, <2>1, RestYields
  <2> QED
    BY <2>2, StatementYields
<1> QED
  BY <1>3, <1>4

LEMMA ShortLetYields ==
  ASSUME BodyInv, Ended, NEW kind, Statement(kind), NEW temp \in {"v", "subject"}, NEW part,
         \/ kind = "test" /\ part = "check"
         \/ kind = "case" /\ part = "value",
         text' = <<Let(<<Binding(temp, at, "temp")>>), Eval(at, part), Close>> \o Following
  PROVE  Ended'
<1> DEFINE b == Binding(temp, at, "temp")
           o == Let(<<b>>)
           c == Eval(at, part)
           u == <<o, c, Close>>
<1>1. /\ at > 0 /\ stmts[at].kind = kind /\ at \in Int /\ at \in 1..Len(stmts)
      /\ (at = Len(stmts) => Following = <<>>)
  BY WhatFollows DEF Statement
<1>2. o \in Token /\ c \in Token /\ Close \in Token
  <2>1. b \in Pairs
    BY <1>1, BindingType
  <2> HIDE DEF b
  <2>2. <<b>> \in Seq(Pairs)
    BY <2>1
  <2>3. part \in EvalForms
    BY DEF EvalForms
  <2> QED
    BY <1>1, <2>2, <2>3, TokenTypes
<1>3. text' = u \o Following
  BY DEF u
<1> HIDE DEF o, c
<1>4. u \in Seq(Token)
  BY <1>2
<1>5. CASE at = Len(stmts)
  <2>1. text' = u
    <3>1. text' = u \o <<>>
      BY <1>1, <1>3, <1>5
    <3> HIDE DEF u
    <3> QED
      BY <1>4, <3>1
  <2>2. EndsWith(u, c)
    <3>1. u = <<o>> \o <<c>> \o <<Close>>
      BY <1>2, SideBySide
    <3>2. EndsWith(<<c>>, c) /\ <<o>> \in Seq(Token) /\ <<c>> \in Seq(Token)
      BY <1>2, EndsOne
    <3> QED
      BY <3>1, <3>2, EndsWrapped
  <2> HIDE DEF u
  <2>3. kind = "case" => Result(c)
    <3>1. kind = "case" => LastKind = "case"
      BY <1>1, <1>5 DEF LastKind
    <3> QED
      BY <1>5, <3>1 DEF Result, c
  <2>4. kind # "case" => LastKind = "test"
    BY <1>1, <1>5 DEF LastKind
  <2>5. Yielding(text')
    BY <2>1, <2>2, <2>3, <2>4 DEF Yielding
  <2> QED
    BY <2>5, StatementYields
<1>6. CASE at # Len(stmts)
  <2>1. text' = u \o text
    BY <1>1, <1>3, <1>6, RestYields
  <2> HIDE DEF u
  <2>2. Yielding(text')
    BY <1>1, <1>4, <1>6, <2>1, RestYields
  <2> QED
    BY <2>2, StatementYields
<1> QED
  BY <1>5, <1>6

LEMMA BindingAssertYields ==
  ASSUME BodyInv, Ended, BindingAssert
  PROVE  Ended'
<1> DEFINE a == Binding("v", at, "temp")
           b == Binding(stmts[at].name, at, "part")
           o == Let(<<a>>)
           c == Eval(at, "check")
           s == <<o, c>>
           t == Rest("v")
           m == MergedLet(<<b>>, t)
<1>1. /\ Statement("assert let") /\ at > 0 /\ stmts[at].kind = "assert let"
      /\ text' = s \o m \o <<Close>>
  BY DEF BindingAssert, Statement
<1>2. at \in 1..Len(stmts) /\ BodyInput /\ at \in Int /\ Good(t)
  BY <1>1, WhatFollows DEF BodyInv, BodyType
<1>3. a \in Pairs /\ b \in Pairs
  BY <1>1, <1>2, BindingType DEF Binds
<1> HIDE DEF a, b
<1>4. <<a>> \in Seq(Pairs) /\ <<b>> \in Seq(Pairs)
  BY <1>3
<1>5. s \in Seq(Token)
  <2>1. "check" \in EvalForms
    BY DEF EvalForms
  <2>2. o \in Token /\ c \in Token
    BY <1>2, <1>4, <2>1, TokenTypes
  <2> HIDE DEF o, c
  <2> QED
    BY <2>2
<1>6. t \in Seq(Token) /\ m \in Seq(Token)
  <2>1. Good(m)
    <3> HIDE DEF t
    <3> QED
      BY <1>2, <1>4, GoodMergedLet
  <2> QED
    BY <1>2, <2>1 DEF Good
<1>7. SUFFICES Yielding(text')
  BY <1>1, StatementYields
<1> HIDE DEF s
<1>8. ASSUME NEW u, Result(u), EndsWith(t, u) PROVE Yielding(text')
  <2>1. u.form # "let"
    BY <1>2, <1>8, ResultType
  <2>2. EndsWith(m, u)
    <3> HIDE DEF t
    <3> QED
      BY <1>4, <1>6, <1>8, <2>1, EndsMerged
  <2> HIDE DEF m
  <2>3. EndsWith(text', u)
    BY <1>1, <1>5, <1>6, <2>2, EndsWrapped
  <2> QED
    BY <1>8, <2>3 DEF Yielding
<1>9. CASE at = Len(stmts)
  <2> DEFINE u == Eval(0, "v")
  <2>1. u \in Token /\ t = <<u>>
    <3>1. "v" \in EvalForms /\ 0 \in Int
      BY DEF EvalForms
    <3> QED
      BY <1>9, <3>1, TokenTypes DEF Rest, AtEnd
  <2>2. Result(u)
    BY <1>1, <1>9 DEF Result, LastKind
  <2> HIDE DEF u, t
  <2>3. EndsWith(t, u)
    BY <2>1, EndsOne
  <2> QED
    BY <1>8, <2>2, <2>3
<1>10. CASE at # Len(stmts)
  <2>1. Yielding(text) /\ t = text
    BY <1>1, <1>10, RestYields
  <2> HIDE DEF t, m
  <2> QED
    BY <1>8, <2>1 DEF Yielding
<1> QED
  BY <1>9, <1>10

LEMMA UseCallYields ==
  ASSUME BodyInv, Ended, UseCall
  PROVE  Ended'
<1> DEFINE b == Binding(stmts[at].name, at, "value")
           bs == <<b>>
           s == <<Use(bs)>>
<1>1. /\ Statement("use") /\ at > 0 /\ stmts[at].kind = "use"
      /\ text' = IF text # <<>> /\ Head(text).form = "use"
                   THEN <<Use(bs \o Head(text).binds)>> \o Tail(text) ELSE s \o text \o <<Close>>
  BY DEF UseCall, Statement
<1>2. CASE at = Len(stmts)
  <2>1. Yielding(text')
    BY <1>1, <1>2 DEF Yielding, LastKind
  <2> QED
    BY <1>1, <2>1, StatementYields
<1>3. CASE at # Len(stmts)
  <2>1. b \in Pairs
    BY <1>1, WhatFollows, BindingType DEF Binds
  <2> HIDE DEF b
  <2>2. bs \in Seq(Pairs)
    BY <2>1
  <2> HIDE DEF bs
  <2>3. s \in Seq(Token)
    <3>1. Use(bs) \in Token
      BY <2>2, TokenTypes
    <3> QED
      BY <3>1
  <2> HIDE DEF s
  <2>4. Yielding(text')
    BY <1>1, <1>3, <2>2, <2>3, RestYields
  <2> QED
    BY <1>1, <2>4, StatementYields
<1> QED
  BY <1>2, <1>3

LEMMA SurroundYields ==
  ASSUME BodyInv, Ended, Surround
  PROVE  Ended'
<1>1. /\ at = 0 /\ ~written /\ stmts' = stmts
      /\ text' = IF inFunction THEN text
                 ELSE IF prefix # <<>> THEN MergedLet(GivenBindings, text)
                 ELSE IF Len(stmts) = 1 \/ Head(text).form \in {"let", "use"} THEN text
                 ELSE <<Do>> \o text \o <<Close>>
  BY DEF Surround, GivenBindings, bodyInput
<1>2. BodyInput /\ Len(stmts) \in Nat \ {0} /\ text \in Seq(Token) /\ GivenBindings \in Seq(Pairs)
  BY InputTypes, GivenBinds DEF BodyInv, BodyType, Good
<1>3. Yielding(text)
  <2>1. at < Len(stmts)
    BY <1>1, <1>2
  <2> QED
    BY <2>1 DEF Ended
<1>4. ASSUME NEW u, Result(u), EndsWith(text, u) PROVE EndsWith(text', u)
  <2>1. u.form # "let"
    BY <1>2, <1>4, ResultType
  <2>2. EndsWith(MergedLet(GivenBindings, text), u)
    BY <1>2, <1>4, <2>1, EndsMerged
  <2>3. EndsWith(<<Do>> \o text \o <<Close>>, u)
    <3>1. <<Do>> \in Seq(Token)
      <4>1. Do \in Token
        BY TokenTypes
      <4> QED
        BY <4>1
    <3> QED
      BY <1>2, <1>4, <3>1, EndsWrapped
  <2> QED
    BY <1>1, <1>4, <2>2, <2>3
<1>5. Yielding(text')
  BY <1>3, <1>4 DEF Yielding
<1>6. Yielding(text)'
  BY <1>1, <1>5 DEF Yielding, LastKind, Result
<1> QED
  BY <1>6 DEF Ended

RunInv == Running /\ Ran /\ Ended

LEMMA RunStarts ==
  ASSUME BodyInit
  PROVE  RunInv
<1>1. at = Len(stmts) /\ written = FALSE /\ Len(stmts) \in Nat
  BY DEF BodyInit
<1>2. ~(at < Len(stmts)) /\ ~written
  BY <1>1
<1> QED
  BY <1>2 DEF RunInv, Running, Ran, Ended

(* While statements are translated the body is not written.                *)
LEMMA StatementRuns ==
  ASSUME BodyInv, NEW kind, Statement(kind), Running', Ended'
  PROVE  RunInv'
<1>1. ~written'
  BY WhatFollows DEF Statement
<1> QED
  BY <1>1 DEF RunInv, Ran

LEMMA SurroundRunInv ==
  ASSUME BodyInv, RunInv, Surround, UNCHANGED prefix
  PROVE  RunInv'
<1>1. UNCHANGED <<stmts, prefix, params>> /\ written' = TRUE
  BY DEF Surround, bodyInput
<1>2. Ended'
  BY SurroundYields DEF RunInv
<1>3. Ran'
  <2>1. SUFFICES ASSUME ~Spliced, ~Captured PROVE RunsWhole(text)'
    BY <1>1, GleamStays DEF Ran
  <2>2. PICK ev : ev \in Seq(Events) /\ Alike(ev, GleamFrom(1)) /\ RunsTo(text', Around, ev)
    BY <2>1, SurroundRuns DEF RunInv, RunsWhole
  <2>3. Alike(ev, GleamFrom(1))' /\ Around' = Around
    BY <1>1, <2>2, GleamStays DEF Alike, SameEvent
  <2> QED
    BY <2>2, <2>3 DEF RunsWhole
<1> QED
  BY <1>1, <1>2, <1>3 DEF RunInv, Running

LEMMA RunStutters ==
  ASSUME RunInv, UNCHANGED <<prefix, bodyVars>>
  PROVE  RunInv'
<1>1. UNCHANGED <<stmts, prefix, params, at, text, written>>
  BY DEF bodyVars, bodyInput
<1>2. Ended'
  BY <1>1 DEF RunInv, Ended, Yielding, LastKind, Result
<1>3. Running'
  <2>1. SUFFICES ASSUME at < Len(stmts), ~written, ~Spliced, ~Captured PROVE Reads(text, at + 1)'
    BY <1>1, GleamStays DEF Running
  <2>2. Reads(text', at + 1) /\ at + 1 = (at + 1)'
    BY <1>1, <2>1 DEF RunInv, Running
  <2> QED
    BY <1>1, <2>2, ReadsStays
<1>4. Ran'
  <2>1. SUFFICES ASSUME written, ~Spliced, ~Captured PROVE RunsWhole(text)'
    BY <1>1, GleamStays DEF Ran
  <2>2. PICK ev : ev \in Seq(Events) /\ Alike(ev, GleamFrom(1)) /\ RunsTo(text, Around, ev)
    BY <2>1 DEF RunInv, Ran, RunsWhole
  <2>3. Alike(ev, GleamFrom(1))' /\ Around' = Around
    BY <1>1, <2>2, GleamStays DEF Alike, SameEvent
  <2> QED
    BY <1>1, <2>2, <2>3 DEF RunsWhole
<1> QED
  BY <1>2, <1>3, <1>4 DEF RunInv

LEMMA StepRuns ==
  ASSUME BodyInv, RunInv, BodyStep, UNCHANGED prefix
  PROVE  RunInv'
<1>1. Running /\ Ended
  BY DEF RunInv
<1>2. ASSUME NEW kind, Statement(kind), kind \notin LetKinds \cup {"use"},
             NEW part \in {"value", "recur"}, text' = <<Eval(at, part)>> \o Following
      PROVE  RunInv'
  BY <1>1, <1>2, EvaluatedReads, EvaluatedYields, StatementRuns
<1>3. ASSUME NEW kind, Statement(kind), NEW temp, NEW part,
             \/ kind = "test" /\ temp = "v" /\ part = "check"
             \/ kind = "case" /\ temp = "subject" /\ part = "value",
             text' = <<Let(<<Binding(temp, at, "temp")>>), Eval(at, part), Close>> \o Following
      PROVE  RunInv'
  <2>1. Running'
    BY <1>1, <1>3, ShortLetReads
  <2>2. Ended'
    <3>1. temp \in {"v", "subject"}
      BY <1>3
    <3> QED
      BY <1>1, <1>3, <3>1, ShortLetYields
  <2> QED
    BY <1>3, <2>1, <2>2, StatementRuns
<1>4. CASE AssignLet
  BY <1>1, <1>4, AssignLetReads, AssignLetYields, StatementRuns DEF AssignLet
<1>5. CASE LiteralAssert \/ BoolAssert \/ Expression
  <2>1. \A kind \in {"literal", "assert", "expr"} : kind \notin LetKinds \cup {"use"}
    BY DEF LetKinds
  <2> QED
    BY <1>2, <1>5, <2>1 DEF LiteralAssert, BoolAssert, Expression
<1>6. CASE TestAssert
  BY <1>3, <1>6 DEF TestAssert
<1>7. CASE CaseExpression
  BY <1>3, <1>7 DEF CaseExpression
<1>8. CASE BindingAssert
  BY <1>1, <1>8, BindingAssertReads, BindingAssertYields, StatementRuns DEF BindingAssert
<1>9. CASE SelfCall
  <2>1. "self" \notin LetKinds \cup {"use"}
    BY DEF LetKinds
  <2> QED
    BY <1>2, <1>9, <2>1 DEF SelfCall
<1>10. CASE UseCall
  BY <1>1, <1>10, UseCallReads, UseCallYields, StatementRuns DEF UseCall
<1>11. CASE Surround
  BY <1>11, SurroundRunInv
<1> QED
  BY <1>4, <1>5, <1>6, <1>7, <1>8, <1>9, <1>10, <1>11 DEF BodyStep

THEOREM RunInvariance == BodySpec => []RunInv
<1>1. BodyInv /\ RunInv /\ [BodyStep /\ UNCHANGED prefix]_<<prefix, bodyVars>> => RunInv'
  BY StepRuns, RunStutters
<1> QED
  BY BodyInvariance, RunStarts, <1>1, PTL DEF BodySpec

(* A body of any length, in any branch or function: evaluation goes        *)
(* through its statements in order, each seeing what Gleam has in scope,   *)
(* and yields the last one's value; unless a let was spliced or a made up  *)
(* name hides a variable.                                                  *)
THEOREM BodyRunsLikeGleam == BodySpec => []RunsLikeGleam
<1>1. BodyInv /\ RunInv => RunsLikeGleam
  <2> SUFFICES ASSUME BodyInv, RunInv, written, ~Spliced, ~Captured
               PROVE  /\ Alike(Trace, GleamFrom(1))
                      /\ LastKind = "assert let" => Yields(0, "v")
                      /\ LastKind \notin {"let", "test", "use", "assert let"} =>
                           Yields(Len(stmts), "value") \/ Yields(Len(stmts), "recur")
    BY DEF RunsLikeGleam, LastKind
  <2>1. BodyInput /\ text \in Seq(Token) /\ Len(stmts) \in Nat \ {0} /\ at = 0
    BY InputTypes DEF BodyInv, BodyType, Good
  <2>2. Alike(Trace, GleamFrom(1))
    <3>1. PICK ev : ev \in Seq(Events) /\ Alike(ev, GleamFrom(1)) /\ RunsTo(text, Around, ev)
      BY DEF RunInv, Ran, RunsWhole
    <3>2. Trace = ev
      BY <2>1, <3>1, TraceIs
    <3> QED
      BY <3>1, <3>2
  <2>3. Yielding(text)
    BY <2>1 DEF RunInv, Ended
  <2>4. ASSUME NEW k, NEW form, EndsWith(text, Eval(k, form)) PROVE Yields(k, form)
    <3>1. PICK m \in 1..Len(text) :
            text[m] = Eval(k, form) /\ \A l \in m+1..Len(text) : text[l].form = "close"
      BY <2>4 DEF EndsWith
    <3>2. m \in DOMAIN text /\ text[m].form = form /\ text[m].binds = <<k>>
      BY <2>1, <3>1 DEF Eval
    <3> QED
      BY <3>1, <3>2 DEF Yields
  <2>5. LastKind = "assert let" => Yields(0, "v")
    BY <2>3, <2>4 DEF Yielding, Result
  <2>6. LastKind \notin {"let", "test", "use", "assert let"} =>
          Yields(Len(stmts), "value") \/ Yields(Len(stmts), "recur")
    BY <2>3, <2>4 DEF Yielding, Result
  <2> QED
    BY <2>2, <2>5, <2>6
<1> QED
  BY BodyInvariance, RunInvariance, <1>1, PTL
=============================================================================
