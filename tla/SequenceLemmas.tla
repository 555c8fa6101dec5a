--------------------------- MODULE SequenceLemmas ---------------------------
(***************************************************************************)
(* Facts about the operators on sequences and numbers that the modules use *)
(* for vectors and worklists: listings of a set, popping, appending.       *)
(***************************************************************************)
EXTENDS Integers, SequencesExt, SequenceTheorems, FiniteSetTheorems, WellFoundedInduction, TLAPS

(* A listing of a finite set is a sequence that has each element once.     *)
LEMMA SeqsOfSet ==
  ASSUME NEW S, IsFiniteSet(S), NEW s \in SetToSeqs(S)
  PROVE  /\ s \in Seq(S) /\ Len(s) \in Nat
         /\ S = {s[k] : k \in 1..Len(s)}
         /\ \A i, j \in 1..Len(s) : s[i] = s[j] => i = j
<1> DEFINE n == Cardinality(S)
<1>1. n \in Nat
  BY FS_CardinalityType
<1>2. s \in [1..n -> S] /\ \A i, j \in 1..n : i # j => s[i] # s[j]
  BY DEF SetToSeqs
<1>3. Len(s) = n /\ s \in Seq(S)
  BY <1>1, <1>2
<1>4. IsFiniteSet(1..n) /\ Cardinality(1..n) = n
  BY <1>1, FS_Interval
<1>5. s \in Injection(1..n, S)
  BY <1>2 DEF Injection, IsInjective
<1>6. s \in Surjection(1..n, S)
  BY <1>4, <1>5, FS_Injection
<1>7. \A x \in S : \E k \in 1..n : s[k] = x
  BY <1>6 DEF Surjection
<1> QED
  BY <1>1, <1>2, <1>3, <1>7

(* Popping a vector.                                                       *)
LEMMA FrontAndLast ==
  ASSUME NEW S, NEW s \in Seq(S), s # <<>>
  PROVE  /\ Len(s) \in Nat \ {0} /\ Last(s) \in S /\ Last(s) = s[Len(s)]
         /\ Front(s) \in Seq(S) /\ Len(Front(s)) = Len(s) - 1
         /\ \A i \in 1..Len(s)-1 : Front(s)[i] = s[i]
<1>1. Len(s) \in Nat \ {0}
  BY EmptySeq
<1>2. Last(s) \in S /\ Last(s) = s[Len(s)]
  BY <1>1 DEF Last
<1>3. Front(s) \in Seq(S)
  BY <1>1 DEF Front
<1>4. Len(Front(s)) = Len(s) - 1
  <2> DEFINE n == Len(s) - 1
  <2>1. n \in Int /\ \A i \in 1..n : s[i] \in S
    BY <1>1
  <2>2. Len(SubSeq(s, 1, n)) = IF 1 <= n THEN n - 1 + 1 ELSE 0
    <3> HIDE DEF n
    <3> QED
      BY <2>1, SubSeqProperties
  <2>3. n \in Nat
    BY <1>1
  <2> HIDE DEF n
  <2>4. Len(SubSeq(s, 1, n)) = n
    BY ONLY <2>2, <2>3
  <2> QED
    BY ONLY <2>4 DEF Front, n
<1>5. ASSUME NEW i \in 1..Len(s)-1
      PROVE  Front(s)[i] = s[i]
  BY <1>1, <1>5 DEF Front
<1> QED
  BY <1>1, <1>2, <1>3, <1>4, <1>5

(* Appending a vector to a vector.                                         *)
LEMMA Appended ==
  ASSUME NEW S, NEW s \in Seq(S), NEW t \in Seq(S), NEW u, u = s \o t
  PROVE  /\ u \in Seq(S) /\ Len(u) = Len(s) + Len(t) /\ Len(s) \in Nat /\ Len(t) \in Nat
         /\ \A i \in 1..Len(s) : u[i] = s[i]
         /\ \A i \in 1..Len(t) : u[Len(s) + i] = t[i]
OBVIOUS

(* What popping and appending do to the set of a vector's elements.        *)
Elements(s) == {s[i] : i \in 1..Len(s)}

LEMMA PopElements ==
  ASSUME NEW S, NEW s \in Seq(S), s # <<>>
  PROVE  Elements(s) = Elements(Front(s)) \cup {Last(s)}
<1> DEFINE n == Len(s)
<1>1. /\ n \in Nat \ {0} /\ Last(s) = s[n] /\ Len(Front(s)) = n - 1
      /\ \A i \in 1..n-1 : Front(s)[i] = s[i]
  BY FrontAndLast
<1>2. Elements(s) = {s[i] : i \in 1..n} /\ Elements(Front(s)) = {Front(s)[i] : i \in 1..n-1}
  BY <1>1 DEF Elements
<1>3. 1..n = (1..n-1) \cup {n} /\ n \in 1..n
  BY <1>1
<1> HIDE DEF n
<1> QED
  BY <1>1, <1>2, <1>3

LEMMA AppendElements ==
  ASSUME NEW S, NEW s \in Seq(S), NEW t \in Seq(S)
  PROVE  Elements(s \o t) = Elements(s) \cup Elements(t)
<1> DEFINE u == s \o t
<1>1. s \in Seq(S) /\ t \in Seq(S) /\ u = s \o t
  OBVIOUS
<1> HIDE DEF u
<1>2. /\ Len(u) = Len(s) + Len(t) /\ Len(s) \in Nat /\ Len(t) \in Nat
      /\ \A i \in 1..Len(s) : u[i] = s[i]
      /\ \A i \in 1..Len(t) : u[Len(s) + i] = t[i]
  BY <1>1, Appended
<1>3. ASSUME NEW i \in 1..Len(u), i \notin 1..Len(s)
      PROVE  u[i] \in Elements(t)
  <2>1. i - Len(s) \in 1..Len(t) /\ i = Len(s) + (i - Len(s))
    BY <1>2, <1>3
  <2> QED
    BY <1>2, <2>1 DEF Elements
<1>4. ASSUME NEW i \in 1..Len(s)
      PROVE  i \in 1..Len(u) /\ u[i] = s[i]
  BY <1>2
<1>5. ASSUME NEW i \in 1..Len(t)
      PROVE  Len(s) + i \in 1..Len(u) /\ u[Len(s) + i] = t[i]
  BY <1>2
<1>6. Elements(u) \subseteq Elements(s) \cup Elements(t)
  BY <1>2, <1>3 DEF Elements
<1>7. Elements(s) \subseteq Elements(u) /\ Elements(t) \subseteq Elements(u)
  BY <1>4, <1>5 DEF Elements
<1> QED
  BY <1>1, <1>6, <1>7

(* A set of indices that is not empty has a least one.                     *)
LEMMA LeastIndex ==
  ASSUME NEW S \in SUBSET Nat, S # {}
  PROVE  \E n \in S : \A l \in S : n <= l
<1>1. PICK n \in S : \A l \in S : ~(<<l, n>> \in OpToRel(<, Nat))
  <2>1. S \subseteq Nat /\ S # {}
    OBVIOUS
  <2> QED
    BY <2>1, NatLessThanWellFounded, WFMin
<1>2. \A l \in S : ~(l < n)
  BY <1>1 DEF OpToRel
<1> QED
  BY <1>2

LEMMA MinOfIndices ==
  ASSUME NEW S \in SUBSET Nat, S # {}
  PROVE  Min(S) \in S /\ \A l \in S : Min(S) <= l
BY LeastIndex DEF Min

(* Pushing on a vector.                                                    *)
LEMMA PushElements ==
  ASSUME NEW S, NEW s \in Seq(S), NEW x \in S
  PROVE  Elements(Append(s, x)) = Elements(s) \cup {x}
<1> DEFINE n == Len(s)
           u == Append(s, x)
<1>1. /\ Len(u) = n + 1 /\ n \in Nat /\ u[n + 1] = x
      /\ \A i \in 1..n : u[i] = s[i]
  OBVIOUS
<1>2. Elements(s) = {s[i] : i \in 1..n} /\ Elements(u) = {u[i] : i \in 1..n+1}
  BY <1>1 DEF Elements
<1>3. 1..n+1 = (1..n) \cup {n + 1}
  BY <1>1
<1> HIDE DEF n, u
<1>4. Elements(u) = Elements(s) \cup {x}
  BY <1>1, <1>2, <1>3
<1> QED
  BY <1>4 DEF u

(* The first element of a vector and the rest.                             *)
LEMMA HeadAndTail ==
  ASSUME NEW S, NEW s \in Seq(S), s # <<>>
  PROVE  ToSet(s) = {Head(s)} \cup ToSet(Tail(s))
<1> DEFINE n == Len(s)
           r == Tail(s)
<1>1. n \in Nat \ {0}
  BY EmptySeq
<1>2. Head(s) = s[1] /\ Len(r) = n - 1 /\ \A i \in 1..n-1 : r[i] = s[i+1]
  <2>1. Len(r) = n - 1 /\ \A i \in 1..Len(r) : r[i] = s[i+1]
    BY HeadTailProperties
  <2>2. Head(s) = s[1]
    OBVIOUS
  <2> QED
    BY <2>1, <2>2
<1>3. ToSet(s) = {s[i] : i \in 1..n} /\ ToSet(r) = {r[i] : i \in 1..n-1}
  <2>1. DOMAIN s = 1..n /\ DOMAIN r = 1..Len(r)
    BY HeadTailProperties
  <2> QED
    BY <1>2, <2>1 DEF ToSet
<1>4. 1..n = {1} \cup {i + 1 : i \in 1..n-1}
  <2>1. \A i \in 1..n : i = 1 \/ (i - 1 \in 1..n-1 /\ i = (i - 1) + 1)
    BY <1>1
  <2>2. 1 \in 1..n /\ \A i \in 1..n-1 : i + 1 \in 1..n
    BY <1>1
  <2> QED
    BY <2>1, <2>2
<1> HIDE DEF n, r
<1>5. ToSet(s) = {s[1]} \cup ToSet(r)
  <2>1. {s[i] : i \in 1..n} = {s[1]} \cup {s[i+1] : i \in 1..n-1}
    BY <1>4
  <2>2. {s[i+1] : i \in 1..n-1} = {r[i] : i \in 1..n-1}
    BY <1>2
  <2> QED
    BY <1>3, <2>1, <2>2
<1> QED
  BY <1>2, <1>5 DEF r

-----------------------------------------------------------------------------
(* Tuples of n natural numbers in lexicographic order: a place goes down   *)
(* and those before it stay, whatever becomes of those after it.  What     *)
(* goes down in it at every step comes to an end.                          *)
Less == {p \in Nat \X Nat : p[1] < p[2]}
Lower(n, a, b) == <<a, b>> \in LexProductOrdering(Less, Nat, n)

LEMMA LowerEnds ==
  ASSUME NEW n \in Nat
  PROVE  ~\E f \in [Nat -> [1..n -> Nat]] : \A i \in Nat : Lower(n, f[i+1], f[i])
<1>1. IsWellFoundedOn(Less, Nat)
  <2>1. OpToRel(<, Nat) = Less
    BY DEF OpToRel, Less
  <2> QED
    BY <2>1, NatLessThanWellFounded
<1>2. IsWellFoundedOn(LexProductOrdering(Less, Nat, n), [1..n -> Nat])
  BY <1>1, WFLexProductOrdering
<1> QED
  BY <1>2 DEF IsWellFoundedOn, Lower

LEMMA LowerAt ==
  ASSUME NEW n \in Nat, NEW a \in [1..n -> Nat], NEW b \in [1..n -> Nat],
         NEW i \in 1..n, a[i] < b[i], \A j \in 1..i-1 : a[j] = b[j]
  PROVE  Lower(n, a, b)
<1>1. <<a[i], b[i]>> \in Less
  BY DEF Less
<1> QED
  BY <1>1 DEF Lower, LexProductOrdering

(* A listing without repetition is as long as its set is large, and what   *)
(* is taken away from a finite set is no longer there.                     *)
LEMMA ListingLength ==
  ASSUME NEW S, NEW s \in Seq(S), S = {s[k] : k \in 1..Len(s)},
         \A i, j \in 1..Len(s) : s[i] = s[j] => i = j
  PROVE  Cardinality(S) = Len(s)
<1>1. Len(s) \in Nat /\ s \in [1..Len(s) -> S]
  OBVIOUS
<1>2. s \in Injection(1..Len(s), S)
  BY <1>1 DEF Injection, IsInjective
<1>3. s \in Surjection(1..Len(s), S)
  BY <1>1 DEF Surjection
<1>4. ExistsBijection(1..Len(s), S)
  BY <1>2, <1>3 DEF Bijection, ExistsBijection
<1> QED
  BY <1>1, <1>4, FS_CountingElements

LEMMA TakenAway ==
  ASSUME NEW S, IsFiniteSet(S), NEW W \in SUBSET S
  PROVE  /\ Cardinality(S) \in Nat /\ Cardinality(W) \in Nat
         /\ Cardinality(S \ W) = Cardinality(S) - Cardinality(W)
<1>1. IsFiniteSet(W)
  BY FS_Subset
<1>2. Cardinality(S) \in Nat /\ Cardinality(W) \in Nat
  BY <1>1, FS_CardinalityType
<1>3. Cardinality(S \ W) = Cardinality(S) - Cardinality(S \cap W)
  BY FS_Difference
<1>4. S \cap W = W
  OBVIOUS
<1> QED
  BY <1>2, <1>3, <1>4

LEMMA ProperPart ==
  ASSUME NEW S, IsFiniteSet(S), NEW T \in SUBSET S
  PROVE  /\ Cardinality(S) \in Nat /\ Cardinality(T) \in Nat
         /\ T # S => Cardinality(T) < Cardinality(S)
<1>1. IsFiniteSet(T) /\ Cardinality(T) <= Cardinality(S) /\ (Cardinality(S) = Cardinality(T) => S = T)
  BY FS_Subset
<1>2. Cardinality(S) \in Nat /\ Cardinality(T) \in Nat
  BY <1>1, FS_CardinalityType
<1> QED
  BY <1>1, <1>2
=============================================================================
