----------------------------- MODULE DataLemmas ------------------------------
(***************************************************************************)
(* Facts about data that several proofs need.  Sets of numbers: what the   *)
(* selections of the code rest on (the first grant, the latest plan,       *)
(* MAX(sequence) + 1, the numbers that the turns found at start-up get).   *)
(* Concatenations of any number of sequences: what the code's encodings    *)
(* and framings are.  An induction is made with the least counterexample.  *)
(***************************************************************************)
EXTENDS Integers, SequencesExt, SequenceTheorems, FiniteSetTheorems, WellFoundedInduction, TLAPS

-----------------------------------------------------------------------------
(* Sets of numbers.                                                        *)

(* A set of numbers that is not empty has a least one *)
LEMMA LeastExists ==
  ASSUME NEW S \in SUBSET Nat, S # {}
  PROVE  \E m \in S : \A k \in S : m <= k
<1>1. PICK m \in S : \A k \in S : ~ (<<k, m>> \in OpToRel(<, Nat))
  BY NatLessThanWellFounded, WFMin
<1>2. ASSUME NEW k \in S PROVE m <= k
  <2>1. ~ (k < m)
    BY <1>1 DEF OpToRel
  <2> QED BY <2>1
<1> QED BY <1>2

(* ... and, below a bound, a greatest one *)
LEMMA GreatestExists ==
  ASSUME NEW N \in Nat, NEW S \in SUBSET (0 .. N), S # {}
  PROVE  \E m \in S : \A k \in S : k <= m
<1> DEFINE D == {N - k : k \in S}
<1>1. D \in SUBSET Nat /\ D # {}
  <2>1. \A k \in S : k \in 0 .. N
    OBVIOUS
  <2>2. \A k \in S : N - k \in Nat
    BY <2>1
  <2>3. PICK k \in S : TRUE
    OBVIOUS
  <2> QED BY <2>2, <2>3
<1>2. PICK d \in D : \A c \in D : d <= c
  BY <1>1, LeastExists
<1>3. PICK m \in S : d = N - m
  BY <1>2
<1>4. ASSUME NEW k \in S PROVE k <= m
  <2>1. N - m <= N - k
    BY <1>2, <1>3
  <2> QED BY <2>1
<1> QED BY <1>4

(* The ranks of the members of a finite set of numbers are 0, 1, 2, ...    *)
LEMMA RanksAreAnInterval ==
  ASSUME NEW S \in SUBSET Nat, IsFiniteSet(S)
  PROVE  /\ Cardinality(S) \in Nat
         /\ \A m \in S : Cardinality({k \in S : k < m}) \in Nat
         /\ {Cardinality({k \in S : k < m}) : m \in S} = 0 .. Cardinality(S) - 1
         /\ \A m, n \in S : m < n =>
              Cardinality({k \in S : k < m}) < Cardinality({k \in S : k < n})
<1> DEFINE Below(m) == {k \in S : k < m}
           rank == [m \in S |-> Cardinality(Below(m))]
           R == {rank[m] : m \in S}
<1>1. Cardinality(S) \in Nat
  BY FS_CardinalityType
<1>2. ASSUME NEW m \in S
      PROVE  /\ IsFiniteSet(Below(m)) /\ Cardinality(Below(m)) \in Nat
             /\ Cardinality(Below(m)) < Cardinality(S)
  <2>1. Below(m) \in SUBSET S /\ m \notin Below(m) /\ m \in Nat
    OBVIOUS
  <2>2. IsFiniteSet(Below(m)) /\ Cardinality(Below(m)) <= Cardinality(S)
          /\ (Cardinality(S) = Cardinality(Below(m)) => S = Below(m))
    <3> HIDE DEF Below
    <3> QED BY <2>1, FS_Subset
  <2>3. Cardinality(Below(m)) \in Nat
    BY <2>2, FS_CardinalityType
  <2> QED BY <1>1, <2>1, <2>2, <2>3
<1>3. ASSUME NEW m \in S, NEW n \in S, m < n
      PROVE  Cardinality(Below(m)) < Cardinality(Below(n))
  <2>1. Below(m) \in SUBSET Below(n) /\ m \in Below(n) /\ m \notin Below(m)
    <3>1. m \in Nat /\ n \in Nat
      OBVIOUS
    <3>2. \A k \in S : k \in Nat /\ (k < m => k < n)
      BY <1>3, <3>1
    <3>3. Below(m) \subseteq Below(n)
      BY <3>2
    <3>4. m \in Below(n) /\ m \notin Below(m)
      BY <1>3, <3>1
    <3> HIDE DEF Below
    <3> QED BY <3>3, <3>4
  <2>2. /\ Cardinality(Below(m)) <= Cardinality(Below(n))
        /\ (Cardinality(Below(n)) = Cardinality(Below(m)) => Below(n) = Below(m))
    <3> HIDE DEF Below
    <3> QED BY <1>2, <2>1, FS_Subset
  <2> QED BY <1>2, <2>1, <2>2
<1>4. R = 0 .. Cardinality(S) - 1
  <2>1. \A m \in S : rank[m] = Cardinality(Below(m))
    OBVIOUS
  <2>2. \A m, n \in S : rank[m] = rank[n] => m = n
    <3> SUFFICES ASSUME NEW m \in S, NEW n \in S, rank[m] = rank[n] PROVE m = n
      OBVIOUS
    <3>1. m \in Nat /\ n \in Nat
      OBVIOUS
    <3>2. ~ (m < n) /\ ~ (n < m)
      <4> HIDE DEF Below, rank
      <4> QED BY <1>2, <1>3, <2>1
    <3> QED BY <3>1, <3>2
  <2>3. rank \in Bijection(S, R)
    BY <2>2 DEF Bijection, Injection, Surjection, IsInjective
  <2>4. IsFiniteSet(R) /\ Cardinality(R) = Cardinality(S)
    <3> HIDE DEF R, rank
    <3> QED BY <2>3, FS_Bijection DEF ExistsBijection
  <2>5. R \in SUBSET (0 .. Cardinality(S) - 1)
    <3> SUFFICES ASSUME NEW m \in S PROVE rank[m] \in 0 .. Cardinality(S) - 1
      OBVIOUS
    <3> HIDE DEF Below, rank
    <3> QED BY <1>1, <1>2, <2>1
  <2>6. /\ IsFiniteSet(0 .. Cardinality(S) - 1)
        /\ Cardinality(0 .. Cardinality(S) - 1) = Cardinality(S)
    <3> DEFINE c == Cardinality(S)
    <3>1. c \in Nat /\ 0 \in Int /\ c - 1 \in Int
      BY <1>1
    <3> HIDE DEF c
    <3>2. /\ IsFiniteSet(0 .. c - 1)
          /\ Cardinality(0 .. c - 1) = IF 0 > c - 1 THEN 0 ELSE (c - 1) - 0 + 1
      BY <3>1, FS_Interval
    <3>3. Cardinality(0 .. c - 1) = c
      BY <3>1, <3>2
    <3> QED BY <3>2, <3>3 DEF c
  <2> HIDE DEF R
  <2> QED BY <2>4, <2>5, <2>6, FS_Subset
<1>5. R = {Cardinality(Below(m)) : m \in S}
  OBVIOUS
<1> QED BY <1>1, <1>2, <1>3, <1>4, <1>5

-----------------------------------------------------------------------------
(* Concatenations.                                                         *)

LEMMA ConcatAt ==
  ASSUME NEW S, NEW x \in Seq(S), NEW y \in Seq(S), NEW n, Len(x) = n
  PROVE  /\ x \o y \in Seq(S) /\ Len(x \o y) = n + Len(y)
         /\ \A k \in 1 .. n : (x \o y)[k] = x[k]
         /\ \A k \in 1 .. Len(y) : (x \o y)[n + k] = y[k]
<1>1. ASSUME NEW k \in 1 .. n PROVE (x \o y)[k] = x[k]
  OBVIOUS
<1>2. ASSUME NEW k \in 1 .. Len(y) PROVE (x \o y)[n + k] = y[k]
  OBVIOUS
<1>3. x \o y \in Seq(S) /\ Len(x \o y) = n + Len(y)
  OBVIOUS
<1> QED BY <1>1, <1>2, <1>3

(* The beginnings of a concatenation *)
Chain(g, seqs, n) ==
  g = [i \in 1 .. n |-> IF i = 1 THEN seqs[i] ELSE g[i - 1] \o seqs[i]]

LEMMA ChainExists ==
  ASSUME NEW seqs, NEW N \in Nat
  PROVE  \A n \in 1 .. N : \E g : Chain(g, seqs, n)
<1> DEFINE Bad == {n \in 1 .. N : ~ \E g : Chain(g, seqs, n)}
<1>1. ASSUME Bad # {} PROVE FALSE
  <2>1. Bad \in SUBSET Nat
    OBVIOUS
  <2>2. PICK m \in Bad : \A k \in Bad : m <= k
    <3> HIDE DEF Bad
    <3> QED BY <1>1, <2>1, LeastExists
  <2>3. m \in 1 .. N /\ ~ \E g : Chain(g, seqs, m)
    OBVIOUS
  <2>4. CASE m = 1
    <3> DEFINE g == [i \in 1 .. 1 |-> seqs[i]]
    <3>1. g = [i \in 1 .. 1 |-> IF i = 1 THEN seqs[i] ELSE g[i - 1] \o seqs[i]]
      OBVIOUS
    <3> HIDE DEF g
    <3> QED BY <2>3, <2>4, <3>1 DEF Chain
  <2>5. CASE m # 1
    <3>1. m - 1 \in 1 .. N /\ ~ (m <= m - 1) /\ m \in Nat
      BY <2>3, <2>5
    <3>2. PICK h : Chain(h, seqs, m - 1)
      BY <2>2, <3>1
    <3> DEFINE g == [i \in 1 .. m |-> IF i = m THEN h[m - 1] \o seqs[m] ELSE h[i]]
    <3>3. ASSUME NEW i \in 1 .. m
          PROVE  g[i] = IF i = 1 THEN seqs[i] ELSE g[i - 1] \o seqs[i]
      <4>1. CASE i = m
        <5>1. i # 1 /\ i - 1 \in 1 .. m /\ i - 1 # m
          BY <2>5, <3>1, <4>1
        <5>2. g[i] = h[m - 1] \o seqs[m] /\ g[i - 1] = h[m - 1]
          BY <4>1, <5>1
        <5> QED BY <4>1, <5>1, <5>2
      <4>2. CASE i # m
        <5>1. i \in 1 .. m - 1 /\ (i # 1 => i - 1 \in 1 .. m /\ i - 1 # m)
          BY <3>1, <4>2
        <5>2. g[i] = h[i] /\ (i # 1 => g[i - 1] = h[i - 1])
          BY <4>2, <5>1
        <5>3. h[i] = IF i = 1 THEN seqs[i] ELSE h[i - 1] \o seqs[i]
          BY <3>2, <5>1 DEF Chain
        <5> HIDE DEF g
        <5> QED BY <5>2, <5>3
      <4> QED BY <4>1, <4>2
    <3>4. g = [i \in 1 .. m |-> g[i]]
      OBVIOUS
    <3>5. Chain(g, seqs, m)
      <4> HIDE DEF g
      <4> QED BY <3>3, <3>4 DEF Chain
    <3> QED BY <2>3, <3>5
  <2> QED BY <2>4, <2>5
<1> HIDE DEF Bad
<1>2. Bad = {}
  BY <1>1
<1> QED BY <1>2 DEF Bad

(* FlattenSeq is the end of the chain *)
LEMMA FlattenIsChain ==
  ASSUME NEW seqs, Len(seqs) \in Nat, Len(seqs) # 0
  PROVE  \E g : Chain(g, seqs, Len(seqs)) /\ FlattenSeq(seqs) = g[Len(seqs)]
<1> DEFINE n == Len(seqs)
           g == CHOOSE f : f = [i \in 1 .. n |-> IF i = 1 THEN seqs[i]
                                                 ELSE f[i - 1] \o seqs[i]]
<1>1. n \in Nat /\ n \in 1 .. n
  OBVIOUS
<1>2. \E f : Chain(f, seqs, n)
  <2> HIDE DEF n
  <2> QED BY <1>1, ChainExists
<1>3. Chain(g, seqs, n)
  <2> HIDE DEF n
  <2> QED BY <1>2 DEF Chain
<1>4. FlattenSeq(seqs) = g[n]
  BY DEF FlattenSeq
<1> QED BY <1>3, <1>4

(* A property of the parts that concatenation keeps is one of the whole *)
Closed(C) == <<>> \in C /\ \A s, t \in C : s \o t \in C

LEMMA ChainIn ==
  ASSUME NEW C, Closed(C), NEW n \in Nat, NEW seqs, \A i \in 1 .. n : seqs[i] \in C,
         NEW g, Chain(g, seqs, n)
  PROVE  \A i \in 1 .. n : g[i] \in C
<1> DEFINE Bad == {i \in 1 .. n : g[i] \notin C}
<1>1. ASSUME Bad # {} PROVE FALSE
  <2>1. Bad \in SUBSET Nat
    OBVIOUS
  <2>2. PICK m \in Bad : \A k \in Bad : m <= k
    <3> HIDE DEF Bad
    <3> QED BY <1>1, <2>1, LeastExists
  <2>3. m \in 1 .. n /\ g[m] \notin C
    OBVIOUS
  <2>4. g[m] = IF m = 1 THEN seqs[m] ELSE g[m - 1] \o seqs[m]
    BY <2>3 DEF Chain
  <2>5. m # 1
    BY <2>3, <2>4
  <2>6. m - 1 \in 1 .. n /\ ~ (m <= m - 1)
    BY <2>3, <2>5
  <2>7. g[m - 1] \in C /\ seqs[m] \in C
    BY <2>2, <2>3, <2>6
  <2>8. g[m - 1] \o seqs[m] \in C
    BY <2>7 DEF Closed
  <2> QED BY <2>3, <2>4, <2>5, <2>8
<1> HIDE DEF Bad
<1>2. Bad = {}
  BY <1>1
<1> QED BY <1>2 DEF Bad

LEMMA ChainTypes ==
  ASSUME NEW S, NEW n \in Nat, NEW seqs, \A i \in 1 .. n : seqs[i] \in Seq(S),
         NEW g, Chain(g, seqs, n)
  PROVE  \A i \in 1 .. n : g[i] \in Seq(S)
<1>1. Closed(Seq(S))
  BY DEF Closed
<1> QED BY <1>1, ChainIn

LEMMA FlattenIn ==
  ASSUME NEW C, Closed(C), NEW seqs \in Seq(C)
  PROVE  FlattenSeq(seqs) \in C
<1>1. Len(seqs) \in Nat /\ \A i \in 1 .. Len(seqs) : seqs[i] \in C
  OBVIOUS
<1>2. CASE Len(seqs) = 0
  BY <1>2 DEF FlattenSeq, Closed
<1>3. CASE Len(seqs) # 0
  <2>1. PICK g : Chain(g, seqs, Len(seqs)) /\ FlattenSeq(seqs) = g[Len(seqs)]
    BY <1>1, <1>3, FlattenIsChain
  <2>2. \A i \in 1 .. Len(seqs) : g[i] \in C
    BY <1>1, <2>1, ChainIn
  <2> QED BY <1>1, <1>3, <2>1, <2>2
<1> QED BY <1>2, <1>3

IsPrefixOf(s, t) == Len(s) <= Len(t) /\ \A k \in 1 .. Len(s) : t[k] = s[k]

LEMMA ChainGrows ==
  ASSUME NEW S, NEW n \in Nat, NEW seqs, \A i \in 1 .. n : seqs[i] \in Seq(S),
         NEW g, Chain(g, seqs, n), NEW i \in 1 .. n
  PROVE  IsPrefixOf(g[i], g[n])
<1> DEFINE Bad == {j \in i .. n : ~ IsPrefixOf(g[i], g[j])}
<1>1. ASSUME Bad # {} PROVE FALSE
  <2>1. Bad \in SUBSET Nat
    OBVIOUS
  <2>2. PICK m \in Bad : \A k \in Bad : m <= k
    <3> HIDE DEF Bad
    <3> QED BY <1>1, <2>1, LeastExists
  <2>3. m \in i .. n /\ ~ IsPrefixOf(g[i], g[m])
    OBVIOUS
  <2>4. m # i
    <3>1. Len(g[i]) \in Nat
      BY ChainTypes, LenProperties
    <3> QED BY <2>3, <3>1 DEF IsPrefixOf
  <2>5. m - 1 \in i .. n /\ ~ (m <= m - 1) /\ m \in 1 .. n /\ m - 1 \in 1 .. n /\ m # 1
    BY <2>3, <2>4
  <2>6. IsPrefixOf(g[i], g[m - 1])
    BY <2>2, <2>5
  <2>7. g[m] = g[m - 1] \o seqs[m]
    BY <2>5 DEF Chain
  <2>8. g[i] \in Seq(S) /\ g[m - 1] \in Seq(S) /\ seqs[m] \in Seq(S)
    BY <2>5, ChainTypes
  <2> DEFINE a == g[i]
             b == g[m - 1]
             c == seqs[m]
  <2>9. ASSUME NEW x \in Seq(S), NEW y \in Seq(S), NEW z \in Seq(S), IsPrefixOf(x, y)
        PROVE  IsPrefixOf(x, y \o z)
    <3>1. Len(y \o z) = Len(y) + Len(z) /\ \A k \in 1 .. Len(y) : (y \o z)[k] = y[k]
      OBVIOUS
    <3> QED BY <2>9, <3>1 DEF IsPrefixOf
  <2> QED BY <2>3, <2>6, <2>7, <2>8, <2>9
<1> HIDE DEF Bad
<1>2. Bad = {}
  BY <1>1
<1>3. n \in i .. n
  OBVIOUS
<1> QED BY <1>2, <1>3 DEF Bad
=============================================================================
